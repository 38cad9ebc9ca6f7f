------------------------- MODULE InvitationsProofs -------------------------
(***************************************************************************)
(* Theorems about Invitations, for any number of requests, guests and      *)
(* invitations, any imported list, any set of operations and any allowance.*)
(*                                                                         *)
(* A step of a request is of one of a few shapes (it answers, it goes on,  *)
(* it rolls back, it commits); each shape has a lemma that says under what *)
(* condition SafetyInv survives it, and each action is shown to meet the   *)
(* condition of its shape.                                                 *)
(***************************************************************************)
EXTENDS Invitations, FiniteSetTheorems, TLAPS

Written == NullOr(GuestRow \cup {Gone})

LEMMA NullApart == Null \notin Groups /\ Null \notin Guests /\ Null \notin GuestRow /\ Null # Gone
BY ConstantsAssumption

LEMMA GroupOfRow == \A row \in GuestRow : row.group \in Groups
BY DEF GuestRow

LEMMA NoRowsWritten == NoRows \in [Guests -> Written] /\ \A p \in Guests : NoRows[p] = Null
BY DEF NoRows, Written, NullOr

\* What TypeOK says of one request.
LEMMA TypeOf ==
  ASSUME TypeOK, NEW t \in Handlers
  PROVE  /\ pc[t] \in PCs
         /\ pc[t] = "idle" => req[t] = Null /\ wrote[t] = NoRows /\ held[t] = {}
         /\ pc[t] # "idle" => req[t] \in Request /\ Fits(pc[t], req[t])
         /\ wrote[t] \in [Guests -> Written]
         /\ held[t] \subseteq Groups
BY DEF TypeOK, LocksOK, RequestsOK, Carries, Fits, Written

LEMMA WhereOf ==
  ASSUME TypeOK
  PROVE  /\ \A p \in Guests : guest[p] \in GuestRow \cup {Absent, Gone}
         /\ \A p \in Guests : Listed(p) => guest[p].group \in Groups
BY GroupOfRow DEF TypeOK, TablesOK, Listed

-----------------------------------------------------------------------------
\* The first state.

LEMMA InvInit == Init => SafetyInv
<1> SUFFICES ASSUME Init PROVE SafetyInv
  OBVIOUS
<1>1. TypeOK
  <2>1. guest \in [Guests -> GuestRow \cup {Absent, Gone}]
    BY ConstantsAssumption DEF Init, ImportedRow, GuestRow, Answers
  <2>2. group \in [Groups -> {"unused", "reserved", "live", "gone"}]
    BY DEF Init
  <2>3. LocksOK
    BY DEF Init, LocksOK, NoRows, NullOr
  <2>4. RequestsOK
    BY DEF Init, RequestsOK, Carries, PCs, NullOr, Replies
  <2> QED
    BY <2>1, <2>2, <2>3, <2>4 DEF Init, TypeOK, TablesOK, HistoryOK
<1>2. GuestHasInvitation
  BY <1>1, WhereOf DEF Init, GuestHasInvitation, Members, Listed
<1>3. \A t \in Handlers : pc[t] = "idle" /\ held[t] = {} /\ \A p \in Guests : wrote[t][p] = Null
  BY NoRowsWritten DEF Init
<1> QED
  BY <1>1, <1>2, <1>3, NullApart
     DEF SafetyInv, RowLocks, GroupLocks, LocksHeld, HomeReserved, WrittenIntoGroup, CascadeCovers

-----------------------------------------------------------------------------
\* Steps that only answer.

LEMMA InvAnswer ==
  ASSUME SafetyInv, NEW t \in Handlers, NEW what \in Replies, Answer(t, what)
  PROVE  SafetyInv'
<1> USE DEF Answer, tables, locks, history
<1>1. TypeOK'
  BY DEF SafetyInv, TypeOK, TablesOK, LocksOK, RequestsOK, HistoryOK, Carries
<1>2. GuestHasInvitation' /\ RowLocks'
  BY DEF SafetyInv, GuestHasInvitation, RowLocks, Listed, RowBusy
<1>3. GroupLocks'
  BY DEF SafetyInv, GroupLocks, GroupBusy, Exclusive, Shares, Members
<1>4. LocksHeld' /\ HomeReserved' /\ WrittenIntoGroup' /\ CascadeCovers'
  BY DEF SafetyInv, LocksHeld, HomeReserved, WrittenIntoGroup, CascadeCovers, MembersSeen, Sees
<1> QED
  BY <1>1, <1>2, <1>3, <1>4 DEF SafetyInv

-----------------------------------------------------------------------------
\* Steps that go on: t is at at with r in hand, has written w, holds h.

GoesOn(t, at, r, w, h) ==
  /\ GoTo(t, at, r)
  /\ wrote' = [wrote EXCEPT ![t] = w]
  /\ held'  = [held EXCEPT ![t] = h]
  /\ UNCHANGED <<guest, group, uninvited, gathered>>

\* What it wrote is its own, and where it writes somebody to is there.
WritesOK(t, at, r, w) ==
  \A p \in Guests :
    /\ w[p] # Null => Listed(p) /\ ~RowBusy(t, p)
    /\ w[p] \in GuestRow =>
         \/ at = "reference" /\ w[p].group = r.group
         \/ at # "reference" /\ w[p].group = r.home
         \/ at # "reference" /\ group[w[p].group] = "live"
    /\ w[p] \in GuestRow /\ at # "reference" /\ p \notin Members(w[p].group)
         => ~Exclusive(t, w[p].group)

HoldsOK(t, at, r, w, h) ==
  /\ at = "merge" => w = NoRows
  /\ \A g \in h : group[g] = "live" /\ ~GroupBusy(t, g)
  /\ at \in {"count", "read", "move"} => r.group \in h
  /\ at = "cascade" => r.from \in h

CoversOK(at, r, w) ==
  at = "cascade" =>
    \A p \in Guests :
      LET row == IF w[p] = Null THEN guest[p] ELSE w[p] IN
      row \in GuestRow /\ row.group = r.from => p \in r.rows \cup {r.next}

LEMMA InvGoesOn ==
  ASSUME SafetyInv, NEW t \in Handlers, NEW at \in PCs \ {"idle"}, NEW r, Fits(at, r),
         NEW w \in [Guests -> Written], NEW h \in SUBSET Groups,
         IF pc[t] = "idle" THEN r.home = Null ELSE r.home = req[t].home,
         WritesOK(t, at, r, w), HoldsOK(t, at, r, w, h), CoversOK(at, r, w),
         GoesOn(t, at, r, w, h)
  PROVE  SafetyInv'
<1> USE DEF GoesOn, GoTo
<1>0. TypeOK
  BY DEF SafetyInv
<1>a. /\ pc'[t] = at /\ req'[t] = r /\ wrote'[t] = w /\ held'[t] = h
      /\ \A u \in Handlers \ {t} : pc'[u] = pc[u] /\ req'[u] = req[u]
                                   /\ wrote'[u] = wrote[u] /\ held'[u] = held[u]
      /\ guest' = guest /\ group' = group
  BY <1>0 DEF TypeOK, LocksOK, RequestsOK
<1>1. TypeOK'
  <2>1. TablesOK' /\ HistoryOK'
    BY <1>0 DEF TypeOK, TablesOK, HistoryOK
  <2>2. LocksOK'
    BY <1>0 DEF TypeOK, LocksOK, Written
  <2>3. pc' \in [Handlers -> PCs] /\ req' \in [Handlers -> NullOr(Request)] /\ reply' \in Replies
    BY <1>0 DEF TypeOK, RequestsOK, NullOr, Fits, Replies
  <2>4. ASSUME NEW u \in Handlers PROVE Carries(u)'
    <3>1. CASE u = t
      BY <3>1, <1>a DEF Carries
    <3>2. CASE u # t
      BY <3>2, <1>a, <1>0 DEF Carries, TypeOK, RequestsOK
    <3> QED BY <3>1, <3>2
  <2> QED
    BY <2>1, <2>2, <2>3, <2>4 DEF TypeOK, RequestsOK
<1>2. GuestHasInvitation'
  BY DEF SafetyInv, GuestHasInvitation, Listed
<1>3. RowLocks'
  <2> SUFFICES ASSUME NEW u \in Handlers, NEW p \in Guests, wrote'[u][p] # Null
               PROVE  Listed(p)' /\ \A v \in Handlers \ {u} : wrote'[v][p] = Null
    BY DEF RowLocks, RowBusy
  <2>1. CASE u = t
    BY <2>1, <1>a DEF WritesOK, RowBusy, Listed
  <2>2. CASE u # t
    <3>1. Listed(p) /\ \A v \in Handlers \ {u} : wrote[v][p] = Null
      BY <2>2, <1>a DEF SafetyInv, RowLocks, RowBusy
    <3>2. w[p] = Null
      BY <2>2, <1>a DEF WritesOK, RowBusy
    <3> QED
      BY <3>1, <3>2, <1>a DEF Listed
  <2> QED BY <2>1, <2>2
<1>4. GroupLocks'
  <2>m. \A g : Members(g)' = Members(g)
    BY DEF Members
  <2>g. \A u \in Handlers : \A g \in held'[u] : group'[g] = "live"
    BY <1>a DEF SafetyInv, GroupLocks, HoldsOK
  <2> SUFFICES ASSUME NEW u \in Handlers, NEW g \in held'[u], NEW v \in Handlers \ {u}
               PROVE  g \notin held'[v] /\ ~Shares(v, g)'
    BY <2>g DEF GroupLocks, GroupBusy, Exclusive
  <2>1. CASE u = t
    <3>1. group[g] = "live" /\ g \notin held[v] /\ ~Shares(v, g)
      BY <2>1, <1>a DEF HoldsOK, GroupBusy, Exclusive
    <3> QED
      BY <3>1, <2>1, <2>m, <1>a DEF Shares
  <2>2. CASE u # t /\ v # t
    <3>1. group[g] = "live" /\ g \notin held[v] /\ ~Shares(v, g)
      BY <2>2, <1>a DEF SafetyInv, GroupLocks, GroupBusy, Exclusive
    <3> QED
      BY <3>1, <2>2, <2>m, <1>a DEF Shares
  <2>3. CASE u # t /\ v = t
    <3>1. g \in held[u] /\ g \in Groups /\ group[g] = "live"
      BY <2>3, <1>a, <1>0, TypeOf DEF SafetyInv, GroupLocks
    <3>2. g \notin h
      BY <3>1, <2>3 DEF HoldsOK, GroupBusy, Exclusive
    <3>3. ~Shares(t, g)'
      BY <3>1, <2>3, <2>m, <1>a DEF Shares, WritesOK, Exclusive
    <3> QED
      BY <3>1, <3>2, <3>3, <2>3, <1>a
  <2> QED BY <2>1, <2>2, <2>3
<1>5. LocksHeld'
  BY <1>a DEF SafetyInv, LocksHeld, HoldsOK
<1>6. HomeReserved'
  <2> SUFFICES ASSUME NEW u \in Handlers, pc'[u] # "idle", req'[u].home # Null
               PROVE  /\ group[req'[u].home] = "reserved"
                      /\ \A v \in Handlers \ {u} : pc'[v] # "idle" => req'[v].home # req'[u].home
    BY <1>a DEF HomeReserved
  <2>1. pc[u] # "idle" /\ req[u].home = req'[u].home
    BY <1>a
  <2>2. /\ group[req[u].home] = "reserved"
        /\ \A v \in Handlers \ {u} : pc[v] # "idle" => req[v].home # req[u].home
    BY <2>1 DEF SafetyInv, HomeReserved
  <2>3. ASSUME NEW v \in Handlers \ {u}, pc'[v] # "idle" PROVE req'[v].home # req'[u].home
    <3>1. CASE v = t /\ pc[t] = "idle"
      BY <3>1, <1>a
    <3>2. CASE ~(v = t /\ pc[t] = "idle")
      BY <3>2, <2>3, <2>1, <2>2, <1>a
    <3> QED BY <3>1, <3>2
  <2> QED
    BY <2>1, <2>2, <2>3
<1>7. WrittenIntoGroup'
  BY <1>a DEF SafetyInv, WrittenIntoGroup, WritesOK
<1>8. CascadeCovers'
  <2> SUFFICES ASSUME NEW u \in Handlers, pc'[u] = "cascade"
               PROVE  MembersSeen(u, req[u].from)' \subseteq req'[u].rows \cup {req'[u].next}
    BY DEF CascadeCovers
  <2>1. CASE u = t
    BY <2>1, <1>a DEF CoversOK, MembersSeen, Sees
  <2>2. CASE u # t
    BY <2>2, <1>a DEF SafetyInv, CascadeCovers, MembersSeen, Sees
  <2> QED BY <2>1, <2>2
<1> QED
  BY <1>1, <1>2, <1>3, <1>4, <1>5, <1>6, <1>7, <1>8 DEF SafetyInv

\* From idle a request has nothing written and holds nothing.
LEMMA InvStartIdle ==
  ASSUME SafetyInv, NEW t \in Handlers, pc[t] = "idle", NEW at \in PCs \ {"idle"}, NEW r,
         Fits(at, r), r.home = Null, at \notin {"count", "read", "move", "cascade"},
         GoTo(t, at, r), UNCHANGED <<tables, locks, history>>
  PROVE  SafetyInv'
<1>1. wrote[t] = NoRows /\ held[t] = {}
  BY TypeOf DEF SafetyInv
<1>2. GoesOn(t, at, r, NoRows, {})
  BY <1>1 DEF GoesOn, tables, locks, history, SafetyInv, TypeOK, LocksOK
<1> QED
  BY <1>2, InvGoesOn, NoRowsWritten, NullApart DEF WritesOK, HoldsOK, CoversOK

\* What a request has written so far is its own, and goes where it may.
LEMMA OwnWrites ==
  ASSUME SafetyInv, NEW t \in Handlers, pc[t] # "reference", NEW p \in Guests, wrote[t][p] # Null
  PROVE  /\ Listed(p) /\ ~RowBusy(t, p)
         /\ wrote[t][p] \in GuestRow =>
              \/ wrote[t][p].group = req[t].home
              \/ group[wrote[t][p].group] = "live"
         /\ wrote[t][p] \in GuestRow /\ p \notin Members(wrote[t][p].group)
              => ~Exclusive(t, wrote[t][p].group)
<1>1. Listed(p) /\ ~RowBusy(t, p)
  BY DEF SafetyInv, RowLocks
<1>2. wrote[t][p] \in GuestRow =>
         wrote[t][p].group = req[t].home \/ group[wrote[t][p].group] = "live"
  BY DEF SafetyInv, WrittenIntoGroup
<1>3. ASSUME wrote[t][p] \in GuestRow, p \notin Members(wrote[t][p].group),
             NEW u \in Handlers \ {t}
      PROVE  wrote[t][p].group \notin held[u]
  <2>1. Shares(t, wrote[t][p].group)
    BY <1>3 DEF Shares
  <2> QED
    BY <2>1 DEF SafetyInv, GroupLocks, GroupBusy
<1> QED
  BY <1>1, <1>2, <1>3 DEF Exclusive

\* In a transaction, a statement that writes and locks nothing.
LEMMA InvStart ==
  ASSUME SafetyInv, NEW t \in Handlers, pc[t] # "idle", NEW at \in PCs \ {"idle"}, NEW r,
         Fits(at, r), r.home = req[t].home, r.group = req[t].group,
         at \notin {"reference", "cascade", "merge"}, pc[t] # "reference",
         at \in {"count", "read", "move"} => pc[t] \in {"count", "read", "move"},
         GoTo(t, at, r), UNCHANGED <<tables, locks, history>>
  PROVE  SafetyInv'
<1>1. GoesOn(t, at, r, wrote[t], held[t])
  BY DEF GoesOn, tables, locks, history, SafetyInv, TypeOK, LocksOK
<1>2. wrote[t] \in [Guests -> Written] /\ held[t] \subseteq Groups
  BY TypeOf DEF SafetyInv
<1>3. HoldsOK(t, at, r, wrote[t], held[t])
  BY DEF SafetyInv, HoldsOK, GroupLocks, LocksHeld
<1>4. WritesOK(t, at, r, wrote[t])
  BY OwnWrites, NullApart DEF WritesOK
<1> QED
  BY <1>1, <1>2, <1>3, <1>4, InvGoesOn DEF CoversOK

\* A request that creates an invitation: g is drawn, shown already or not yet.
LEMMA InvFresh ==
  ASSUME SafetyInv, NEW t \in Handlers, pc[t] = "idle", NEW at \in PCs \ {"idle"}, NEW r,
         Fits(at, r), at \notin {"count", "read", "move", "cascade", "reference"},
         NEW g \in Groups, group[g] = "unused", NEW s \in {"reserved", "live"},
         r.home = IF s = "reserved" THEN g ELSE Null,
         group' = [group EXCEPT ![g] = s],
         GoTo(t, at, r), UNCHANGED <<guest, locks, history>>
  PROVE  SafetyInv'
<1> USE DEF GoTo, locks, history
<1>0. TypeOK
  BY DEF SafetyInv
<1>a. /\ pc'[t] = at /\ req'[t] = r /\ wrote[t] = NoRows /\ held[t] = {}
      /\ \A u \in Handlers \ {t} : pc'[u] = pc[u] /\ req'[u] = req[u]
      /\ guest' = guest /\ wrote' = wrote /\ held' = held
      /\ group'[g] = s
      /\ \A f \in Groups : f # g => group'[f] = group[f]
  BY <1>0, TypeOf DEF TypeOK, TablesOK, RequestsOK
<1>b. \A p \in Guests : wrote[t][p] = Null
  BY <1>a, NoRowsWritten
<1>1. TypeOK'
  <2>1. TablesOK' /\ HistoryOK' /\ LocksOK'
    BY <1>0 DEF TypeOK, TablesOK, HistoryOK, LocksOK
  <2>2. pc' \in [Handlers -> PCs] /\ req' \in [Handlers -> NullOr(Request)] /\ reply' \in Replies
    BY <1>0 DEF TypeOK, RequestsOK, NullOr, Fits, Replies
  <2>3. ASSUME NEW u \in Handlers PROVE Carries(u)'
    BY <1>a, <1>0 DEF Carries, TypeOK, RequestsOK
  <2> QED
    BY <2>1, <2>2, <2>3 DEF TypeOK, RequestsOK
<1>2. GuestHasInvitation' /\ RowLocks'
  BY <1>a, <1>0, WhereOf DEF SafetyInv, GuestHasInvitation, RowLocks, Listed, RowBusy
<1>3. GroupLocks'
  <2>1. \A u \in Handlers : \A f : Shares(u, f)' => u # t /\ Shares(u, f)
    BY <1>a, <1>b, NullApart DEF Shares, Members
  <2>2. \A u \in Handlers : \A f \in held[u] : f \in Groups /\ group[f] = "live" /\ ~GroupBusy(u, f)
    BY <1>0, TypeOf DEF SafetyInv, GroupLocks
  <2>3. \A u \in Handlers : \A f \in held[u] : ~GroupBusy(u, f)'
    BY <2>1, <2>2, <1>a DEF GroupBusy, Exclusive
  <2> QED
    BY <2>2, <2>3, <1>a DEF GroupLocks
<1>4. LocksHeld'
  BY <1>a DEF SafetyInv, LocksHeld
<1>5. HomeReserved'
  <2> SUFFICES ASSUME NEW u \in Handlers, pc'[u] # "idle", req'[u].home # Null
               PROVE  /\ group'[req'[u].home] = "reserved"
                      /\ \A v \in Handlers \ {u} : pc'[v] # "idle" => req'[v].home # req'[u].home
    BY DEF HomeReserved
  <2>1. \A v \in Handlers \ {t} : pc[v] # "idle" /\ req[v].home # Null =>
            /\ req[v].home \in Groups /\ group[req[v].home] = "reserved" /\ req[v].home # g
            /\ \A x \in Handlers \ {v} : pc[x] # "idle" => req[x].home # req[v].home
    BY <1>0, TypeOf DEF SafetyInv, HomeReserved, Request, NullOr
  <2>2. CASE u = t
    BY <2>2, <2>1, <1>a, NullApart
  <2>3. CASE u # t
    BY <2>3, <2>1, <1>a
  <2> QED BY <2>2, <2>3
<1>6. WrittenIntoGroup'
  <2> SUFFICES ASSUME NEW u \in Handlers, NEW p \in Guests, wrote[u][p] \in GuestRow
               PROVE  \/ pc'[u] = "reference" /\ wrote[u][p].group = req'[u].group
                      \/ pc'[u] # "reference" /\ wrote[u][p].group = req'[u].home
                      \/ pc'[u] # "reference" /\ group'[wrote[u][p].group] = "live"
    BY <1>a DEF WrittenIntoGroup
  <2>1. u # t
    BY <1>b, NullApart
  <2> QED
    BY <2>1, <1>a, GroupOfRow DEF SafetyInv, WrittenIntoGroup
<1>7. CascadeCovers'
  BY <1>a DEF SafetyInv, CascadeCovers, MembersSeen, Sees
<1> QED
  BY <1>1, <1>2, <1>3, <1>4, <1>5, <1>6, <1>7 DEF SafetyInv

-----------------------------------------------------------------------------
\* Steps that end a transaction.

LEMMA DoneType ==
  ASSUME SafetyInv, NEW t \in Handlers, NEW what \in Replies, Done(t, what),
         held' = [held EXCEPT ![t] = {}]
  PROVE  /\ RequestsOK' /\ LocksOK'
         /\ pc'[t] = "idle" /\ held'[t] = {} /\ \A p \in Guests : wrote'[t][p] = Null
         /\ \A u \in Handlers \ {t} : pc'[u] = pc[u] /\ req'[u] = req[u]
                                      /\ wrote'[u] = wrote[u] /\ held'[u] = held[u]
<1>0. TypeOK
  BY DEF SafetyInv
<1>1. /\ pc'[t] = "idle" /\ req'[t] = Null /\ wrote'[t] = NoRows /\ held'[t] = {}
      /\ \A u \in Handlers \ {t} : pc'[u] = pc[u] /\ req'[u] = req[u]
                                   /\ wrote'[u] = wrote[u] /\ held'[u] = held[u]
  BY <1>0 DEF Done, TypeOK, LocksOK, RequestsOK
<1>2. LocksOK'
  BY <1>0, NoRowsWritten DEF Done, TypeOK, LocksOK, Written
<1>3. pc' \in [Handlers -> PCs] /\ req' \in [Handlers -> NullOr(Request)] /\ reply' \in Replies
  BY <1>0 DEF Done, TypeOK, RequestsOK, NullOr, PCs
<1>4. ASSUME NEW u \in Handlers PROVE Carries(u)'
  BY <1>0, <1>1 DEF Carries, TypeOK, RequestsOK
<1> QED
  BY <1>1, <1>2, <1>3, <1>4, NoRowsWritten DEF RequestsOK

\* What a request may commit: its own rows, into groups that stay, and only
\* groups that nobody uses and that keep no member are deleted.
CommitOK(t, w, dropped) ==
  /\ \A p \in Guests :
       /\ w[p] # Null => ~RowBusy(t, p)
       /\ w[p] \in GuestRow =>
            \/ w[p].group = req[t].home
            \/ /\ group[w[p].group] = "live"
               /\ w[p].group \notin dropped
               /\ p \notin Members(w[p].group) => ~Exclusive(t, w[p].group)
  /\ \A g \in dropped :
       group[g] = "live" /\ ~GroupBusy(t, g) /\ \A p \in Members(g) : w[p] # Null

LEMMA InvCommit ==
  ASSUME SafetyInv, NEW t \in Handlers, pc[t] # "idle", NEW what \in Replies,
         NEW w \in [Guests -> Written], NEW dropped \in SUBSET Groups, CommitOK(t, w, dropped),
         Commit(t, w, dropped, what)
  PROVE  SafetyInv'
<1>0. TypeOK
  BY DEF SafetyInv
<1>a. /\ RequestsOK' /\ LocksOK'
      /\ pc'[t] = "idle" /\ held'[t] = {} /\ \A p \in Guests : wrote'[t][p] = Null
      /\ \A u \in Handlers \ {t} : pc'[u] = pc[u] /\ req'[u] = req[u]
                                   /\ wrote'[u] = wrote[u] /\ held'[u] = held[u]
  BY DoneType DEF Commit
<1>b. /\ \A p \in Guests : guest'[p] = IF w[p] = Null THEN guest[p] ELSE w[p]
      /\ \A g \in Groups : group'[g] = IF g = req[t].home THEN "live"
                                       ELSE IF g \in dropped THEN "gone" ELSE group[g]
  BY DEF Commit
<1>c. req[t] \in Request /\ Fits(pc[t], req[t])
  BY <1>0, TypeOf
<1>1. TypeOK'
  <2>1. TablesOK'
    BY <1>0 DEF Commit, TypeOK, TablesOK, Written, NullOr
  <2>2. HistoryOK'
    BY <1>0, <1>c, NullApart DEF Commit, TypeOK, HistoryOK, Fits, Request, NullOr
  <2> QED
    BY <2>1, <2>2, <1>a DEF TypeOK
<1>d. req[t].home # Null => group[req[t].home] = "reserved"
  BY DEF SafetyInv, HomeReserved
<1>2. GuestHasInvitation'
  <2> SUFFICES ASSUME NEW p \in Guests, guest'[p] \in GuestRow
               PROVE  group'[guest'[p].group] = "live"
    BY DEF GuestHasInvitation, Listed
  <2>1. CASE w[p] = Null
    <3>1. guest'[p] = guest[p] /\ guest[p] \in GuestRow /\ guest[p].group \in Groups
      BY <2>1, <1>b, GroupOfRow
    <3>2. group[guest[p].group] = "live"
      BY <3>1 DEF SafetyInv, GuestHasInvitation, Listed
    <3>3. guest[p].group \notin dropped
      BY <2>1, <3>1 DEF CommitOK, Members
    <3> QED
      BY <3>1, <3>2, <3>3, <1>b
  <2>2. CASE w[p] # Null
    BY <2>2, <1>b, GroupOfRow DEF CommitOK
  <2> QED BY <2>1, <2>2
<1>3. RowLocks'
  <2> SUFFICES ASSUME NEW u \in Handlers, NEW p \in Guests, wrote'[u][p] # Null
               PROVE  guest'[p] \in GuestRow /\ \A v \in Handlers \ {u} : wrote'[v][p] = Null
    BY DEF RowLocks, RowBusy, Listed
  <2>1. u # t /\ wrote[u][p] # Null
    BY <1>a
  <2>2. guest[p] \in GuestRow /\ \A v \in Handlers \ {u} : wrote[v][p] = Null
    BY <2>1 DEF SafetyInv, RowLocks, RowBusy, Listed
  <2>3. w[p] = Null
    BY <2>1 DEF CommitOK, RowBusy
  <2> QED
    BY <2>2, <2>3, <1>a, <1>b
<1>4. GroupLocks'
  <2>1. \A u \in Handlers : \A g \in held'[u] :
          u # t /\ g \in held[u] /\ g \in Groups /\ group[g] = "live" /\ ~GroupBusy(u, g)
    BY <1>a, <1>0, TypeOf DEF SafetyInv, GroupLocks
  <2>2. ASSUME NEW u \in Handlers, NEW g \in held'[u] PROVE group'[g] = "live"
    <3>1. g \notin dropped
      BY <2>1, <2>2 DEF CommitOK, GroupBusy, Exclusive
    <3> QED
      BY <3>1, <2>1, <2>2, <1>b
  <2>3. ASSUME NEW u \in Handlers, NEW g, Shares(u, g)' PROVE Shares(u, g)
    <3>1. PICK p \in Guests : /\ wrote'[u][p] \in GuestRow /\ wrote'[u][p].group = g
                              /\ ~(guest'[p] \in GuestRow /\ guest'[p].group = g)
      BY <2>3 DEF Shares, Members
    <3>2. u # t /\ wrote[u][p] \in GuestRow /\ wrote[u][p].group = g
      BY <3>1, <1>a, NullApart
    <3>3. w[p] = Null
      BY <3>2, NullApart DEF CommitOK, RowBusy
    <3> QED
      BY <3>1, <3>2, <3>3, <2>3, <1>a, <1>b DEF Shares, Members
  <2>4. ASSUME NEW u \in Handlers, NEW g \in held'[u], NEW v \in Handlers \ {u}
        PROVE  g \notin held'[v] /\ ~Shares(v, g)'
    BY <2>1, <2>3, <2>4, <1>a DEF GroupBusy, Exclusive
  <2> QED
    BY <2>2, <2>4 DEF GroupLocks, GroupBusy, Exclusive
<1>5. LocksHeld'
  BY <1>a DEF SafetyInv, LocksHeld
<1>6. HomeReserved'
  <2> SUFFICES ASSUME NEW u \in Handlers, pc'[u] # "idle", req'[u].home # Null
               PROVE  /\ group'[req'[u].home] = "reserved"
                      /\ \A v \in Handlers \ {u} : pc'[v] # "idle" => req'[v].home # req'[u].home
    BY DEF HomeReserved
  <2>1. u # t /\ pc[u] # "idle" /\ req'[u] = req[u]
    BY <1>a
  <2>2. /\ req[u].home \in Groups /\ group[req[u].home] = "reserved"
        /\ \A v \in Handlers \ {u} : pc[v] # "idle" => req[v].home # req[u].home
    BY <2>1, <1>0, TypeOf DEF SafetyInv, HomeReserved, Request, NullOr
  <2>3. req[u].home \notin dropped /\ req[u].home # req[t].home
    BY <2>1, <2>2 DEF CommitOK
  <2> QED
    BY <2>1, <2>2, <2>3, <1>a, <1>b
<1>7. WrittenIntoGroup'
  <2> SUFFICES ASSUME NEW u \in Handlers, NEW p \in Guests, wrote'[u][p] \in GuestRow
               PROVE  \/ pc'[u] = "reference" /\ wrote'[u][p].group = req'[u].group
                      \/ pc'[u] # "reference" /\ wrote'[u][p].group = req'[u].home
                      \/ pc'[u] # "reference" /\ group'[wrote'[u][p].group] = "live"
    BY DEF WrittenIntoGroup
  <2>1. u # t /\ wrote'[u] = wrote[u] /\ pc'[u] = pc[u] /\ req'[u] = req[u]
    BY <1>a, NullApart
  <2>2. ASSUME pc[u] # "reference", group[wrote[u][p].group] = "live"
        PROVE  group'[wrote[u][p].group] = "live"
    <3>1. w[p] = Null
      BY <2>1, NullApart DEF CommitOK, RowBusy
    <3>2. wrote[u][p].group \notin dropped
      BY <3>1, <2>1, <2>2 DEF CommitOK, GroupBusy, Shares
    <3> QED
      BY <3>2, <2>2, <2>1, <1>b, GroupOfRow
  <2> QED
    BY <2>1, <2>2 DEF SafetyInv, WrittenIntoGroup
<1>8. CascadeCovers'
  <2> SUFFICES ASSUME NEW u \in Handlers, pc'[u] = "cascade", NEW p \in Guests,
                      LET row == IF wrote'[u][p] = Null THEN guest'[p] ELSE wrote'[u][p]
                      IN  row \in GuestRow /\ row.group = req'[u].from
               PROVE  p \in req'[u].rows \cup {req'[u].next}
    BY DEF CascadeCovers, MembersSeen, Sees
  <2>1. u # t /\ wrote'[u] = wrote[u] /\ pc'[u] = pc[u] /\ req'[u] = req[u]
    BY <1>a
  <2>2. /\ req[u].from \in held[u] /\ group[req[u].from] = "live"
        /\ MembersSeen(u, req[u].from) \subseteq req[u].rows \cup {req[u].next}
    BY <2>1 DEF SafetyInv, LocksHeld, GroupLocks, CascadeCovers
  <2>3. p \in MembersSeen(u, req[u].from)
    <3>1. CASE wrote[u][p] # Null
      BY <3>1, <2>1 DEF MembersSeen, Sees
    <3>2. CASE wrote[u][p] = Null /\ w[p] = Null
      BY <3>2, <2>1, <1>b DEF MembersSeen, Sees
    <3>3. CASE wrote[u][p] = Null /\ w[p] # Null
      <4>1. w[p] \in GuestRow /\ w[p].group = req[u].from
        BY <3>3, <2>1, <1>b
      <4>2. Exclusive(t, req[u].from)
        BY <2>1, <2>2 DEF Exclusive
      <4>3. w[p].group # req[t].home
        BY <4>1, <2>2, <1>d, <1>0, TypeOf, GroupOfRow, NullApart
      <4>4. p \in Members(req[u].from)
        BY <4>1, <4>2, <4>3 DEF CommitOK
      <4> QED
        BY <4>4, <3>3 DEF Members, MembersSeen, Sees
    <3> QED BY <3>1, <3>2, <3>3
  <2> QED
    BY <2>1, <2>2, <2>3
<1> QED
  BY <1>1, <1>2, <1>3, <1>4, <1>5, <1>6, <1>7, <1>8 DEF SafetyInv

LEMMA InvStop ==
  ASSUME SafetyInv, NEW t \in Handlers, pc[t] # "idle", NEW what \in Replies, Stop(t, what)
  PROVE  SafetyInv'
<1>0. TypeOK
  BY DEF SafetyInv
<1>a. /\ RequestsOK' /\ LocksOK'
      /\ pc'[t] = "idle" /\ held'[t] = {} /\ \A p \in Guests : wrote'[t][p] = Null
      /\ \A u \in Handlers \ {t} : pc'[u] = pc[u] /\ req'[u] = req[u]
                                   /\ wrote'[u] = wrote[u] /\ held'[u] = held[u]
      /\ guest' = guest
  BY DoneType DEF Stop
<1>b. \A g \in Groups : group'[g] = IF g = req[t].home THEN "unused" ELSE group[g]
  BY DEF Stop
<1>c. \A g \in Groups : group[g] = "live" => group'[g] = "live"
  BY <1>b, NullApart DEF SafetyInv, HomeReserved
<1>1. TypeOK'
  <2>1. TablesOK' /\ HistoryOK'
    BY <1>0 DEF Stop, history, TypeOK, TablesOK, HistoryOK
  <2> QED
    BY <2>1, <1>a DEF TypeOK
<1>2. GuestHasInvitation' /\ RowLocks'
  BY <1>a, <1>c, <1>0, WhereOf DEF SafetyInv, GuestHasInvitation, RowLocks, Listed, RowBusy
<1>3. GroupLocks'
  <2>1. \A u \in Handlers : \A g \in held'[u] :
          u # t /\ g \in held[u] /\ g \in Groups /\ group[g] = "live" /\ ~GroupBusy(u, g)
    BY <1>a, <1>0, TypeOf DEF SafetyInv, GroupLocks
  <2>2. \A u \in Handlers : \A g : Shares(u, g)' => Shares(u, g)
    BY <1>a, NullApart DEF Shares, Members
  <2>3. ASSUME NEW u \in Handlers, NEW g \in held'[u], NEW v \in Handlers \ {u}
        PROVE  g \notin held'[v] /\ ~Shares(v, g)'
    BY <2>1, <2>2, <2>3, <1>a DEF GroupBusy, Exclusive
  <2> QED
    BY <2>1, <2>3, <1>c DEF GroupLocks, GroupBusy, Exclusive
<1>5. LocksHeld'
  BY <1>a DEF SafetyInv, LocksHeld
<1>6. HomeReserved'
  <2> SUFFICES ASSUME NEW u \in Handlers, pc'[u] # "idle", req'[u].home # Null
               PROVE  /\ group'[req'[u].home] = "reserved"
                      /\ \A v \in Handlers \ {u} : pc'[v] # "idle" => req'[v].home # req'[u].home
    BY DEF HomeReserved
  <2>1. u # t /\ pc[u] # "idle" /\ req'[u] = req[u]
    BY <1>a
  <2>2. /\ req[u].home \in Groups /\ group[req[u].home] = "reserved"
        /\ \A v \in Handlers \ {u} : pc[v] # "idle" => req[v].home # req[u].home
    BY <2>1, <1>0, TypeOf DEF SafetyInv, HomeReserved, Request, NullOr
  <2> QED
    BY <2>1, <2>2, <1>a, <1>b
<1>7. WrittenIntoGroup'
  BY <1>a, <1>c, NullApart, GroupOfRow DEF SafetyInv, WrittenIntoGroup
<1>8. CascadeCovers'
  BY <1>a DEF SafetyInv, CascadeCovers, MembersSeen, Sees
<1> QED
  BY <1>1, <1>2, <1>3, <1>5, <1>6, <1>7, <1>8 DEF SafetyInv

-----------------------------------------------------------------------------
\* CreateGuestInto commits a row outside any transaction of the model.

LEMMA InvCreateGuestInto ==
  ASSUME SafetyInv, NEW t \in Handlers, NEW g \in Groups, NEW p \in Guests,
         CreateGuestInto(t, g, p)
  PROVE  SafetyInv'
<1>1. CASE Answer(t, "nameTaken") \/ Answer(t, "failed")
  BY <1>1, InvAnswer DEF Replies
<1>2. CASE /\ pc[t] = "idle" /\ guest[p] = Absent /\ group[g] = "live" /\ ~Exclusive(t, g)
           /\ guest' = [guest EXCEPT ![p] = NewRow(g, FALSE)] /\ reply' = "done"
           /\ UNCHANGED <<group, locks, pc, req, history>>
  <2> USE <1>2 DEF locks, history
  <2>0. TypeOK
    BY DEF SafetyInv
  <2>1. NewRow(g, FALSE) \in GuestRow /\ NewRow(g, FALSE).group = g
    BY DEF NewRow, GuestRow, Answers
  <2>2. TypeOK'
    BY <2>0, <2>1 DEF TypeOK, TablesOK, LocksOK, RequestsOK, HistoryOK, Carries, Replies
  <2>3. /\ guest'[p] \in GuestRow /\ guest'[p].group = g
        /\ \A q \in Guests : q # p => guest'[q] = guest[q]
        /\ ~Listed(p)
    BY <2>0, <2>1, ConstantsAssumption DEF TypeOK, TablesOK, Listed
  <2>4. GuestHasInvitation' /\ RowLocks'
    BY <2>3 DEF SafetyInv, GuestHasInvitation, RowLocks, Listed, RowBusy
  <2>5. GroupLocks'
    <3>1. \A u \in Handlers : \A f : Shares(u, f)' => Shares(u, f)
      BY <2>3 DEF Shares, Members, Listed
    <3>2. ASSUME NEW u \in Handlers, NEW f \in held'[u], NEW v \in Handlers \ {u}
          PROVE  f \notin held'[v] /\ ~Shares(v, f)'
      BY <3>1 DEF SafetyInv, GroupLocks, GroupBusy, Exclusive
    <3>3. \A u \in Handlers : \A f \in held'[u] : group'[f] = "live"
      BY DEF SafetyInv, GroupLocks
    <3> QED
      BY <3>2, <3>3 DEF GroupLocks, GroupBusy, Exclusive
  <2>6. LocksHeld' /\ HomeReserved' /\ WrittenIntoGroup'
    BY DEF SafetyInv, LocksHeld, HomeReserved, WrittenIntoGroup
  <2>7. CascadeCovers'
    <3> SUFFICES ASSUME NEW u \in Handlers, pc[u] = "cascade", NEW q \in MembersSeen(u, req[u].from)'
                 PROVE  q \in req[u].rows \cup {req[u].next}
      BY DEF CascadeCovers
    <3>1. req[u].from \in held[u]
      BY DEF SafetyInv, LocksHeld
    <3>2. req[u].from # g
      BY <3>1 DEF Exclusive
    <3>3. q \in MembersSeen(u, req[u].from)
      BY <3>2, <2>3 DEF MembersSeen, Sees
    <3> QED
      BY <3>3 DEF SafetyInv, CascadeCovers
  <2> QED
    BY <2>2, <2>4, <2>5, <2>6, <2>7 DEF SafetyInv
<1> QED
  BY <1>1, <1>2 DEF CreateGuestInto

-----------------------------------------------------------------------------
\* Two more shapes: one row more, and the commit of what was written.

LEMMA InvWrite ==
  ASSUME SafetyInv, NEW t \in Handlers, pc[t] # "idle", pc[t] # "reference",
         NEW at \in PCs \ {"idle", "reference", "cascade", "merge", "count", "read", "move"},
         NEW r, Fits(at, r), r.home = req[t].home,
         NEW w \in [Guests -> Written], NEW p \in Guests,
         \A q \in Guests : q # p => w[q] = wrote[t][q],
         w[p] # Null => Listed(p) /\ ~RowBusy(t, p),
         w[p] \in GuestRow =>
           \/ w[p].group = r.home
           \/ /\ group[w[p].group] = "live"
              /\ p \notin Members(w[p].group) => ~Exclusive(t, w[p].group),
         GoTo(t, at, r), wrote' = [wrote EXCEPT ![t] = w], UNCHANGED <<tables, held, history>>
  PROVE  SafetyInv'
<1>1. GoesOn(t, at, r, w, held[t])
  BY DEF GoesOn, tables, history, SafetyInv, TypeOK, LocksOK
<1>2. held[t] \subseteq Groups
  BY TypeOf DEF SafetyInv
<1>3. HoldsOK(t, at, r, w, held[t])
  BY DEF SafetyInv, HoldsOK, GroupLocks
<1>h. ASSUME r.home \in Groups PROVE ~Exclusive(t, r.home)
  BY <1>h, NullApart DEF SafetyInv, HomeReserved, GroupLocks, Exclusive
<1>4. WritesOK(t, at, r, w)
  <2> SUFFICES ASSUME NEW q \in Guests
               PROVE  /\ w[q] # Null => Listed(q) /\ ~RowBusy(t, q)
                      /\ w[q] \in GuestRow => w[q].group = r.home \/ group[w[q].group] = "live"
                      /\ w[q] \in GuestRow /\ q \notin Members(w[q].group)
                           => ~Exclusive(t, w[q].group)
    BY DEF WritesOK
  <2>1. CASE q = p
    BY <2>1, <1>h, GroupOfRow
  <2>2. CASE q # p
    BY <2>2, OwnWrites, NullApart
  <2> QED BY <2>1, <2>2
<1> QED
  BY <1>1, <1>2, <1>3, <1>4, InvGoesOn DEF CoversOK

LEMMA InvCommitRow ==
  ASSUME SafetyInv, NEW t \in Handlers, pc[t] # "idle", pc[t] # "reference",
         NEW what \in Replies,
         NEW w \in [Guests -> Written], NEW p \in Guests,
         \A q \in Guests : q # p => w[q] = wrote[t][q],
         w[p] # Null => ~RowBusy(t, p),
         w[p] \in GuestRow =>
           \/ w[p].group = req[t].home
           \/ /\ group[w[p].group] = "live"
              /\ p \notin Members(w[p].group) => ~Exclusive(t, w[p].group),
         Commit(t, w, {}, what)
  PROVE  SafetyInv'
<1>1. CommitOK(t, w, {})
  <2> SUFFICES ASSUME NEW q \in Guests
               PROVE  /\ w[q] # Null => ~RowBusy(t, q)
                      /\ w[q] \in GuestRow =>
                           \/ w[q].group = req[t].home
                           \/ /\ group[w[q].group] = "live"
                              /\ q \notin Members(w[q].group) => ~Exclusive(t, w[q].group)
    BY DEF CommitOK
  <2>1. CASE q = p
    BY <2>1
  <2>2. CASE q # p
    BY <2>2, OwnWrites, NullApart
  <2> QED BY <2>1, <2>2
<1> QED
  BY <1>1, InvCommit

LEMMA InvCommitWritten ==
  ASSUME SafetyInv, NEW t \in Handlers, pc[t] # "idle", pc[t] # "reference",
         NEW what \in Replies, Commit(t, wrote[t], {}, what)
  PROVE  SafetyInv'
<1>1. wrote[t] \in [Guests -> Written]
  BY TypeOf DEF SafetyInv
<1>2. CommitOK(t, wrote[t], {})
  BY OwnWrites, NullApart DEF CommitOK
<1> QED
  BY <1>1, <1>2, InvCommit

-----------------------------------------------------------------------------
\* DeleteGroupIfEmpty.

LEMMA InvDropScan ==
  ASSUME SafetyInv, NEW t \in Handlers, DropScan(t)
  PROVE  SafetyInv'
<1>1. CASE pc[t] = "drop" /\ Start(t, "dropGroup", req[t])
  <2>1. Fits("dropGroup", req[t])
    BY <1>1, TypeOf DEF SafetyInv, Fits
  <2> QED
    BY <1>1, <2>1, InvStart DEF Start, PCs
<1>2. CASE /\ pc[t] = "drop"
           /\ Commit(t, wrote[t], {}, IF req[t].op = "create" THEN "nameTaken" ELSE "done")
  BY <1>2, InvCommitWritten DEF Replies
<1> QED
  BY <1>1, <1>2 DEF DropScan

LEMMA InvDropGroup ==
  ASSUME SafetyInv, NEW t \in Handlers, DropGroup(t)
  PROVE  SafetyInv'
<1> DEFINE from == req[t].from
           what == IF req[t].op = "create" THEN "nameTaken" ELSE "done"
<1>0. /\ pc[t] = "dropGroup" /\ ~GroupBusy(t, from) /\ what \in Replies
      /\ Fits("dropGroup", req[t]) /\ from \in Groups
      /\ wrote[t] \in [Guests -> Written] /\ held[t] \subseteq Groups
  BY TypeOf DEF DropGroup, SafetyInv, Fits, Request, NullOr, Replies
<1>1. CASE Commit(t, wrote[t], {}, what)
  BY <1>0, <1>1, InvCommitWritten
<1>2. CASE group[from] = "live" /\ MembersSeen(t, from) = {} /\ Commit(t, wrote[t], {from}, what)
  <2>1. \A p \in Members(from) : wrote[t][p] # Null
    BY <1>2 DEF Members, MembersSeen, Sees
  <2>2. \A p \in Guests : wrote[t][p] \in GuestRow => wrote[t][p].group # from
    BY <1>2, NullApart DEF MembersSeen, Sees
  <2>3. CommitOK(t, wrote[t], {from})
    BY <1>0, <1>2, <2>1, <2>2, OwnWrites, NullApart DEF CommitOK
  <2> QED
    BY <1>0, <1>2, <2>3, InvCommit
<1>3. CASE /\ group[from] = "live"
           /\ held' = [held EXCEPT ![t] = @ \cup {from}]
           /\ Visit(t, "cascade", req[t], MembersSeen(t, from))
           /\ UNCHANGED <<tables, wrote, history>>
  <2>1. PICK p \in MembersSeen(t, from) :
          GoTo(t, "cascade", [req[t] EXCEPT !.next = p, !.rows = MembersSeen(t, from) \ {p}])
    BY <1>3 DEF Visit
  <2> DEFINE r == [req[t] EXCEPT !.next = p, !.rows = MembersSeen(t, from) \ {p}]
             h == held[t] \cup {from}
  <2>2. /\ Fits("cascade", r) /\ r.home = req[t].home /\ r.from = from
        /\ r.next = p /\ r.rows = MembersSeen(t, from) \ {p}
    BY <1>0, <2>1, NullApart DEF Fits, Request, NullOr, MembersSeen
  <2>3. GoesOn(t, "cascade", r, wrote[t], h)
    BY <1>3, <2>1 DEF GoesOn, tables, history, SafetyInv, TypeOK, LocksOK
  <2>4. WritesOK(t, "cascade", r, wrote[t])
    BY <1>0, <2>2, OwnWrites, NullApart DEF WritesOK
  <2>5. HoldsOK(t, "cascade", r, wrote[t], h)
    BY <1>0, <1>3, <2>2 DEF HoldsOK, SafetyInv, GroupLocks
  <2>6. CoversOK("cascade", r, wrote[t])
    BY <2>2 DEF CoversOK, MembersSeen, Sees
  <2>7. h \in SUBSET Groups /\ "cascade" \in PCs \ {"idle"}
    BY <1>0 DEF PCs
  <2> HIDE DEF h, r
  <2> QED
    BY <1>0, <2>2, <2>3, <2>4, <2>5, <2>6, <2>7, InvGoesOn
<1> QED
  BY <1>1, <1>2, <1>3 DEF DropGroup

LEMMA InvCascade ==
  ASSUME SafetyInv, NEW t \in Handlers, Cascade(t)
  PROVE  SafetyInv'
<1> DEFINE from == req[t].from
           p    == req[t].next
           w    == IF p \in MembersSeen(t, from) THEN [wrote[t] EXCEPT ![p] = Gone] ELSE wrote[t]
           what == IF req[t].op = "create" THEN "nameTaken" ELSE "done"
<1>0. /\ pc[t] = "cascade" /\ ~RowBusy(t, p) /\ what \in Replies
      /\ Fits("cascade", req[t]) /\ from \in Groups /\ p \in Guests
      /\ wrote[t] \in [Guests -> Written] /\ held[t] \subseteq Groups
  BY TypeOf DEF Cascade, SafetyInv, Fits, Request, NullOr, Replies
<1>1. /\ w \in [Guests -> Written]
      /\ \A q \in Guests : q # p => w[q] = wrote[t][q]
      /\ p \in MembersSeen(t, from) => w[p] = Gone
      /\ p \notin MembersSeen(t, from) => w[p] = wrote[t][p]
  BY <1>0 DEF Written, NullOr
<1>2. /\ from \in held[t] /\ group[from] = "live" /\ ~GroupBusy(t, from)
      /\ MembersSeen(t, from) \subseteq req[t].rows \cup {p}
  BY <1>0 DEF SafetyInv, LocksHeld, GroupLocks, CascadeCovers
<1>3. p \in MembersSeen(t, from) => Listed(p)
  BY <1>0, OwnWrites DEF MembersSeen, Sees, Listed
<1>4. CASE req[t].rows = {} /\ Commit(t, w, {from}, what)
  <2>1. \A q \in Members(from) : w[q] # Null
    BY <1>1, <1>2, <1>4, NullApart DEF Members, MembersSeen, Sees
  <2>2. \A q \in Guests : w[q] \in GuestRow => w[q] = wrote[t][q] /\ w[q].group # from
    <3> SUFFICES ASSUME NEW q \in Guests, w[q] \in GuestRow
                 PROVE  w[q] = wrote[t][q] /\ w[q].group # from
      OBVIOUS
    <3>1. w[q] = wrote[t][q]
      BY <1>1, ConstantsAssumption
    <3>2. q \in MembersSeen(t, from) => q = p
      BY <1>2, <1>4
    <3> QED
      BY <3>1, <3>2, <1>1, NullApart, ConstantsAssumption DEF MembersSeen, Sees
  <2>3. \A q \in Guests : w[q] # Null => ~RowBusy(t, q)
    BY <1>0, <1>1, OwnWrites
  <2>4. CommitOK(t, w, {from})
    BY <1>0, <1>2, <2>1, <2>2, <2>3, OwnWrites, NullApart DEF CommitOK
  <2> QED
    BY <1>0, <1>1, <1>4, <2>4, InvCommit
<1>5. CASE /\ Visit(t, "cascade", req[t], req[t].rows)
           /\ wrote' = [wrote EXCEPT ![t] = w]
           /\ UNCHANGED <<tables, held, history>>
  <2>1. PICK q \in req[t].rows :
          GoTo(t, "cascade", [req[t] EXCEPT !.next = q, !.rows = req[t].rows \ {q}])
    BY <1>5 DEF Visit
  <2> DEFINE r == [req[t] EXCEPT !.next = q, !.rows = req[t].rows \ {q}]
  <2>2. /\ Fits("cascade", r) /\ r.home = req[t].home /\ r.from = from
        /\ r.next = q /\ r.rows = req[t].rows \ {q}
    BY <1>0, <2>1, NullApart DEF Fits, Request, NullOr
  <2>3. GoesOn(t, "cascade", r, w, held[t])
    BY <1>5, <2>1 DEF GoesOn, tables, history, SafetyInv, TypeOK, LocksOK
  <2>4. WritesOK(t, "cascade", r, w)
    <3> SUFFICES ASSUME NEW x \in Guests
                 PROVE  /\ w[x] # Null => Listed(x) /\ ~RowBusy(t, x)
                        /\ w[x] \in GuestRow => w[x].group = r.home \/ group[w[x].group] = "live"
                        /\ w[x] \in GuestRow /\ x \notin Members(w[x].group)
                             => ~Exclusive(t, w[x].group)
      BY DEF WritesOK
    <3>1. CASE x = p /\ p \in MembersSeen(t, from)
      BY <3>1, <1>0, <1>1, <1>3, ConstantsAssumption
    <3>2. CASE ~(x = p /\ p \in MembersSeen(t, from))
      BY <3>2, <1>0, <1>1, <2>2, OwnWrites, NullApart
    <3> QED BY <3>1, <3>2
  <2>5. HoldsOK(t, "cascade", r, w, held[t])
    BY <1>2, <2>2 DEF HoldsOK, SafetyInv, GroupLocks
  <2>6. CoversOK("cascade", r, w)
    <3> SUFFICES ASSUME NEW x \in Guests,
                        LET row == IF w[x] = Null THEN guest[x] ELSE w[x]
                        IN  row \in GuestRow /\ row.group = from
                 PROVE  x \in r.rows \cup {r.next}
      BY <2>2 DEF CoversOK
    <3>1. w[x] = wrote[t][x]
      BY <1>1, NullApart, ConstantsAssumption
    <3>2. x \in MembersSeen(t, from)
      BY <3>1 DEF MembersSeen, Sees
    <3>3. x # p
      BY <3>1, <3>2, <1>1, NullApart, ConstantsAssumption
    <3> QED
      BY <3>2, <3>3, <1>2, <2>2
  <2>7. w \in [Guests -> Written] /\ "cascade" \in PCs \ {"idle"}
    BY <1>1 DEF PCs
  <2> HIDE DEF w, r
  <2> QED
    BY <1>0, <2>2, <2>3, <2>4, <2>5, <2>6, <2>7, InvGoesOn
<1> QED
  BY <1>0, <1>4, <1>5 DEF Cascade

-----------------------------------------------------------------------------
\* Guests.

LEMMA CarryingFits ==
  ASSUME NEW op \in AllOps, NEW p \in NullOr(Guests), NEW g \in NullOr(Groups)
  PROVE  /\ Carrying(op, p, g) \in Request
         /\ Carrying(op, p, g).op = op /\ Carrying(op, p, g).guest = p
         /\ Carrying(op, p, g).group = g /\ Carrying(op, p, g).home = Null
BY DEF Carrying, Request, NullOr

LEMMA InvAddCompanion ==
  ASSUME SafetyInv, NEW t \in Handlers, NEW g \in Groups, NEW p \in Guests,
         AddCompanion(t, g, p)
  PROVE  SafetyInv'
<1>1. CASE Answer(t, "deadlinePassed")
  BY <1>1, InvAnswer DEF Replies
<1>2. CASE pc[t] = "idle" /\ Start(t, "lock", Carrying("add", p, g))
  <2>1. Fits("lock", Carrying("add", p, g)) /\ Carrying("add", p, g).home = Null
    BY CarryingFits, NullApart DEF AllOps, NullOr, Fits
  <2> QED
    BY <1>2, <2>1, InvStartIdle DEF Start, PCs
<1> QED
  BY <1>1, <1>2 DEF AddCompanion

LEMMA InvLockGroup ==
  ASSUME SafetyInv, NEW t \in Handlers, LockGroupForCompanion(t)
  PROVE  SafetyInv'
<1> DEFINE g == req[t].group
           h == held[t] \cup {g}
<1>0. /\ pc[t] = "lock" /\ ~GroupBusy(t, g) /\ Fits("lock", req[t]) /\ g \in Groups
      /\ wrote[t] \in [Guests -> Written] /\ held[t] \subseteq Groups
  BY TypeOf DEF LockGroupForCompanion, SafetyInv, Fits, Request, NullOr
<1>1. CASE Stop(t, "notFound")
  BY <1>0, <1>1, InvStop DEF Replies
<1>2. CASE /\ group[g] = "live"
           /\ held' = [held EXCEPT ![t] = @ \cup {g}]
           /\ GoTo(t, "count", req[t])
           /\ UNCHANGED <<tables, wrote, history>>
  <2>1. GoesOn(t, "count", req[t], wrote[t], h)
    BY <1>2 DEF GoesOn, tables, history, SafetyInv, TypeOK, LocksOK
  <2>2. WritesOK(t, "count", req[t], wrote[t])
    BY <1>0, OwnWrites, NullApart DEF WritesOK
  <2>3. HoldsOK(t, "count", req[t], wrote[t], h)
    BY <1>0, <1>2 DEF HoldsOK, SafetyInv, GroupLocks
  <2>4. Fits("count", req[t]) /\ "count" \in PCs \ {"idle"} /\ h \in SUBSET Groups
    BY <1>0 DEF Fits, PCs
  <2> HIDE DEF h
  <2> QED
    BY <1>0, <2>1, <2>2, <2>3, <2>4, InvGoesOn DEF CoversOK
<1> QED
  BY <1>1, <1>2 DEF LockGroupForCompanion

LEMMA InvCountCompanions ==
  ASSUME SafetyInv, NEW t \in Handlers, CountGroupCompanions(t)
  PROVE  SafetyInv'
<1>0. pc[t] = "count" /\ Fits("read", req[t])
  BY TypeOf DEF CountGroupCompanions, SafetyInv, Fits
<1>1. CASE Stop(t, "companionLimit")
  BY <1>0, <1>1, InvStop DEF Replies
<1>2. CASE Start(t, "read", req[t])
  BY <1>0, <1>2, InvStart DEF Start, PCs
<1> QED
  BY <1>1, <1>2 DEF CountGroupCompanions

LEMMA InvReadCompanion ==
  ASSUME SafetyInv, NEW t \in Handlers, ReadCompanion(t)
  PROVE  SafetyInv'
<1>0. pc[t] = "read" /\ Fits("read", req[t]) /\ req[t] \in Request /\ req[t].guest \in Guests
  BY TypeOf DEF ReadCompanion, SafetyInv, Fits, Request, NullOr
<1>1. CASE \E what \in {"notFound", "alreadyOnInvitation", "unavailable"} : Stop(t, what)
  BY <1>0, <1>1, InvStop DEF Replies
<1>2. CASE /\ Listed(req[t].guest)
           /\ Start(t, "move", [req[t] EXCEPT !.from = guest[req[t].guest].group])
  <2> DEFINE r == [req[t] EXCEPT !.from = guest[req[t].guest].group]
  <2>1. guest[req[t].guest].group \in Groups
    BY <1>0, <1>2, WhereOf DEF SafetyInv
  <2>2. Fits("move", r) /\ r.home = req[t].home /\ r.group = req[t].group
    BY <1>0, <2>1, NullApart DEF Fits, Request, NullOr
  <2>3. GoTo(t, "move", r) /\ UNCHANGED <<tables, locks, history>>
    BY <1>2 DEF Start
  <2>4. "move" \in PCs \ {"idle"}
    BY DEF PCs
  <2> HIDE DEF r
  <2> QED
    BY <1>0, <2>2, <2>3, <2>4, InvStart
<1> QED
  BY <1>1, <1>2 DEF ReadCompanion

LEMMA InvMoveGuest ==
  ASSUME SafetyInv, NEW t \in Handlers, MoveGuestToGroup(t)
  PROVE  SafetyInv'
<1>0. /\ pc[t] = "move" /\ Fits("drop", req[t]) /\ req[t].group \in Groups
      /\ req[t].guest \in Guests /\ wrote[t] \in [Guests -> Written]
  BY TypeOf DEF MoveGuestToGroup, SafetyInv, Fits, Request, NullOr
<1>1. CASE Stop(t, "notFound")
  BY <1>0, <1>1, InvStop DEF Replies
<1>2. ASSUME NEW p \in Guests, NEW row, Listed(p), ~RowBusy(t, p),
             row = [guest[p] EXCEPT !.group = req[t].group, !.primary = FALSE, !.added = TRUE],
             Write(t, p, row, "drop", req[t])
      PROVE  SafetyInv'
  <2> DEFINE w == [wrote[t] EXCEPT ![p] = row]
  <2>1. row \in GuestRow /\ row.group = req[t].group
    BY <1>0, <1>2 DEF Listed, GuestRow
  <2>2. /\ w \in [Guests -> Written] /\ w[p] = row
        /\ \A q \in Guests : q # p => w[q] = wrote[t][q]
    BY <1>0, <2>1 DEF Written, NullOr
  <2>3. group[w[p].group] = "live" /\ ~Exclusive(t, w[p].group)
    BY <1>0, <2>1, <2>2 DEF SafetyInv, LocksHeld, GroupLocks, GroupBusy
  <2>4. /\ GoTo(t, "drop", req[t]) /\ wrote' = [wrote EXCEPT ![t] = w]
        /\ UNCHANGED <<tables, held, history>>
    BY <1>2 DEF Write, SafetyInv, TypeOK, LocksOK
  <2>5. "drop" \in PCs \ {"idle", "reference", "cascade", "merge", "count", "read", "move"}
    BY DEF PCs
  <2>6. /\ pc[t] # "idle" /\ pc[t] # "reference" /\ Fits("drop", req[t])
        /\ w[p] # Null => Listed(p) /\ ~RowBusy(t, p)
        /\ w[p] \in GuestRow =>
             \/ w[p].group = req[t].home
             \/ /\ group[w[p].group] = "live"
                /\ p \notin Members(w[p].group) => ~Exclusive(t, w[p].group)
    BY <1>0, <1>2, <2>3
  <2> HIDE DEF w
  <2> QED
    BY <2>2, <2>4, <2>5, <2>6, InvWrite
<1> QED
  BY <1>0, <1>1, <1>2 DEF MoveGuestToGroup

\* A request that draws the invitation it will create.
LEMMA InvStartWithHome ==
  ASSUME SafetyInv, NEW t \in Handlers, pc[t] = "idle", NEW at \in {"remove", "detach"}, NEW r,
         r \in Request, r.guest # Null, r.op # "delete",
         at = "remove" => r.group # Null, at = "detach" => r.from # Null,
         StartWithHome(t, at, r)
  PROVE  SafetyInv'
<1>1. PICK g \in Groups : /\ group[g] = "unused"
                          /\ group' = [group EXCEPT ![g] = "reserved"]
                          /\ GoTo(t, at, [r EXCEPT !.home = g])
  BY DEF StartWithHome
<1> DEFINE s == [r EXCEPT !.home = g]
<1>2. Fits(at, s) /\ s.home = g
  BY NullApart DEF Fits, Request, NullOr
<1>3. at \in PCs \ {"idle"} /\ at \notin {"count", "read", "move", "cascade", "reference"}
  BY DEF PCs
<1>4. GoTo(t, at, s) /\ UNCHANGED <<guest, locks, history>>
  BY <1>1 DEF StartWithHome
<1> HIDE DEF s
<1> QED
  BY <1>1, <1>2, <1>3, <1>4, InvFresh

LEMMA InvRemoveCompanion ==
  ASSUME SafetyInv, NEW t \in Handlers, NEW g \in Groups, NEW p \in Guests,
         RemoveCompanion(t, g, p)
  PROVE  SafetyInv'
<1>1. CASE Answer(t, "deadlinePassed") \/ Answer(t, "notRemovable")
  BY <1>1, InvAnswer DEF Replies
<1>2. CASE pc[t] = "idle" /\ StartWithHome(t, "remove", Carrying("remove", p, g))
  <2>1. /\ Carrying("remove", p, g) \in Request /\ Carrying("remove", p, g).op = "remove"
        /\ Carrying("remove", p, g).guest = p /\ Carrying("remove", p, g).group = g
    BY CarryingFits DEF AllOps, NullOr
  <2> QED
    BY <1>2, <2>1, InvStartWithHome, NullApart
<1> QED
  BY <1>1, <1>2 DEF RemoveCompanion

LEMMA InvRestore ==
  ASSUME SafetyInv, NEW t \in Handlers, RestoreCompanionToOwnGroup(t)
  PROVE  SafetyInv'
<1> DEFINE p   == req[t].guest
           row == [guest[p] EXCEPT !.group = req[t].home, !.primary = TRUE, !.added = FALSE]
           w   == [wrote[t] EXCEPT ![p] = row]
<1>0. /\ pc[t] = "remove" /\ req[t].home \in Groups /\ p \in Guests
      /\ wrote[t] \in [Guests -> Written]
  BY TypeOf DEF RestoreCompanionToOwnGroup, SafetyInv, Fits, Request, NullOr
<1>1. CASE Stop(t, "notRemovable")
  BY <1>0, <1>1, InvStop DEF Replies
<1>2. CASE Removable(t) /\ ~RowBusy(t, p) /\ Commit(t, w, {}, "done")
  <2>1. row \in GuestRow /\ row.group = req[t].home
    BY <1>0, <1>2 DEF Removable, Listed, GuestRow
  <2>2. /\ w \in [Guests -> Written] /\ w[p] = row
        /\ \A q \in Guests : q # p => w[q] = wrote[t][q]
    BY <1>0, <2>1 DEF Written, NullOr
  <2>3. "done" \in Replies
    BY DEF Replies
  <2> HIDE DEF w, row
  <2> QED
    BY <1>0, <1>2, <2>1, <2>2, <2>3, InvCommitRow
<1> QED
  BY <1>1, <1>2 DEF RestoreCompanionToOwnGroup

\* A request that goes on to visit rows.
LEMMA VisitFits ==
  ASSUME NEW t \in Handlers, NEW at \in {"answer", "primary"}, NEW r \in Request,
         r.group # Null, r.op # "delete", NEW rows \in SUBSET Guests, Visit(t, at, r, rows)
  PROVE  \E s : Fits(at, s) /\ s.home = r.home /\ GoTo(t, at, s)
<1>1. PICK p \in rows : GoTo(t, at, [r EXCEPT !.next = p, !.rows = rows \ {p}])
  BY DEF Visit
<1> DEFINE s == [r EXCEPT !.next = p, !.rows = rows \ {p}]
<1>2. Fits(at, s) /\ s.home = r.home
  BY <1>1, NullApart DEF Fits, Request, NullOr
<1> QED
  BY <1>1, <1>2

LEMMA InvVisitFromIdle ==
  ASSUME SafetyInv, NEW t \in Handlers, pc[t] = "idle", NEW at \in {"answer", "primary"},
         NEW r \in Request, r.group # Null, r.op # "delete", r.home = Null,
         NEW rows \in SUBSET Guests, Visit(t, at, r, rows), UNCHANGED <<tables, locks, history>>
  PROVE  SafetyInv'
<1>1. PICK s : Fits(at, s) /\ s.home = Null /\ GoTo(t, at, s)
  BY VisitFits
<1>2. at \in PCs \ {"idle"} /\ at \notin {"count", "read", "move", "cascade"}
  BY DEF PCs
<1> QED
  BY <1>1, <1>2, InvStartIdle

LEMMA InvSubmitRSVP ==
  ASSUME SafetyInv, NEW t \in Handlers, NEW g \in Groups, NEW rows \in SUBSET Guests,
         NEW yes \in SUBSET rows, SubmitRSVP(t, g, rows, yes)
  PROVE  SafetyInv'
<1>1. CASE \E what \in {"deadlinePassed", "notFound", "invalidMembers"} : Answer(t, what)
  BY <1>1, InvAnswer DEF Replies
<1>2. CASE /\ pc[t] = "idle"
           /\ Visit(t, "answer", [Carrying("rsvp", Null, g) EXCEPT !.yes = yes], rows)
           /\ UNCHANGED <<tables, locks, history>>
  <2> DEFINE r == [Carrying("rsvp", Null, g) EXCEPT !.yes = yes]
  <2>1. r \in Request /\ r.group = g /\ r.op = "rsvp" /\ r.home = Null
    BY DEF Carrying, Request, AllOps, NullOr
  <2>2. Visit(t, "answer", r, rows) /\ UNCHANGED <<tables, locks, history>>
    BY <1>2
  <2> HIDE DEF r
  <2> QED
    BY <1>2, <2>1, <2>2, InvVisitFromIdle, NullApart
<1> QED
  BY <1>1, <1>2 DEF SubmitRSVP

\* A statement that leaves p in its invitation, with more rows to visit or none.
LEMMA InvRowInPlace ==
  ASSUME SafetyInv, NEW t \in Handlers, pc[t] \in {"answer", "primary"},
         NEW p \in Guests, NEW w \in [Guests -> Written],
         \A q \in Guests : q # p => w[q] = wrote[t][q],
         w[p] # Null => Listed(p) /\ ~RowBusy(t, p),
         w[p] \in GuestRow => w[p].group = guest[p].group,
         NEW what \in Replies,
         \/ Commit(t, w, {}, what)
         \/ /\ Visit(t, pc[t], req[t], req[t].rows)
            /\ wrote' = [wrote EXCEPT ![t] = w]
            /\ UNCHANGED <<tables, held, history>>
  PROVE  SafetyInv'
<1>0. /\ Fits(pc[t], req[t]) /\ req[t] \in Request /\ req[t].rows \subseteq Guests
      /\ req[t].group # Null
  BY TypeOf DEF SafetyInv, Fits, Request
<1>1. w[p] \in GuestRow => group[w[p].group] = "live" /\ p \in Members(w[p].group)
  BY NullApart DEF SafetyInv, GuestHasInvitation, Members, Listed
<1>2. CASE Commit(t, w, {}, what)
  BY <1>1, <1>2, InvCommitRow
<1>3. CASE /\ Visit(t, pc[t], req[t], req[t].rows)
           /\ wrote' = [wrote EXCEPT ![t] = w]
           /\ UNCHANGED <<tables, held, history>>
  <2>1. PICK q \in req[t].rows :
          GoTo(t, pc[t], [req[t] EXCEPT !.next = q, !.rows = req[t].rows \ {q}])
    BY <1>3 DEF Visit
  <2> DEFINE r == [req[t] EXCEPT !.next = q, !.rows = req[t].rows \ {q}]
  <2>2. Fits(pc[t], r) /\ r.home = req[t].home
    BY <1>0, <2>1, NullApart DEF Fits, Request, NullOr
  <2>3. pc[t] \in PCs \ {"idle", "reference", "cascade", "merge", "count", "read", "move"}
    BY DEF PCs
  <2>4. GoTo(t, pc[t], r)
    BY <2>1
  <2> HIDE DEF r
  <2> QED
    BY <1>1, <1>3, <2>2, <2>3, <2>4, InvWrite
<1> QED
  BY <1>2, <1>3

LEMMA InvUpdateAttendance ==
  ASSUME SafetyInv, NEW t \in Handlers, UpdateGuestAttendance(t)
  PROVE  SafetyInv'
<1> DEFINE p   == req[t].next
           row == [guest[p] EXCEPT !.attending = IF p \in req[t].yes THEN "yes" ELSE "no"]
           w   == [wrote[t] EXCEPT ![p] = row]
<1>0. pc[t] = "answer" /\ p \in Guests /\ wrote[t] \in [Guests -> Written]
  BY TypeOf DEF UpdateGuestAttendance, SafetyInv, Fits, Request, NullOr
<1>1. CASE Stop(t, "invalidMembers")
  BY <1>0, <1>1, InvStop DEF Replies
<1>2. CASE /\ Matches(t, p) /\ ~RowBusy(t, p)
           /\ \/ Commit(t, w, {}, "done")
              \/ /\ Visit(t, "answer", req[t], req[t].rows)
                 /\ wrote' = [wrote EXCEPT ![t] = w]
                 /\ UNCHANGED <<tables, held, history>>
  <2>1. row \in GuestRow /\ row.group = guest[p].group
    BY <1>0, <1>2 DEF Matches, Listed, GuestRow, Answers
  <2>2. /\ w \in [Guests -> Written] /\ w[p] = row
        /\ \A q \in Guests : q # p => w[q] = wrote[t][q]
    BY <1>0, <2>1 DEF Written, NullOr
  <2>3. "done" \in Replies /\ Listed(p)
    BY <1>2 DEF Replies, Matches
  <2> HIDE DEF w, row
  <2> QED
    BY <1>0, <1>2, <2>1, <2>2, <2>3, InvRowInPlace
<1> QED
  BY <1>1, <1>2 DEF UpdateGuestAttendance

-----------------------------------------------------------------------------
\* The couple.

LEMMA InvCreateGuestAlone ==
  ASSUME SafetyInv, NEW t \in Handlers, CreateGuestAlone(t)
  PROVE  SafetyInv'
<1>1. PICK g \in Groups : /\ group[g] = "unused"
                          /\ group' = [group EXCEPT ![g] = "live"]
                          /\ GoTo(t, "insert", [Carrying("create", Null, g) EXCEPT !.from = g])
  BY DEF CreateGuestAlone
<1> DEFINE r == [Carrying("create", Null, g) EXCEPT !.from = g]
<1>2. Fits("insert", r) /\ r.home = Null
  BY NullApart DEF Fits, Carrying, Request, AllOps, NullOr
<1>3. "insert" \in PCs \ {"idle"} /\ "insert" \notin {"count", "read", "move", "cascade", "reference"}
  BY DEF PCs
<1>4. GoTo(t, "insert", r) /\ UNCHANGED <<guest, locks, history>> /\ pc[t] = "idle"
  BY <1>1 DEF CreateGuestAlone
<1>5. "live" \in {"reserved", "live"} /\ r.home = IF "live" = "reserved" THEN g ELSE Null
  BY <1>2
<1> HIDE DEF r
<1> QED
  BY <1>1, <1>2, <1>3, <1>4, <1>5, InvFresh

LEMMA InvInsertGuest ==
  ASSUME SafetyInv, NEW t \in Handlers, InsertGuest(t)
  PROVE  SafetyInv'
<1> DEFINE g == req[t].group
<1>0. /\ pc[t] = "insert" /\ g \in Groups /\ Fits("drop", req[t])
      /\ wrote[t] \in [Guests -> Written]
  BY TypeOf DEF InsertGuest, SafetyInv, Fits, Request, NullOr
<1>1. CASE Start(t, "drop", req[t])
  BY <1>0, <1>1, InvStart DEF Start, PCs
<1>2. ASSUME group[g] = "live", ~Exclusive(t, g), NEW p \in Guests, guest[p] = Absent,
             Commit(t, [wrote[t] EXCEPT ![p] = NewRow(g, TRUE)], {}, "done")
      PROVE  SafetyInv'
  <2> DEFINE w == [wrote[t] EXCEPT ![p] = NewRow(g, TRUE)]
  <2>1. NewRow(g, TRUE) \in GuestRow /\ NewRow(g, TRUE).group = g
    BY <1>0 DEF NewRow, GuestRow, Answers
  <2>2. /\ w \in [Guests -> Written] /\ w[p].group = g
        /\ \A q \in Guests : q # p => w[q] = wrote[t][q]
    BY <1>0, <2>1 DEF Written, NullOr
  <2>3. ~RowBusy(t, p)
    BY <1>2, ConstantsAssumption DEF SafetyInv, RowLocks, RowBusy, Listed
  <2>4. "done" \in Replies /\ Commit(t, w, {}, "done")
    BY <1>2 DEF Replies
  <2> HIDE DEF w
  <2> QED
    BY <1>0, <1>2, <2>2, <2>3, <2>4, InvCommitRow
<1> QED
  BY <1>0, <1>1, <1>2 DEF InsertGuest

\* The request that leaves the invitation of p behind.
LEMMA FromFits ==
  ASSUME TypeOK, NEW op \in AllOps, NEW p \in Guests, NEW g \in NullOr(Groups), Listed(p)
  PROVE  LET r == [Carrying(op, p, g) EXCEPT !.from = guest[p].group] IN
         /\ r \in Request /\ r.op = op /\ r.guest = p /\ r.group = g
         /\ r.home = Null /\ r.from # Null
BY WhereOf, NullApart DEF Carrying, Request, NullOr

LEMMA InvDeleteGuest ==
  ASSUME SafetyInv, NEW t \in Handlers, NEW p \in Guests, DeleteGuest(t, p)
  PROVE  SafetyInv'
<1> DEFINE r == [Carrying("delete", p, Null) EXCEPT !.from = guest[p].group]
<1>1. CASE Answer(t, "notFound")
  BY <1>1, InvAnswer DEF Replies
<1>2. CASE pc[t] = "idle" /\ Listed(p) /\ Start(t, "delete", r)
  <2>1. "delete" \in AllOps /\ Null \in NullOr(Groups)
    BY DEF AllOps, NullOr
  <2>2. r \in Request /\ r.guest = p /\ r.home = Null /\ r.from # Null
    BY <1>2, <2>1, FromFits DEF SafetyInv
  <2> HIDE DEF r
  <2>3. Fits("delete", r)
    BY <2>2, NullApart DEF Fits
  <2> QED
    BY <1>2, <2>2, <2>3, InvStartIdle DEF Start, PCs
<1> QED
  BY <1>1, <1>2 DEF DeleteGuest

LEMMA InvDeleteGuestRow ==
  ASSUME SafetyInv, NEW t \in Handlers, DeleteGuestRow(t)
  PROVE  SafetyInv'
<1>0. /\ pc[t] = "delete" /\ Fits("drop", req[t]) /\ req[t].guest \in Guests
      /\ wrote[t] \in [Guests -> Written]
  BY TypeOf DEF DeleteGuestRow, SafetyInv, Fits, Request, NullOr
<1>1. CASE Stop(t, "notFound")
  BY <1>0, <1>1, InvStop DEF Replies
<1>2. ASSUME NEW p \in Guests, Listed(p), ~RowBusy(t, p), Write(t, p, Gone, "drop", req[t])
      PROVE  SafetyInv'
  <2> DEFINE w == [wrote[t] EXCEPT ![p] = Gone]
  <2>g. w[p] = Gone
    BY <1>0
  <2>1. /\ w \in [Guests -> Written]
        /\ \A q \in Guests : q # p => w[q] = wrote[t][q]
    BY <1>0 DEF Written, NullOr
  <2>2. /\ GoTo(t, "drop", req[t]) /\ wrote' = [wrote EXCEPT ![t] = w]
        /\ UNCHANGED <<tables, held, history>>
    BY <1>2 DEF Write, SafetyInv, TypeOK, LocksOK
  <2>3. "drop" \in PCs \ {"idle", "reference", "cascade", "merge", "count", "read", "move"}
    BY DEF PCs
  <2>4. /\ pc[t] # "idle" /\ pc[t] # "reference" /\ Fits("drop", req[t])
        /\ w[p] # Null => Listed(p) /\ ~RowBusy(t, p)
        /\ w[p] \in GuestRow =>
             \/ w[p].group = req[t].home
             \/ /\ group[w[p].group] = "live"
                /\ p \notin Members(w[p].group) => ~Exclusive(t, w[p].group)
    BY <1>0, <1>2, <2>g, ConstantsAssumption
  <2> HIDE DEF w
  <2> QED
    BY <2>1, <2>2, <2>3, <2>4, InvWrite
<1> QED
  BY <1>0, <1>1, <1>2 DEF DeleteGuestRow

LEMMA InvSetPrimary ==
  ASSUME SafetyInv, NEW t \in Handlers, NEW g \in Groups, NEW p \in Guests, SetPrimary(t, g, p)
  PROVE  SafetyInv'
<1>1. CASE Answer(t, "notFound")
  BY <1>1, InvAnswer DEF Replies
<1>2. CASE /\ pc[t] = "idle"
           /\ Visit(t, "primary", Carrying("primary", p, g), Members(g))
           /\ UNCHANGED <<tables, locks, history>>
  <2>1. /\ Carrying("primary", p, g) \in Request /\ Carrying("primary", p, g).op = "primary"
        /\ Carrying("primary", p, g).group = g /\ Carrying("primary", p, g).home = Null
    BY CarryingFits DEF AllOps, NullOr
  <2>2. Members(g) \in SUBSET Guests /\ "primary" \in {"answer", "primary"}
    BY DEF Members
  <2> QED
    BY <1>2, <2>1, <2>2, InvVisitFromIdle, NullApart
<1> QED
  BY <1>1, <1>2 DEF SetPrimary

LEMMA InvSetGroupPrimary ==
  ASSUME SafetyInv, NEW t \in Handlers, SetGroupPrimary(t)
  PROVE  SafetyInv'
<1> DEFINE p    == req[t].next
           row  == [guest[p] EXCEPT !.primary = p = req[t].guest]
           w    == [wrote[t] EXCEPT ![p] = row]
<1>0. /\ pc[t] = "primary" /\ p \in Guests /\ wrote[t] \in [Guests -> Written] /\ ~RowBusy(t, p)
      /\ Fits("primary", req[t]) /\ req[t] \in Request /\ req[t].rows \subseteq Guests
  BY TypeOf DEF SetGroupPrimary, SafetyInv, Fits, Request, NullOr
<1>1. CASE ~Matches(t, p)
  <2>1. CASE \E what \in {"notFound", "done"} : Commit(t, wrote[t], {}, what)
    BY <1>0, <2>1, InvCommitWritten DEF Replies
  <2>2. CASE /\ Visit(t, "primary", req[t], req[t].rows)
             /\ wrote' = [wrote EXCEPT ![t] = wrote[t]]
             /\ UNCHANGED <<tables, held, history>>
    <3>1. PICK q \in req[t].rows :
            GoTo(t, "primary", [req[t] EXCEPT !.next = q, !.rows = req[t].rows \ {q}])
      BY <2>2 DEF Visit
    <3> DEFINE r == [req[t] EXCEPT !.next = q, !.rows = req[t].rows \ {q}]
    <3>2. Fits("primary", r) /\ r.home = req[t].home /\ r.group = req[t].group
      BY <1>0, <3>1, NullApart DEF Fits, Request, NullOr
    <3>3. GoTo(t, "primary", r) /\ UNCHANGED <<tables, locks, history>>
      BY <2>2, <3>1 DEF locks, SafetyInv, TypeOK, LocksOK
    <3> HIDE DEF r
    <3> QED
      BY <1>0, <3>2, <3>3, InvStart DEF PCs
  <2> QED
    BY <1>1, <2>1, <2>2 DEF SetGroupPrimary
<1>2. CASE Matches(t, p)
  <2>1. row \in GuestRow /\ row.group = guest[p].group /\ Listed(p)
    BY <1>0, <1>2 DEF Matches, Listed, GuestRow
  <2>2. /\ w \in [Guests -> Written] /\ w[p] = row
        /\ \A q \in Guests : q # p => w[q] = wrote[t][q]
    BY <1>0, <2>1 DEF Written, NullOr
  <2>3. \E what \in {"notFound", "done"} :
          \/ Commit(t, w, {}, what)
          \/ /\ Visit(t, "primary", req[t], req[t].rows)
             /\ wrote' = [wrote EXCEPT ![t] = w]
             /\ UNCHANGED <<tables, held, history>>
    BY <1>2 DEF SetGroupPrimary
  <2> HIDE DEF w, row
  <2> QED
    BY <1>0, <2>1, <2>2, <2>3, InvRowInPlace DEF Replies
<1> QED
  BY <1>1, <1>2

LEMMA InvDetachGuest ==
  ASSUME SafetyInv, NEW t \in Handlers, NEW p \in Guests, DetachGuest(t, p)
  PROVE  SafetyInv'
<1> DEFINE r == [Carrying("detach", p, Null) EXCEPT !.from = guest[p].group]
<1>1. CASE Answer(t, "notFound") \/ Answer(t, "alreadyOnInvitation")
  BY <1>1, InvAnswer DEF Replies
<1>2. CASE pc[t] = "idle" /\ Listed(p) /\ StartWithHome(t, "detach", r)
  <2>1. "detach" \in AllOps /\ Null \in NullOr(Groups)
    BY DEF AllOps, NullOr
  <2>2. r \in Request /\ r.op = "detach" /\ r.guest = p /\ r.from # Null
    BY <1>2, <2>1, FromFits DEF SafetyInv
  <2> HIDE DEF r
  <2> QED
    BY <1>2, <2>2, InvStartWithHome, NullApart
<1> QED
  BY <1>1, <1>2 DEF DetachGuest

LEMMA InvMoveGuestHome ==
  ASSUME SafetyInv, NEW t \in Handlers, MoveGuestHome(t)
  PROVE  SafetyInv'
<1>0. /\ pc[t] = "detach" /\ Fits("ensure", req[t]) /\ req[t].home \in Groups
      /\ req[t].guest \in Guests /\ wrote[t] \in [Guests -> Written]
  BY TypeOf DEF MoveGuestHome, SafetyInv, Fits, Request, NullOr
<1>1. CASE Stop(t, "notFound")
  BY <1>0, <1>1, InvStop DEF Replies
<1>2. ASSUME NEW p \in Guests, NEW row, Listed(p), ~RowBusy(t, p),
             row = [guest[p] EXCEPT !.group = req[t].home, !.primary = TRUE],
             Write(t, p, row, "ensure", req[t])
      PROVE  SafetyInv'
  <2> DEFINE w == [wrote[t] EXCEPT ![p] = row]
  <2>1. row \in GuestRow /\ row.group = req[t].home
    BY <1>0, <1>2 DEF Listed, GuestRow
  <2>2. /\ w \in [Guests -> Written] /\ w[p] = row
        /\ \A q \in Guests : q # p => w[q] = wrote[t][q]
    BY <1>0, <2>1 DEF Written, NullOr
  <2>3. /\ GoTo(t, "ensure", req[t]) /\ wrote' = [wrote EXCEPT ![t] = w]
        /\ UNCHANGED <<tables, held, history>>
    BY <1>2 DEF Write, SafetyInv, TypeOK, LocksOK
  <2>4. "ensure" \in PCs \ {"idle", "reference", "cascade", "merge", "count", "read", "move"}
    BY DEF PCs
  <2>5. /\ pc[t] # "idle" /\ pc[t] # "reference" /\ Fits("ensure", req[t])
        /\ w[p] # Null => Listed(p) /\ ~RowBusy(t, p)
        /\ w[p] \in GuestRow =>
             \/ w[p].group = req[t].home
             \/ /\ group[w[p].group] = "live"
                /\ p \notin Members(w[p].group) => ~Exclusive(t, w[p].group)
    BY <1>0, <1>2, <2>1, <2>2
  <2> HIDE DEF w
  <2> QED
    BY <2>2, <2>3, <2>4, <2>5, InvWrite
<1> QED
  BY <1>0, <1>1, <1>2 DEF MoveGuestHome

LEMMA InvEnsurePrimary ==
  ASSUME SafetyInv, NEW t \in Handlers, EnsureGroupHasPrimary(t)
  PROVE  SafetyInv'
<1>0. pc[t] = "ensure" /\ Fits("ensure", req[t]) /\ req[t] \in Request
  BY TypeOf DEF EnsureGroupHasPrimary, SafetyInv, Fits
<1>1. CASE Commit(t, wrote[t], {}, "done")
  BY <1>0, <1>1, InvCommitWritten DEF Replies
<1>2. ASSUME NEW first \in Guests, GoTo(t, "ensureWrite", [req[t] EXCEPT !.next = first]),
             UNCHANGED <<tables, locks, history>>
      PROVE  SafetyInv'
  <2> DEFINE r == [req[t] EXCEPT !.next = first]
  <2>1. Fits("ensureWrite", r) /\ r.home = req[t].home /\ r.group = req[t].group
    BY <1>0, NullApart DEF Fits, Request, NullOr
  <2>2. GoTo(t, "ensureWrite", r)
    BY <1>2
  <2> HIDE DEF r
  <2> QED
    BY <1>0, <1>2, <2>1, <2>2, InvStart DEF PCs
<1> QED
  BY <1>1, <1>2 DEF EnsureGroupHasPrimary, MembersSeen

LEMMA InvMakePrimary ==
  ASSUME SafetyInv, NEW t \in Handlers, MakePrimary(t)
  PROVE  SafetyInv'
<1> DEFINE p   == req[t].next
           row == [guest[p] EXCEPT !.primary = TRUE]
           w   == [wrote[t] EXCEPT ![p] = row]
<1>0. pc[t] = "ensureWrite" /\ p \in Guests /\ wrote[t] \in [Guests -> Written] /\ ~RowBusy(t, p)
  BY TypeOf DEF MakePrimary, SafetyInv, Fits, Request, NullOr
<1>1. CASE ~Listed(p)
  BY <1>0, <1>1, InvCommitWritten DEF MakePrimary, Replies
<1>2. CASE Listed(p)
  <2>1. row \in GuestRow /\ row.group = guest[p].group
    BY <1>0, <1>2 DEF Listed, GuestRow
  <2>2. /\ w \in [Guests -> Written] /\ w[p] = row
        /\ \A q \in Guests : q # p => w[q] = wrote[t][q]
    BY <1>0, <2>1 DEF Written, NullOr
  <2>3. group[row.group] = "live" /\ p \in Members(row.group)
    BY <1>0, <1>2, <2>1 DEF SafetyInv, GuestHasInvitation, Members, Listed
  <2>4. Commit(t, w, {}, "done") /\ "done" \in Replies
    BY <1>2 DEF MakePrimary, Replies
  <2> HIDE DEF w, row
  <2> QED
    BY <1>0, <2>2, <2>3, <2>4, InvCommitRow
<1> QED
  BY <1>1, <1>2

LEMMA InvMerge ==
  ASSUME SafetyInv, NEW t \in Handlers, NEW g \in Groups, NEW p \in Guests,
         MergeIntoInvitation(t, g, p)
  PROVE  SafetyInv'
<1> DEFINE r == [Carrying("merge", p, g) EXCEPT !.from = guest[p].group]
<1>1. CASE Answer(t, "notFound") \/ Answer(t, "alreadyOnInvitation")
  BY <1>1, InvAnswer DEF Replies
<1>2. CASE pc[t] = "idle" /\ Listed(p) /\ Start(t, "merge", r)
  <2>1. "merge" \in AllOps /\ g \in NullOr(Groups)
    BY DEF AllOps, NullOr
  <2>2. r \in Request /\ r.op = "merge" /\ r.guest = p /\ r.group = g /\ r.home = Null /\ r.from # Null
    BY <1>2, <2>1, FromFits DEF SafetyInv
  <2> HIDE DEF r
  <2>3. Fits("merge", r)
    BY <2>2, NullApart DEF Fits
  <2> QED
    BY <1>2, <2>2, <2>3, InvStartIdle DEF Start, PCs
<1> QED
  BY <1>1, <1>2 DEF MergeIntoInvitation

LEMMA InvMoveAsAdmin ==
  ASSUME SafetyInv, NEW t \in Handlers, MoveGuestToGroupAsAdmin(t)
  PROVE  SafetyInv'
<1>0. /\ pc[t] = "merge" /\ Fits("drop", req[t]) /\ Fits("reference", req[t])
      /\ req[t].group \in Groups /\ req[t].guest \in Guests
      /\ wrote[t] \in [Guests -> Written] /\ held[t] \in SUBSET Groups
  BY TypeOf DEF MoveGuestToGroupAsAdmin, SafetyInv, Fits, Request, NullOr
<1>1. CASE Stop(t, "notFound")
  BY <1>0, <1>1, InvStop DEF Replies
<1>2. ASSUME NEW p \in Guests, NEW row, NEW at, Listed(p), ~RowBusy(t, p),
             row = [guest[p] EXCEPT !.group = req[t].group, !.primary = FALSE],
             at = IF guest[p].group = req[t].group THEN "drop" ELSE "reference",
             Write(t, p, row, at, req[t])
      PROVE  SafetyInv'
  <2> DEFINE w == [wrote[t] EXCEPT ![p] = row]
  <2>1. row \in GuestRow /\ row.group = req[t].group
    BY <1>0, <1>2 DEF Listed, GuestRow
  <2>2. /\ w \in [Guests -> Written] /\ w[p] = row
        /\ \A q \in Guests : q # p => w[q] = Null
    BY <1>0, <2>1, NoRowsWritten DEF Written, NullOr, SafetyInv, LocksHeld
  <2>3. GoesOn(t, at, req[t], w, held[t])
    BY <1>2 DEF Write, GoesOn, tables, history, SafetyInv, TypeOK, LocksOK
  <2>4. guest[p].group = req[t].group =>
          group[row.group] = "live" /\ p \in Members(row.group)
    BY <1>2, <2>1 DEF SafetyInv, GuestHasInvitation, Members, Listed
  <2>5. WritesOK(t, at, req[t], w)
    BY <1>2, <2>1, <2>2, <2>4, NullApart DEF WritesOK
  <2>6. HoldsOK(t, at, req[t], w, held[t])
    BY <1>2 DEF HoldsOK, SafetyInv, GroupLocks
  <2>7. /\ at \in PCs \ {"idle"} /\ Fits(at, req[t]) /\ CoversOK(at, req[t], w)
        /\ IF pc[t] = "idle" THEN req[t].home = Null ELSE req[t].home = req[t].home
    BY <1>0, <1>2 DEF PCs, CoversOK
  <2> HIDE DEF w
  <2> QED
    BY <1>0, <2>2, <2>3, <2>5, <2>6, <2>7, InvGoesOn
<1> QED
  BY <1>0, <1>1, <1>2 DEF MoveGuestToGroupAsAdmin

LEMMA InvCheckReference ==
  ASSUME SafetyInv, NEW t \in Handlers, CheckReference(t)
  PROVE  SafetyInv'
<1> DEFINE g == req[t].group
<1>0. /\ pc[t] = "reference" /\ ~Exclusive(t, g) /\ Fits("drop", req[t])
      /\ wrote[t] \in [Guests -> Written] /\ held[t] \in SUBSET Groups
  BY TypeOf DEF CheckReference, SafetyInv, Fits
<1>1. CASE Stop(t, "failed")
  BY <1>0, <1>1, InvStop DEF Replies
<1>2. CASE group[g] = "live" /\ Start(t, "drop", req[t])
  <2>1. GoesOn(t, "drop", req[t], wrote[t], held[t])
    BY <1>2 DEF Start, GoesOn, tables, locks, history, SafetyInv, TypeOK, LocksOK
  <2>2. \A p \in Guests : /\ wrote[t][p] # Null => Listed(p) /\ ~RowBusy(t, p)
                          /\ wrote[t][p] \in GuestRow => wrote[t][p].group = g
    BY <1>0 DEF SafetyInv, RowLocks, WrittenIntoGroup
  <2>3. WritesOK(t, "drop", req[t], wrote[t])
    BY <1>0, <1>2, <2>2 DEF WritesOK
  <2>4. HoldsOK(t, "drop", req[t], wrote[t], held[t])
    BY DEF HoldsOK, SafetyInv, GroupLocks
  <2>5. "drop" \in PCs \ {"idle"} /\ CoversOK("drop", req[t], wrote[t])
    BY DEF PCs, CoversOK
  <2> QED
    BY <1>0, <2>1, <2>3, <2>4, <2>5, InvGoesOn
<1> QED
  BY <1>0, <1>1, <1>2 DEF CheckReference

-----------------------------------------------------------------------------
\* Every step, and the invariant.

LEMMA InvNext == SafetyInv /\ [Next]_vars => SafetyInv'
<1> SUFFICES ASSUME SafetyInv, [Next]_vars PROVE SafetyInv'
  OBVIOUS
<1>1. CASE UNCHANGED vars
  <2> USE <1>1 DEF vars
  <2>1. TypeOK'
    BY DEF SafetyInv, TypeOK, TablesOK, LocksOK, RequestsOK, HistoryOK, Carries
  <2>2. GuestHasInvitation' /\ RowLocks'
    BY DEF SafetyInv, GuestHasInvitation, RowLocks, Listed, RowBusy
  <2>3. GroupLocks'
    BY DEF SafetyInv, GroupLocks, GroupBusy, Exclusive, Shares, Members
  <2>4. LocksHeld' /\ HomeReserved' /\ WrittenIntoGroup' /\ CascadeCovers'
    BY DEF SafetyInv, LocksHeld, HomeReserved, WrittenIntoGroup, CascadeCovers, MembersSeen, Sees
  <2> QED
    BY <2>1, <2>2, <2>3, <2>4 DEF SafetyInv
<1>2. ASSUME NEW t \in Handlers, BeginGuests(t) PROVE SafetyInv'
  BY <1>2, InvAddCompanion, InvRemoveCompanion, InvSubmitRSVP DEF BeginGuests
<1>3. ASSUME NEW t \in Handlers, BeginCouple(t) PROVE SafetyInv'
  BY <1>3, InvCreateGuestAlone, InvDeleteGuest, InvDetachGuest, InvCreateGuestInto,
     InvSetPrimary, InvMerge DEF BeginCouple
<1>4. ASSUME NEW t \in Handlers, Advance(t) PROVE SafetyInv'
  BY <1>4, InvLockGroup, InvCountCompanions, InvReadCompanion, InvMoveGuest, InvRestore,
     InvUpdateAttendance, InvInsertGuest, InvDeleteGuestRow, InvSetGroupPrimary,
     InvMoveGuestHome, InvEnsurePrimary, InvMakePrimary, InvMoveAsAdmin, InvCheckReference,
     InvDropScan, InvDropGroup, InvCascade DEF Advance
<1>5. ASSUME NEW t \in Handlers, Abort(t) PROVE SafetyInv'
  BY <1>5, InvStop DEF Abort, Replies
<1> QED
  BY <1>1, <1>2, <1>3, <1>4, <1>5 DEF Next, Begin

\* What the row locks, the group locks and the foreign key guarantee together
\* (repo.go's transactions), in every state: the inductive invariant.
THEOREM SafetyInvariant == Spec => []SafetyInv
<1>1. Init => SafetyInv
  BY InvInit
<1>2. SafetyInv /\ [Next]_vars => SafetyInv'
  BY InvNext
<1> QED
  BY <1>1, <1>2, PTL DEF Spec

\* Rows, locks and requests always have the shape the statements expect: a
\* request that has answered left no lock and no uncommitted row (repo.go's
\* deferred Rollback on every early return).
THEOREM TypeCorrect == Spec => []TypeOK
<1>1. SafetyInv => TypeOK
  BY DEF SafetyInv
<1> QED
  BY <1>1, SafetyInvariant, PTL

\* Every guest of the list is on an invitation that exists, whatever merges,
\* detaches, deletions and cascades interleave (guests.group_id, 00001_init.sql).
THEOREM GuestsKeepInvitation == Spec => []GuestHasInvitation
<1>1. SafetyInv => GuestHasInvitation
  BY DEF SafetyInv
<1> QED
  BY <1>1, SafetyInvariant, PTL

-----------------------------------------------------------------------------
\* Deletions are final.

StayDeleted ==
  /\ \A p \in Guests : guest[p] = Gone => guest'[p] = Gone
  /\ \A g \in Groups : group[g] = "gone" => group'[g] = "gone"

LEMMA KeptByCommit ==
  ASSUME SafetyInv, NEW t \in Handlers, pc[t] # "idle", NEW w, NEW dropped, NEW what,
         \A p \in Guests : w[p] # Null => guest[p] # Gone,
         Commit(t, w, dropped, what)
  PROVE  StayDeleted
<1>1. \A g \in Groups : g = req[t].home => group[g] = "reserved"
  BY NullApart DEF SafetyInv, HomeReserved
<1> QED
  BY <1>1 DEF Commit, StayDeleted

LEMMA KeptByStop ==
  ASSUME SafetyInv, NEW t \in Handlers, pc[t] # "idle", NEW what, Stop(t, what)
  PROVE  StayDeleted
<1>1. \A g \in Groups : g = req[t].home => group[g] = "reserved"
  BY NullApart DEF SafetyInv, HomeReserved
<1> QED
  BY <1>1 DEF Stop, StayDeleted

\* A request's own rows are rows of guests still listed.
LEMMA OwnNotGone ==
  ASSUME SafetyInv, NEW t \in Handlers
  PROVE  \A p \in Guests : wrote[t][p] # Null => guest[p] # Gone
BY ConstantsAssumption DEF SafetyInv, RowLocks, Listed

\* A statement that writes p and commits writes a row that was there.
LEMMA KeptByCommitRow ==
  ASSUME SafetyInv, NEW t \in Handlers, pc[t] # "idle", NEW p \in Guests, NEW row,
         guest[p] # Gone, NEW dropped, NEW what,
         Commit(t, [wrote[t] EXCEPT ![p] = row], dropped, what)
  PROVE  StayDeleted
<1> DEFINE w == [wrote[t] EXCEPT ![p] = row]
<1>1. \A q \in Guests : w[q] # Null => guest[q] # Gone
  BY OwnNotGone, TypeOf DEF SafetyInv
<1>2. Commit(t, w, dropped, what)
  OBVIOUS
<1> HIDE DEF w
<1> QED
  BY <1>1, <1>2, KeptByCommit

LEMMA KeptByBegin ==
  ASSUME SafetyInv, NEW t \in Handlers, Begin(t)
  PROVE  StayDeleted
<1> USE DEF Answer, Start, StartWithHome, tables, locks, history, StayDeleted
<1>1. CASE UNCHANGED tables
  BY <1>1
<1>2. ASSUME NEW g \in Groups, group[g] = "unused", NEW s,
             group' = [group EXCEPT ![g] = s], guest' = guest
      PROVE  StayDeleted
  BY <1>2 DEF SafetyInv, TypeOK, TablesOK
<1>3. ASSUME NEW p \in Guests, guest[p] = Absent, NEW row,
             guest' = [guest EXCEPT ![p] = row], group' = group
      PROVE  StayDeleted
  BY <1>3, ConstantsAssumption DEF SafetyInv, TypeOK, TablesOK
<1>4. ASSUME NEW g \in Groups, NEW p \in Guests,
             \/ AddCompanion(t, g, p) \/ RemoveCompanion(t, g, p) \/ SetPrimary(t, g, p)
             \/ MergeIntoInvitation(t, g, p)
      PROVE  UNCHANGED tables \/ StayDeleted
  BY <1>2, <1>4 DEF AddCompanion, RemoveCompanion, SetPrimary, MergeIntoInvitation
<1>5. ASSUME NEW g \in Groups, NEW rows, NEW yes, SubmitRSVP(t, g, rows, yes)
      PROVE  UNCHANGED tables
  BY <1>5 DEF SubmitRSVP
<1>6. ASSUME NEW g \in Groups, NEW p \in Guests, CreateGuestInto(t, g, p)
      PROVE  UNCHANGED tables \/ StayDeleted
  BY <1>3, <1>6 DEF CreateGuestInto
<1>7. CreateGuestAlone(t) => StayDeleted
  BY <1>2 DEF CreateGuestAlone
<1>8. ASSUME NEW p \in Guests, DeleteGuest(t, p) \/ DetachGuest(t, p)
      PROVE  UNCHANGED tables \/ StayDeleted
  BY <1>2, <1>8 DEF DeleteGuest, DetachGuest
<1> HIDE DEF Answer, Start, StartWithHome, StayDeleted
<1> QED
  BY <1>1, <1>4, <1>5, <1>6, <1>7, <1>8 DEF Begin, BeginGuests, BeginCouple

LEMMA KeptByAdvance ==
  ASSUME SafetyInv, NEW t \in Handlers, Advance(t)
  PROVE  StayDeleted
<1> DEFINE Kept(w) == \A p \in Guests : w[p] # Null => guest[p] # Gone
<1>1. Kept(wrote[t])
  BY OwnNotGone
<1>2. ASSUME UNCHANGED tables PROVE StayDeleted
  BY <1>2 DEF tables, StayDeleted
<1>3. ASSUME pc[t] # "idle", NEW what, NEW dropped, Commit(t, wrote[t], dropped, what)
      PROVE  StayDeleted
  BY <1>1, <1>3, KeptByCommit
<1>4. ASSUME pc[t] # "idle", NEW p \in Guests, guest[p] # Gone, NEW row, NEW what, NEW dropped,
             Commit(t, [wrote[t] EXCEPT ![p] = row], dropped, what)
      PROVE  StayDeleted
  BY <1>4, KeptByCommitRow
<1>5. ASSUME pc[t] # "idle", NEW what, Stop(t, what) PROVE StayDeleted
  BY <1>5, KeptByStop
<1> HIDE DEF Kept
<1>6. \A p \in Guests : Listed(p) \/ guest[p] = Absent => guest[p] # Gone
  BY ConstantsAssumption DEF Listed
<1>7. pc[t] # "idle" =>
        req[t].next \in NullOr(Guests) /\ req[t].guest \in NullOr(Guests)
  BY TypeOf DEF SafetyInv, Request
<1>8. pc[t] \in {"answer", "primary", "ensureWrite", "cascade"} => req[t].next \in Guests
  BY <1>7, TypeOf DEF SafetyInv, Fits, NullOr
<1>9. pc[t] = "remove" => req[t].guest \in Guests
  BY <1>7, TypeOf DEF SafetyInv, Fits, NullOr
<1>10. \/ LockGroupForCompanion(t) \/ CountGroupCompanions(t) \/ ReadCompanion(t)
       \/ MoveGuestToGroup(t) \/ DeleteGuestRow(t) \/ MoveGuestHome(t)
       \/ MoveGuestToGroupAsAdmin(t) \/ CheckReference(t)
       => StayDeleted
  BY <1>2, <1>5 DEF LockGroupForCompanion, CountGroupCompanions, ReadCompanion,
     MoveGuestToGroup, DeleteGuestRow, MoveGuestHome, MoveGuestToGroupAsAdmin, CheckReference,
     Start, Write
<1>11. RestoreCompanionToOwnGroup(t) => StayDeleted
  BY <1>4, <1>5, <1>6, <1>9 DEF RestoreCompanionToOwnGroup, Removable
<1>12. UpdateGuestAttendance(t) => StayDeleted
  BY <1>2, <1>4, <1>5, <1>6, <1>8 DEF UpdateGuestAttendance, Matches
<1>13. InsertGuest(t) => StayDeleted
  BY <1>2, <1>4, <1>6 DEF InsertGuest, Start
<1>14. SetGroupPrimary(t) => StayDeleted
  BY <1>2, <1>3, <1>4, <1>6, <1>8 DEF SetGroupPrimary, Matches
<1>15. EnsureGroupHasPrimary(t) \/ DropScan(t) \/ DropGroup(t) => StayDeleted
  BY <1>2, <1>3 DEF EnsureGroupHasPrimary, DropScan, DropGroup, Start, tables
<1>16. MakePrimary(t) => StayDeleted
  BY <1>3, <1>4, <1>6, <1>8 DEF MakePrimary
<1>17. Cascade(t) => StayDeleted
  <2>1. ASSUME pc[t] = "cascade", req[t].next \in MembersSeen(t, req[t].from)
        PROVE  guest[req[t].next] # Gone
    BY <2>1, <1>8, OwnNotGone, ConstantsAssumption DEF MembersSeen, Sees
  <2> QED
    BY <2>1, <1>2, <1>3, <1>4, <1>8 DEF Cascade
<1> QED
  BY <1>10, <1>11, <1>12, <1>13, <1>14, <1>15, <1>16, <1>17 DEF Advance

\* DeleteGuest is for good, whatever was read before it; and an invitation's id
\* never comes back.
THEOREM DeletedForGood == Spec => DeletedStayDeleted
<1>1. SafetyInv /\ [Next]_vars => [StayDeleted]_vars
  BY KeptByBegin, KeptByAdvance, KeptByStop DEF Next, Abort
<1>2. SafetyInv /\ [Next]_vars =>
        [/\ \A p \in Guests : guest[p] = Gone => guest'[p] = Gone
         /\ \A g \in Groups : group[g] = "gone" => group'[g] = "gone"]_vars
  BY <1>1 DEF StayDeleted
<1> QED
  BY <1>2, SafetyInvariant, PTL DEF Spec, DeletedStayDeleted

-----------------------------------------------------------------------------
\* What guests gather in, and what a submission answers.

\* Why p, of whom row is being written, is gathered in there: they are already, they
\* take it along to an invitation of their own, or a guest is choosing them.
PlaceMade(r, p, row) ==
  \/ guest[p].added /\ row.group = guest[p].group
  \/ p = r.guest /\ guest[p].added /\ row.group = r.home /\ "detach" \in Ops
  \/ p = r.guest /\ r.op = "add" /\ row.group = r.group /\ guest[p].group # r.group
  \/ "merge" \in Ops

\* What a request that is at at with r in hand makes of the row of p.
RowMade(at, r, p, row) ==
  /\ at = "answer" => row # Gone
  /\ row \in GuestRow =>
       /\ Listed(p)
       /\ IF at = "answer"
          THEN row.group = r.group /\ row.attending = IF p \in r.yes THEN "yes" ELSE "no"
          ELSE row.attending = guest[p].attending
       /\ row.added => PlaceMade(r, p, row)

\* Where a request that has written w and holds h may be: from the count to the commit
\* the invitation it gathers into has room for one more.
StepMade(at, r, w, h) ==
  /\ at = "merge"  => "merge" \in Ops
  /\ at = "detach" => "detach" \in Ops
  /\ at = "remove" => w = NoRows
  /\ at = "move"   => r.guest \notin Members(r.group)
  /\ at \notin {"idle", "lock", "count"} /\ r.op = "add" =>
       /\ r.group \in h
       /\ "merge" \notin Ops => Cardinality(Companions(r.group)) < MaxCompanionsPerGroup

RoomKept ==
  "merge" \notin Ops =>
    \A g \in Groups :
      IsFiniteSet(Companions(g)) /\ Cardinality(Companions(g)) <= MaxCompanionsPerGroup

AddedGathered ==
  Ops \cap {"merge", "detach"} = {} =>
    \A p \in Guests : Listed(p) /\ guest[p].added => p \in gathered

StepsMade == \A t \in Handlers : pc[t] # "idle" => StepMade(pc[t], req[t], wrote[t], held[t])

RowsMade == \A t \in Handlers, p \in Guests : RowMade(pc[t], req[t], p, wrote[t][p])

GatherInv == StepsMade /\ RowsMade /\ RoomKept /\ AddedGathered

LEMMA GatherInit == Init => GatherInv
<1> SUFFICES ASSUME Init PROVE GatherInv
  OBVIOUS
<1>1. \A p \in Guests : guest[p] \in GuestRow => ~guest[p].added
  BY ConstantsAssumption DEF Init, ImportedRow
<1>2. StepsMade /\ RowsMade
  BY NoRowsWritten, NullApart DEF Init, StepsMade, RowsMade, RowMade
<1>3. \A g \in Groups : Companions(g) = {}
  BY <1>1 DEF Companions, Members
<1>4. RoomKept
  BY <1>3, FS_EmptySet, ConstantsAssumption DEF RoomKept
<1>5. AddedGathered
  BY <1>1 DEF AddedGathered, Listed
<1> QED BY <1>2, <1>4, <1>5 DEF GatherInv

\* GatherInv looks at the guests, at where a request is and at what it wrote and holds.
LEMMA GatherSame ==
  ASSUME GatherInv, UNCHANGED <<guest, pc, req, wrote, held, gathered>>
  PROVE  GatherInv'
<1>1. StepsMade' /\ RowsMade'
  BY DEF GatherInv, StepsMade, RowsMade, StepMade, RowMade, PlaceMade, Companions, Members, Listed
<1>2. RoomKept' /\ AddedGathered'
  BY DEF GatherInv, RoomKept, AddedGathered, Companions, Members, Listed
<1> QED BY <1>1, <1>2 DEF GatherInv

\* A step that goes on.
LEMMA GatherGoesOn ==
  ASSUME TypeOK, GatherInv, NEW t \in Handlers, NEW at, at # "idle", NEW r, NEW w, NEW h,
         GoTo(t, at, r), wrote' = [wrote EXCEPT ![t] = w], held' = [held EXCEPT ![t] = h],
         UNCHANGED <<guest, gathered>>,
         StepMade(at, r, w, h), \A p \in Guests : RowMade(at, r, p, w[p])
  PROVE  GatherInv'
<1>1. /\ pc'[t] = at /\ req'[t] = r /\ wrote'[t] = w /\ held'[t] = h
      /\ \A u \in Handlers \ {t} : /\ pc'[u] = pc[u] /\ req'[u] = req[u]
                                   /\ wrote'[u] = wrote[u] /\ held'[u] = held[u]
  BY DEF GoTo, TypeOK, RequestsOK, LocksOK
<1>2. ASSUME NEW u \in Handlers, pc'[u] # "idle"
      PROVE  StepMade(pc'[u], req'[u], wrote'[u], held'[u])
  BY <1>1, <1>2 DEF GatherInv, StepsMade
<1>3. ASSUME NEW u \in Handlers, NEW p \in Guests
      PROVE  RowMade(pc'[u], req'[u], p, wrote'[u][p])
  BY <1>1 DEF GatherInv, RowsMade
<1>4. StepsMade'
  BY <1>2 DEF StepsMade, StepMade, Companions, Members
<1>5. RowsMade'
  BY <1>3 DEF RowsMade, RowMade, PlaceMade, Listed
<1>6. RoomKept' /\ AddedGathered'
  BY DEF GatherInv, RoomKept, AddedGathered, Companions, Members, Listed
<1> QED BY <1>4, <1>5, <1>6 DEF GatherInv

\* The same request, further on: one row more at most, no group let go of.
Same(r, s) ==
  r.op = s.op /\ r.guest = s.guest /\ r.group = s.group /\ r.home = s.home /\ r.yes = s.yes

LEMMA VisitSame ==
  ASSUME NEW r \in Request, NEW p, NEW rows
  PROVE  Same([r EXCEPT !.next = p, !.rows = rows], r) /\ Same([r EXCEPT !.next = p], r)
         /\ Same([r EXCEPT !.from = p], r)
BY DEF Request, Same

Onward(t, at, r, more, p, w) ==
  /\ pc[t] \notin {"idle", "lock", "count"}
  /\ at \notin {"idle", "lock", "count", "merge", "detach", "remove", "move"}
  /\ at = "answer" <=> pc[t] = "answer"
  /\ Same(r, req[t])
  /\ \A q \in Guests : q # p => w[q] = wrote[t][q]
  /\ p \in Guests => RowMade(at, r, p, w[p])
  /\ GoTo(t, at, r)
  /\ wrote' = [wrote EXCEPT ![t] = w]
  /\ held'  = [held EXCEPT ![t] = held[t] \cup more]
  /\ UNCHANGED <<guest, gathered>>

LEMMA GatherOnward ==
  ASSUME SafetyInv, GatherInv, NEW t \in Handlers, NEW at, NEW r, NEW more, NEW p, NEW w,
         Onward(t, at, r, more, p, w)
  PROVE  GatherInv'
<1> USE DEF Onward
<1>1. StepMade(pc[t], req[t], wrote[t], held[t])
  BY DEF GatherInv, StepsMade
<1>2. StepMade(at, r, w, held[t] \cup more)
  BY <1>1 DEF StepMade, Same
<1>3. ASSUME NEW q \in Guests PROVE RowMade(at, r, q, w[q])
  <2>1. CASE q = p
    BY <2>1
  <2>2. CASE q # p
    <3>1. RowMade(pc[t], req[t], q, wrote[t][q])
      BY DEF GatherInv, RowsMade
    <3> QED BY <2>2, <3>1 DEF RowMade, PlaceMade, Same
  <2> QED BY <2>1, <2>2
<1>4. TypeOK
  BY DEF SafetyInv
<1> QED
  BY <1>2, <1>3, <1>4, GatherGoesOn

\* What is committed meets no lock of anybody else: it stays where it was, goes to the
\* request's own new invitation, or to one that nobody else holds.
EntersFreely(t, p, row) ==
  row \in GuestRow =>
    row.group = req[t].home \/ p \in Members(row.group) \/ ~Exclusive(t, row.group)

\* A row of somebody new.
NewcomerRow(p, row) == guest[p] = Absent /\ row \in GuestRow /\ ~row.added

CommitMade(t, w) ==
  \A p \in Guests :
    /\ w[p] # Null => ~RowBusy(t, p)
    /\ EntersFreely(t, p, w[p])
    /\ RowMade(pc[t], req[t], p, w[p]) \/ (pc[t] # "answer" /\ NewcomerRow(p, w[p]))

LEMMA OwnRowsMade ==
  ASSUME SafetyInv, GatherInv, NEW t \in Handlers, pc[t] # "reference"
  PROVE  CommitMade(t, wrote[t])
<1> SUFFICES ASSUME NEW p \in Guests
             PROVE  /\ wrote[t][p] # Null => ~RowBusy(t, p)
                    /\ EntersFreely(t, p, wrote[t][p])
                    /\ RowMade(pc[t], req[t], p, wrote[t][p])
  BY DEF CommitMade
<1>1. RowMade(pc[t], req[t], p, wrote[t][p])
  BY DEF GatherInv, RowsMade
<1> QED
  BY <1>1, OwnWrites, NullApart DEF EntersFreely

\* Whom a commit gathers into which invitation.
LEMMA Gathers ==
  ASSUME SafetyInv, GatherInv, NEW t \in Handlers, pc[t] # "idle", NEW w, CommitMade(t, w),
         "merge" \notin Ops, NEW g \in Groups, NEW p \in Guests,
         w[p] \in GuestRow, w[p].added, w[p].group = g, p \notin Companions(g)
  PROVE  /\ p = req[t].guest
         /\ \/ g = req[t].home /\ Listed(p) /\ guest[p].added
            \/ g = req[t].group /\ req[t].op = "add"
<1>1. RowMade(pc[t], req[t], p, w[p])
  BY DEF CommitMade, NewcomerRow
<1>2. Listed(p) /\ PlaceMade(req[t], p, w[p])
  BY <1>1 DEF RowMade
<1> QED
  BY <1>2 DEF PlaceMade, Companions, Members, Listed

\* Nobody enters an invitation that somebody else holds.
LEMMA HeldNotEntered ==
  ASSUME SafetyInv, NEW t \in Handlers, NEW w, NEW dropped, NEW what, CommitMade(t, w),
         Commit(t, w, dropped, what), pc[t] # "idle",
         NEW u \in Handlers \ {t}, NEW g \in held[u]
  PROVE  Members(g)' \subseteq Members(g)
<1> SUFFICES ASSUME NEW p \in Guests, guest'[p] \in GuestRow, guest'[p].group = g
             PROVE  p \in Members(g)
  BY DEF Members
<1>1. guest'[p] = IF w[p] = Null THEN guest[p] ELSE w[p]
  BY DEF Commit
<1>2. group[g] = "live" /\ Exclusive(t, g)
  BY DEF SafetyInv, GroupLocks, Exclusive
<1>3. g \in Groups
  BY TypeOf DEF SafetyInv
<1>4. g # req[t].home
  BY <1>2, <1>3, NullApart DEF SafetyInv, HomeReserved
<1>5. CASE w[p] = Null
  BY <1>1, <1>5 DEF Members
<1>6. CASE w[p] # Null
  <2>1. EntersFreely(t, p, w[p])
    BY DEF CommitMade
  <2> QED BY <1>1, <1>2, <1>4, <1>6, <2>1 DEF EntersFreely
<1> QED BY <1>5, <1>6

LEMMA HeldNotGathered ==
  ASSUME SafetyInv, GatherInv, NEW t \in Handlers, NEW w, NEW dropped, NEW what,
         CommitMade(t, w), Commit(t, w, dropped, what), pc[t] \notin {"idle", "lock", "count"},
         "merge" \notin Ops, NEW u \in Handlers \ {t}, NEW g \in held[u]
  PROVE  Companions(g)' \subseteq Companions(g)
<1> SUFFICES ASSUME NEW p \in Guests, guest'[p] \in GuestRow, guest'[p].group = g, guest'[p].added,
                    p \notin Companions(g)
             PROVE  FALSE
  BY DEF Companions, Members
<1>1. guest'[p] = IF w[p] = Null THEN guest[p] ELSE w[p]
  BY DEF Commit
<1>2. group[g] = "live" /\ ~GroupBusy(u, g) /\ g \in Groups
  BY TypeOf DEF SafetyInv, GroupLocks
<1>3. g # req[t].home
  BY <1>2, NullApart DEF SafetyInv, HomeReserved
<1>4. w[p] # Null
  BY <1>1 DEF Companions, Members
<1>5. g = req[t].group /\ req[t].op = "add"
  BY <1>1, <1>2, <1>3, <1>4, Gathers
<1>6. g \in held[t]
  BY <1>5 DEF GatherInv, StepsMade, StepMade
<1> QED
  BY <1>2, <1>6 DEF GroupBusy, Exclusive

\* The invitations a commit touches keep to the allowance.
LEMMA CommitRoom ==
  ASSUME SafetyInv, GatherInv, NEW t \in Handlers, NEW w, NEW dropped, NEW what,
         CommitMade(t, w), Commit(t, w, dropped, what), pc[t] \notin {"idle", "lock", "count"}
  PROVE  RoomKept'
<1> SUFFICES ASSUME "merge" \notin Ops, NEW g \in Groups
             PROVE  /\ IsFiniteSet(Companions(g)')
                    /\ Cardinality(Companions(g)') <= MaxCompanionsPerGroup
  BY DEF RoomKept
<1> DEFINE p == req[t].guest
<1>1. \A h \in Groups : /\ IsFiniteSet(Companions(h)) /\ Cardinality(Companions(h)) \in Nat
                        /\ Cardinality(Companions(h)) <= MaxCompanionsPerGroup
  BY FS_CardinalityType DEF GatherInv, RoomKept
<1>2. MaxCompanionsPerGroup \in Nat
  BY ConstantsAssumption
<1>3. ASSUME NEW q \in Guests, q \in Companions(g)', q \notin Companions(g)
      PROVE  /\ q = p
             /\ \/ g = req[t].home /\ Listed(q) /\ guest[q].added
                \/ g = req[t].group /\ req[t].op = "add"
  <2>1. guest'[q] = IF w[q] = Null THEN guest[q] ELSE w[q]
    BY DEF Commit
  <2>2. guest'[q] \in GuestRow /\ guest'[q].added /\ guest'[q].group = g
    BY <1>3 DEF Companions, Members
  <2>3. w[q] # Null
    BY <1>3, <2>1, <2>2 DEF Companions, Members
  <2> QED BY <1>3, <2>1, <2>2, <2>3, Gathers
<1>4. Companions(g)' \subseteq Guests
  BY DEF Companions, Members
<1>5. CASE g = req[t].group /\ req[t].op = "add"
  <2>1. Cardinality(Companions(g)) < MaxCompanionsPerGroup
    BY <1>5 DEF GatherInv, StepsMade, StepMade
  <2>2. Companions(g)' \subseteq Companions(g) \cup {p}
    BY <1>3, <1>4
  <2>3. /\ IsFiniteSet(Companions(g) \cup {p})
        /\ Cardinality(Companions(g) \cup {p}) <= Cardinality(Companions(g)) + 1
        /\ Cardinality(Companions(g) \cup {p}) \in Nat
    <3>1. IsFiniteSet(Companions(g)) /\ Cardinality(Companions(g)) \in Nat
      BY <1>1
    <3>2. /\ IsFiniteSet(Companions(g) \cup {p})
          /\ \/ Cardinality(Companions(g) \cup {p}) = Cardinality(Companions(g))
             \/ Cardinality(Companions(g) \cup {p}) = Cardinality(Companions(g)) + 1
      BY <3>1, FS_AddElement
    <3> QED BY <3>1, <3>2
  <2>4. /\ IsFiniteSet(Companions(g)')
        /\ Cardinality(Companions(g)') <= Cardinality(Companions(g) \cup {p})
        /\ Cardinality(Companions(g)') \in Nat
    BY <2>2, <2>3, FS_Subset, FS_CardinalityType
  <2> QED BY <1>1, <1>2, <2>1, <2>3, <2>4
<1>6. CASE ~(g = req[t].group /\ req[t].op = "add")
  <2>1. CASE Companions(g)' \subseteq Companions(g)
    <3>1. /\ IsFiniteSet(Companions(g)') /\ Cardinality(Companions(g)') \in Nat
          /\ Cardinality(Companions(g)') <= Cardinality(Companions(g))
      BY <1>1, <2>1, FS_Subset, FS_CardinalityType
    <3> QED BY <1>1, <1>2, <3>1
  <2>2. CASE ~(Companions(g)' \subseteq Companions(g))
    <3>1. g = req[t].home /\ p \in Guests /\ Listed(p) /\ guest[p].added
      BY <1>3, <1>4, <1>6, <2>2
    <3>2. Members(g) = {}
      BY <3>1, NullApart, WhereOf DEF SafetyInv, HomeReserved, GuestHasInvitation, Members, Listed
    <3>3. Companions(g)' \subseteq {p}
      BY <1>3, <1>4, <3>2 DEF Companions
    <3>4. p \in Companions(guest[p].group) /\ guest[p].group \in Groups
      BY <3>1, WhereOf DEF SafetyInv, Companions, Members, Listed
    <3>5. Cardinality(Companions(guest[p].group)) # 0
      BY <1>1, <3>4, FS_EmptySet
    <3>6. MaxCompanionsPerGroup >= 1
      BY <1>1, <1>2, <3>4, <3>5
    <3>7. IsFiniteSet({p}) /\ Cardinality({p}) = 1
      BY FS_Singleton
    <3>8. /\ IsFiniteSet(Companions(g)') /\ Cardinality(Companions(g)') \in Nat
          /\ Cardinality(Companions(g)') <= 1
      BY <3>3, <3>7, FS_Subset, FS_CardinalityType
    <3> QED BY <1>2, <3>6, <3>8
  <2> QED BY <2>1, <2>2
<1> QED BY <1>5, <1>6

LEMMA CommitGathered ==
  ASSUME SafetyInv, GatherInv, NEW t \in Handlers, NEW w, NEW dropped, NEW what,
         CommitMade(t, w), Commit(t, w, dropped, what)
  PROVE  AddedGathered'
<1> DEFINE moved == {p \in Guests : /\ guest[p] \in GuestRow
                                    /\ w[p] \in GuestRow
                                    /\ w[p].group # guest[p].group}
<1> SUFFICES ASSUME Ops \cap {"merge", "detach"} = {}, NEW p \in Guests,
                    guest'[p] \in GuestRow, guest'[p].added
             PROVE  p \in gathered'
  BY DEF AddedGathered, Listed
<1>1. /\ guest'[p] = IF w[p] = Null THEN guest[p] ELSE w[p]
      /\ gathered' = (gathered \ moved) \cup (IF req[t].op = "add" THEN moved ELSE {})
  BY DEF Commit
<1>2. Listed(p) /\ guest[p].added => p \in gathered
  BY DEF GatherInv, AddedGathered
<1>3. CASE w[p] = Null
  BY <1>1, <1>2, <1>3, NullApart DEF Listed
<1>4. CASE w[p] # Null
  <2>1. w[p] \in GuestRow /\ w[p].added
    BY <1>1, <1>4
  <2>2. Listed(p) /\ PlaceMade(req[t], p, w[p])
    BY <2>1 DEF CommitMade, RowMade, NewcomerRow
  <2>3. CASE guest[p].added /\ w[p].group = guest[p].group
    BY <1>1, <1>2, <2>2, <2>3
  <2>4. CASE req[t].op = "add" /\ w[p].group # guest[p].group
    BY <1>1, <2>1, <2>2, <2>4 DEF Listed
  <2> QED BY <2>2, <2>3, <2>4 DEF PlaceMade
<1> QED BY <1>3, <1>4

LEMMA GatherCommit ==
  ASSUME SafetyInv, GatherInv, NEW t \in Handlers, NEW w, NEW dropped, NEW what \in Replies,
         CommitMade(t, w), Commit(t, w, dropped, what), pc[t] \notin {"idle", "lock", "count"}
  PROVE  GatherInv'
<1>1. /\ pc'[t] = "idle" /\ \A p \in Guests : wrote'[t][p] = Null
      /\ \A u \in Handlers \ {t} : pc'[u] = pc[u] /\ req'[u] = req[u]
                                   /\ wrote'[u] = wrote[u] /\ held'[u] = held[u]
  BY DoneType DEF Commit
<1>2. ASSUME NEW u \in Handlers \ {t}, NEW p \in Guests, wrote[u][p] # Null
      PROVE  guest'[p] = guest[p]
  BY <1>2 DEF Commit, CommitMade, RowBusy
<1>3. RowsMade'
  <2> SUFFICES ASSUME NEW u \in Handlers, NEW p \in Guests
               PROVE  RowMade(pc[u], req[u], p, wrote[u][p])'
    BY DEF RowsMade
  <2>1. CASE u = t
    BY <1>1, <2>1, NullApart DEF RowMade
  <2>2. CASE u # t
    <3>1. RowMade(pc[u], req[u], p, wrote[u][p])
      BY DEF GatherInv, RowsMade
    <3>2. CASE wrote[u][p] = Null
      BY <1>1, <2>2, <3>2, NullApart DEF RowMade
    <3>3. CASE wrote[u][p] # Null
      BY <1>1, <1>2, <2>2, <3>1, <3>3 DEF RowMade, PlaceMade, Listed
    <3> QED BY <3>2, <3>3
  <2> QED BY <2>1, <2>2
<1>4. StepsMade'
  <2> SUFFICES ASSUME NEW u \in Handlers \ {t}, pc[u] # "idle"
               PROVE  StepMade(pc[u], req[u], wrote[u], held[u])'
    BY <1>1 DEF StepsMade
  <2>1. StepMade(pc[u], req[u], wrote[u], held[u])
    BY DEF GatherInv, StepsMade
  <2> DEFINE g == req[u].group
             after == {p \in Guests : guest'[p] \in GuestRow /\ guest'[p].group = g}
             gatheredAfter == {p \in after : guest'[p].added}
  <2>2. g \in held[u] => after \subseteq Members(g)
    <3> SUFFICES ASSUME NEW h \in held[u], h = g
                 PROVE  \A p \in Guests : guest'[p] \in GuestRow /\ guest'[p].group = h => p \in Members(h)
      OBVIOUS
    <3>1. Members(h)' \subseteq Members(h)
      BY HeldNotEntered
    <3> QED BY <3>1 DEF Members
  <2>3. g \in held[u] /\ "merge" \notin Ops => gatheredAfter \subseteq Companions(g)
    <3> SUFFICES ASSUME NEW h \in held[u], h = g, "merge" \notin Ops
                 PROVE  \A p \in Guests :
                          guest'[p] \in GuestRow /\ guest'[p].group = h /\ guest'[p].added
                            => p \in Companions(h)
      OBVIOUS
    <3>1. Companions(h)' \subseteq Companions(h)
      BY HeldNotGathered
    <3> QED BY <3>1 DEF Companions, Members
  <2> HIDE DEF after, gatheredAfter
  <2>4. pc[u] = "move" => req[u].guest \notin after
    <3>1. pc[u] = "move" => g \in held[u]
      BY DEF SafetyInv, LocksHeld
    <3> QED BY <2>1, <2>2, <3>1 DEF StepMade
  <2>5. ASSUME g \in held[u], "merge" \notin Ops, Cardinality(Companions(g)) < MaxCompanionsPerGroup
        PROVE  Cardinality(gatheredAfter) < MaxCompanionsPerGroup
    <3>1. g \in Groups
      BY <2>5, TypeOf DEF SafetyInv
    <3>2. IsFiniteSet(Companions(g))
      BY <2>5, <3>1 DEF GatherInv, RoomKept
    <3>3. /\ Cardinality(gatheredAfter) <= Cardinality(Companions(g))
          /\ Cardinality(gatheredAfter) \in Nat /\ Cardinality(Companions(g)) \in Nat
      BY <2>3, <2>5, <3>2, FS_Subset, FS_CardinalityType
    <3> QED BY <2>5, <3>3, ConstantsAssumption
  <2>6. pc'[u] = pc[u] /\ req'[u] = req[u] /\ wrote'[u] = wrote[u] /\ held'[u] = held[u]
    BY <1>1
  <2>7. after = Members(req[u].group)' /\ gatheredAfter = Companions(req[u].group)'
    BY <2>6 DEF after, gatheredAfter, Members, Companions
  <2> QED BY <2>1, <2>4, <2>5, <2>6, <2>7 DEF StepMade
<1> QED
  BY <1>3, <1>4, CommitRoom, CommitGathered DEF GatherInv

LEMMA GatherStop ==
  ASSUME SafetyInv, GatherInv, NEW t \in Handlers, NEW what \in Replies, Stop(t, what)
  PROVE  GatherInv'
<1>1. /\ pc'[t] = "idle" /\ \A p \in Guests : wrote'[t][p] = Null
      /\ \A u \in Handlers \ {t} : pc'[u] = pc[u] /\ req'[u] = req[u]
                                   /\ wrote'[u] = wrote[u] /\ held'[u] = held[u]
      /\ UNCHANGED <<guest, gathered>>
  BY DoneType DEF Stop, history
<1>2. ASSUME NEW u \in Handlers, NEW p \in Guests PROVE RowMade(pc[u], req[u], p, wrote[u][p])'
  <2>1. CASE u = t
    BY <1>1, <2>1, NullApart DEF RowMade
  <2>2. CASE u # t
    BY <1>1, <2>2 DEF GatherInv, RowsMade, RowMade, PlaceMade, Listed
  <2> QED BY <2>1, <2>2
<1>3. ASSUME NEW u \in Handlers, pc'[u] # "idle"
      PROVE  StepMade(pc[u], req[u], wrote[u], held[u])'
  BY <1>1, <1>3 DEF GatherInv, StepsMade, StepMade, Companions, Members
<1>4. RoomKept' /\ AddedGathered'
  BY <1>1 DEF GatherInv, RoomKept, AddedGathered, Companions, Members, Listed
<1> QED
  BY <1>2, <1>3, <1>4 DEF GatherInv, StepsMade, RowsMade

-----------------------------------------------------------------------------
\* What each step does to the answers, and to those a guest sends home.

AnswersWhole ==
  \A p \in Guests :
    Listed(p) /\ guest'[p] \in GuestRow /\ guest'[p].attending # guest[p].attending =>
      \E t \in Handlers :
        /\ pc[t] = "answer"
        /\ p \in AnswersOf(t)
        /\ \A q \in AnswersOf(t) : /\ guest'[q] \in GuestRow
                                   /\ guest'[q].group = req[t].group
                                   /\ guest'[q].attending = AnswerGiven(t, q)

SentHomeGathered ==
  Ops \cap {"merge", "detach"} = {} =>
    \A t \in Handlers, p \in Guests :
      pc[t] = "remove" /\ pc'[t] = "idle" /\ guest'[p] # guest[p] => p \in gathered

Good == GatherInv' /\ AnswersWhole /\ SentHomeGathered

LEMMA GoodStay == GatherInv' /\ guest' = guest => Good
BY DEF Good, AnswersWhole, SentHomeGathered

\* The commit of a submission writes whom it answers for and nobody else, that
\* of a removal only somebody who was gathered in.
CommitWhole(t, w) ==
  /\ pc[t] = "answer" => \A q \in Guests : w[q] # Null <=> q \in AnswersOf(t)
  /\ pc[t] = "remove" => \A q \in Guests : w[q] # Null => Listed(q) /\ guest[q].added

LEMMA GoodCommit ==
  ASSUME SafetyInv, GatherInv, NEW t \in Handlers, NEW w \in [Guests -> Written],
         NEW dropped, NEW what \in Replies, CommitMade(t, w), CommitWhole(t, w),
         Commit(t, w, dropped, what), pc[t] \notin {"idle", "lock", "count"}
  PROVE  Good
<1>1. GatherInv'
  BY GatherCommit
<1>2. /\ \A p \in Guests : guest'[p] = IF w[p] = Null THEN guest[p] ELSE w[p]
      /\ \A u \in Handlers \ {t} : pc'[u] = pc[u]
  BY DoneType DEF Commit
<1>3. AnswersWhole
  <2> SUFFICES ASSUME NEW p \in Guests, Listed(p), guest'[p] \in GuestRow,
                      guest'[p].attending # guest[p].attending
               PROVE  /\ pc[t] = "answer"
                      /\ p \in AnswersOf(t)
                      /\ \A q \in AnswersOf(t) : /\ guest'[q] \in GuestRow
                                                 /\ guest'[q].group = req[t].group
                                                 /\ guest'[q].attending = AnswerGiven(t, q)
    BY DEF AnswersWhole
  <2>1. guest'[p] = w[p] /\ w[p] # Null /\ w[p] \in GuestRow
    BY <1>2
  <2>2. pc[t] = "answer"
    BY <2>1, ConstantsAssumption DEF CommitMade, RowMade, NewcomerRow, Listed
  <2>3. ASSUME NEW q \in Guests, w[q] # Null
        PROVE  /\ guest'[q] \in GuestRow
               /\ guest'[q].group = req[t].group
               /\ guest'[q].attending = AnswerGiven(t, q)
    <3>1. w[q] \in GuestRow /\ RowMade("answer", req[t], q, w[q])
      BY <2>2, <2>3 DEF CommitMade, RowMade, Written, NullOr
    <3> QED BY <1>2, <2>3, <3>1 DEF RowMade, AnswerGiven
  <2>4. p \in AnswersOf(t)
    BY <2>1, <2>2 DEF CommitWhole
  <2> QED
    BY <2>2, <2>3, <2>4 DEF CommitWhole, AnswersOf
<1>4. SentHomeGathered
  <2> SUFFICES ASSUME Ops \cap {"merge", "detach"} = {}, NEW u \in Handlers, NEW p \in Guests,
                      pc[u] = "remove", pc'[u] = "idle", guest'[p] # guest[p]
               PROVE  p \in gathered
    BY DEF SentHomeGathered
  <2>1. u = t /\ w[p] # Null
    BY <1>2
  <2> QED BY <2>1 DEF CommitWhole, GatherInv, AddedGathered
<1> QED
  BY <1>1, <1>3, <1>4 DEF Good

LEMMA GoodAnswer ==
  ASSUME SafetyInv, GatherInv, NEW t \in Handlers, NEW what, Answer(t, what)
  PROVE  Good
BY GatherSame, GoodStay DEF Answer, tables, locks, history

LEMMA GoodStop ==
  ASSUME SafetyInv, GatherInv, NEW t \in Handlers, NEW what \in Replies, Stop(t, what)
  PROVE  Good
BY GatherStop, GoodStay DEF Stop

\* A request that starts has nothing in hand that could break a promise.
LEMMA GoodStart ==
  ASSUME SafetyInv, GatherInv, NEW t \in Handlers, pc[t] = "idle", NEW at, NEW r,
         at \notin {"idle", "move"}, r.op = "add" => at = "lock",
         at = "merge" => "merge" \in Ops, at = "detach" => "detach" \in Ops,
         GoTo(t, at, r), UNCHANGED <<guest, wrote, held, gathered>>
  PROVE  Good
<1>1. TypeOK /\ wrote[t] = NoRows
  BY TypeOf DEF SafetyInv
<1>2. wrote' = [wrote EXCEPT ![t] = NoRows] /\ held' = [held EXCEPT ![t] = held[t]]
  BY <1>1 DEF TypeOK, LocksOK
<1>3. StepMade(at, r, NoRows, held[t])
  BY DEF StepMade
<1>4. \A p \in Guests : RowMade(at, r, p, NoRows[p])
  BY NoRowsWritten, NullApart DEF RowMade
<1> QED
  BY <1>1, <1>2, <1>3, <1>4, GatherGoesOn, GoodStay

LEMMA GoodNewcomer ==
  ASSUME SafetyInv, GatherInv, NEW t \in Handlers, NEW g \in Groups, NEW p \in Guests,
         CreateGuestInto(t, g, p)
  PROVE  Good
<1>0. TypeOK
  BY DEF SafetyInv
<1>1. CASE \E what \in Replies : Answer(t, what)
  BY <1>1, GoodAnswer
<1>2. CASE /\ guest[p] = Absent
           /\ group[g] = "live" /\ ~Exclusive(t, g) /\ pc[t] = "idle"
           /\ guest' = [guest EXCEPT ![p] = NewRow(g, FALSE)]
           /\ UNCHANGED <<group, locks, pc, req, history>>
  <2>1. /\ guest'[p] = NewRow(g, FALSE) /\ guest[p] \notin GuestRow
        /\ \A q \in Guests : q # p => guest'[q] = guest[q]
        /\ UNCHANGED <<wrote, held, pc, req, gathered>>
    BY <1>0, <1>2, ConstantsAssumption DEF TypeOK, TablesOK, locks, history
  <2>2. NewRow(g, FALSE).group = g /\ ~NewRow(g, FALSE).added
    BY DEF NewRow
  <2>3. \A u \in Handlers : wrote[u][p] = Null
    BY <2>1 DEF SafetyInv, RowLocks, Listed
  <2>4. RowsMade'
    <3> SUFFICES ASSUME NEW u \in Handlers, NEW q \in Guests
                 PROVE  RowMade(pc[u], req[u], q, wrote[u][q])'
      BY DEF RowsMade
    <3>1. RowMade(pc[u], req[u], q, wrote[u][q])
      BY DEF GatherInv, RowsMade
    <3> QED BY <2>1, <2>3, <3>1, NullApart DEF RowMade, PlaceMade, Listed
  <2>5. \A h : {q \in Guests : guest'[q] \in GuestRow /\ guest'[q].group = h /\ guest'[q].added}
             = {q \in Guests : guest[q] \in GuestRow /\ guest[q].group = h /\ guest[q].added}
    BY <2>1, <2>2
  <2>6. \A h : Companions(h) = {q \in Guests : guest[q] \in GuestRow /\ guest[q].group = h /\ guest[q].added}
    BY DEF Companions, Members
  <2>7. ASSUME NEW u \in Handlers, pc[u] # "idle"
        PROVE  StepMade(pc[u], req[u], wrote[u], held[u])'
    <3>1. StepMade(pc[u], req[u], wrote[u], held[u])
      BY <2>7 DEF GatherInv, StepsMade
    <3>2. Companions(req[u].group)' = Companions(req[u].group)
      BY <2>1, <2>5 DEF Companions, Members
    <3>3. pc[u] = "move" => req[u].group # g
      BY <1>2 DEF SafetyInv, LocksHeld, Exclusive
    <3>4. pc[u] = "move" => req[u].guest \notin Members(req[u].group)'
      BY <2>1, <2>2, <3>1, <3>3 DEF StepMade, Members
    <3> QED BY <2>1, <3>1, <3>2, <3>4 DEF StepMade
  <2>8. StepsMade'
    BY <2>1, <2>7 DEF StepsMade
  <2>9. RoomKept'
    <3>1. \A h : Companions(h)' = Companions(h)
      BY <2>5 DEF Companions, Members
    <3> QED BY <3>1 DEF GatherInv, RoomKept
  <2>10. AddedGathered'
    BY <2>1, <2>2 DEF GatherInv, AddedGathered, Listed
  <2>11. AnswersWhole
    BY <2>1 DEF AnswersWhole, Listed
  <2>12. SentHomeGathered
    BY <2>1 DEF SentHomeGathered
  <2> QED
    BY <2>4, <2>8, <2>9, <2>10, <2>11, <2>12 DEF Good, GatherInv
<1> QED
  BY <1>1, <1>2 DEF CreateGuestInto, Replies

\* The same when it draws the invitation it will create, or has rows to visit.
LEMMA GoodStartWithHome ==
  ASSUME SafetyInv, GatherInv, NEW t \in Handlers, pc[t] = "idle", NEW at, NEW r \in Request,
         at \in {"remove", "detach"}, r.op # "add", at = "detach" => "detach" \in Ops,
         StartWithHome(t, at, r)
  PROVE  Good
<1>1. PICK g \in Groups : GoTo(t, at, [r EXCEPT !.home = g])
  BY DEF StartWithHome
<1> DEFINE s == [r EXCEPT !.home = g]
<1>2. s.op = r.op
  BY DEF Request
<1>3. GoTo(t, at, s) /\ UNCHANGED <<guest, wrote, held, gathered>>
  BY <1>1 DEF StartWithHome, locks, history
<1> HIDE DEF s
<1> QED
  BY <1>2, <1>3, GoodStart

LEMMA GoodVisit ==
  ASSUME SafetyInv, GatherInv, NEW t \in Handlers, pc[t] = "idle", NEW at, NEW r \in Request,
         at \in {"answer", "primary"}, r.op # "add", NEW rows, Visit(t, at, r, rows),
         UNCHANGED <<tables, locks, history>>
  PROVE  Good
<1>1. PICK p \in rows : GoTo(t, at, [r EXCEPT !.next = p, !.rows = rows \ {p}])
  BY DEF Visit
<1> DEFINE s == [r EXCEPT !.next = p, !.rows = rows \ {p}]
<1>2. s.op = r.op
  BY DEF Request
<1>3. GoTo(t, at, s) /\ UNCHANGED <<guest, wrote, held, gathered>>
  BY <1>1 DEF tables, locks, history
<1> HIDE DEF s
<1> QED
  BY <1>2, <1>3, GoodStart

LEMMA GoodStartAt ==
  ASSUME SafetyInv, GatherInv, NEW t \in Handlers, pc[t] = "idle", NEW at, NEW r,
         at \notin {"idle", "move"}, r.op = "add" => at = "lock",
         at = "merge" => "merge" \in Ops, at # "detach", Start(t, at, r)
  PROVE  Good
BY GoodStart DEF Start, tables, locks, history

LEMMA GoodBegin ==
  ASSUME SafetyInv, GatherInv, NEW t \in Handlers, Begin(t)
  PROVE  Good
<1>0. TypeOK
  BY DEF SafetyInv
<1>1. ASSUME NEW what, Answer(t, what) PROVE Good
  BY <1>1, GoodAnswer
<1>2. ASSUME NEW g \in Groups, NEW p \in Guests, AddCompanion(t, g, p) PROVE Good
  <2>1. CASE pc[t] = "idle" /\ Start(t, "lock", Carrying("add", p, g))
    BY <2>1, GoodStartAt
  <2> QED BY <1>1, <1>2, <2>1 DEF AddCompanion
<1>3. ASSUME NEW g \in Groups, NEW p \in Guests, RemoveCompanion(t, g, p) PROVE Good
  <2>1. CASE pc[t] = "idle" /\ StartWithHome(t, "remove", Carrying("remove", p, g))
    <3>1. Carrying("remove", p, g) \in Request /\ Carrying("remove", p, g).op = "remove"
      BY CarryingFits DEF AllOps, NullOr
    <3> QED BY <2>1, <3>1, GoodStartWithHome
  <2> QED BY <1>1, <1>3, <2>1 DEF RemoveCompanion
<1>4. ASSUME NEW g \in Groups, NEW rows \in SUBSET Guests, NEW yes \in SUBSET rows,
             SubmitRSVP(t, g, rows, yes)
      PROVE  Good
  <2> DEFINE r == [Carrying("rsvp", Null, g) EXCEPT !.yes = yes]
  <2>1. CASE pc[t] = "idle" /\ Visit(t, "answer", r, rows) /\ UNCHANGED <<tables, locks, history>>
    <3>1. r \in Request /\ r.op = "rsvp"
      BY DEF Carrying, Request, AllOps, NullOr
    <3> HIDE DEF r
    <3> QED BY <2>1, <3>1, GoodVisit
  <2> QED BY <1>1, <1>4, <2>1 DEF SubmitRSVP
<1>5. ASSUME NEW g \in Groups, NEW p \in Guests, SetPrimary(t, g, p) PROVE Good
  <2>1. CASE /\ pc[t] = "idle"
             /\ Visit(t, "primary", Carrying("primary", p, g), Members(g))
             /\ UNCHANGED <<tables, locks, history>>
    <3>1. Carrying("primary", p, g) \in Request /\ Carrying("primary", p, g).op = "primary"
      BY CarryingFits DEF AllOps, NullOr
    <3> QED BY <2>1, <3>1, GoodVisit
  <2> QED BY <1>1, <1>5, <2>1 DEF SetPrimary
<1>6. ASSUME NEW g \in Groups, NEW p \in Guests, "merge" \in Ops, MergeIntoInvitation(t, g, p)
      PROVE  Good
  <2> DEFINE r == [Carrying("merge", p, g) EXCEPT !.from = guest[p].group]
  <2>1. CASE pc[t] = "idle" /\ Start(t, "merge", r)
    <3>1. r.op = "merge"
      BY DEF Carrying
    <3> HIDE DEF r
    <3> QED BY <1>6, <2>1, <3>1, GoodStartAt
  <2> QED BY <1>1, <1>6, <2>1 DEF MergeIntoInvitation
<1>7. ASSUME NEW p \in Guests, DeleteGuest(t, p) PROVE Good
  <2> DEFINE r == [Carrying("delete", p, Null) EXCEPT !.from = guest[p].group]
  <2>1. CASE pc[t] = "idle" /\ Start(t, "delete", r)
    <3>1. r.op = "delete"
      BY DEF Carrying
    <3> HIDE DEF r
    <3> QED BY <2>1, <3>1, GoodStartAt
  <2> QED BY <1>1, <1>7, <2>1 DEF DeleteGuest
<1>8. ASSUME NEW p \in Guests, "detach" \in Ops, DetachGuest(t, p) PROVE Good
  <2> DEFINE r == [Carrying("detach", p, Null) EXCEPT !.from = guest[p].group]
  <2>1. CASE pc[t] = "idle" /\ Listed(p) /\ StartWithHome(t, "detach", r)
    <3>1. r \in Request /\ r.op = "detach"
      BY <1>0, <2>1, FromFits DEF AllOps, NullOr
    <3> HIDE DEF r
    <3> QED BY <1>8, <2>1, <3>1, GoodStartWithHome
  <2> QED BY <1>1, <1>8, <2>1 DEF DetachGuest
<1>9. ASSUME CreateGuestAlone(t) PROVE Good
  <2>1. PICK g \in Groups : GoTo(t, "insert", [Carrying("create", Null, g) EXCEPT !.from = g])
    BY <1>9 DEF CreateGuestAlone
  <2> DEFINE r == [Carrying("create", Null, g) EXCEPT !.from = g]
  <2>2. r.op = "create"
    BY DEF Carrying
  <2>3. GoTo(t, "insert", r) /\ UNCHANGED <<guest, wrote, held, gathered>> /\ pc[t] = "idle"
    BY <1>9, <2>1 DEF CreateGuestAlone, locks, history
  <2> HIDE DEF r
  <2> QED BY <2>2, <2>3, GoodStart
<1> QED
  BY <1>2, <1>3, <1>4, <1>5, <1>6, <1>7, <1>8, <1>9, GoodNewcomer
     DEF Begin, BeginGuests, BeginCouple

-----------------------------------------------------------------------------
\* The shapes of a request's later steps.

LEMMA GoodOnward ==
  ASSUME SafetyInv, GatherInv, NEW t \in Handlers, NEW at, NEW r, NEW more, NEW p, NEW w,
         Onward(t, at, r, more, p, w)
  PROVE  Good
BY GatherOnward, GoodStay DEF Onward

LEMMA KeepsHolding ==
  ASSUME TypeOK, NEW t \in Handlers, held' = held \/ UNCHANGED locks
  PROVE  held' = [held EXCEPT ![t] = held[t] \cup {}]
BY DEF TypeOK, LocksOK, locks

LEMMA KeepsWritten ==
  ASSUME TypeOK, NEW t \in Handlers, wrote' = wrote \/ UNCHANGED locks
  PROVE  wrote' = [wrote EXCEPT ![t] = wrote[t]]
BY DEF TypeOK, LocksOK, locks

\* It goes on without writing.
LEMMA GoodStartOnward ==
  ASSUME SafetyInv, GatherInv, NEW t \in Handlers, pc[t] \notin {"idle", "lock", "count", "answer"},
         NEW at, at \notin {"idle", "lock", "count", "merge", "detach", "remove", "move", "answer"},
         NEW r, Same(r, req[t]), Start(t, at, r)
  PROVE  Good
<1>1. PICK p : p \notin Guests
  BY NullApart
<1>2. Onward(t, at, r, {}, p, wrote[t])
  BY <1>1, KeepsHolding, KeepsWritten DEF Onward, Start, SafetyInv, tables, locks, history
<1> QED
  BY <1>2, GoodOnward

\* It writes p and goes on.
LEMMA GoodWrite ==
  ASSUME SafetyInv, GatherInv, NEW t \in Handlers, pc[t] \notin {"idle", "lock", "count"},
         NEW at, at \notin {"idle", "lock", "count", "merge", "detach", "remove", "move"},
         at = "answer" <=> pc[t] = "answer",
         NEW p \in Guests, NEW row, RowMade(at, req[t], p, row), Write(t, p, row, at, req[t])
  PROVE  Good
<1> DEFINE w == [wrote[t] EXCEPT ![p] = row]
<1>1. /\ wrote' = [wrote EXCEPT ![t] = w] /\ w[p] = row
      /\ \A q \in Guests : q # p => w[q] = wrote[t][q]
  BY DEF Write, SafetyInv, TypeOK, LocksOK
<1>2. held' = [held EXCEPT ![t] = held[t] \cup {}]
  BY KeepsHolding DEF SafetyInv, Write
<1> HIDE DEF w
<1>3. Onward(t, at, req[t], {}, p, w)
  BY <1>1, <1>2 DEF Onward, Same, Write, tables, history
<1> QED
  BY <1>3, GoodOnward

\* It commits what it wrote, and one row more.
LEMMA GoodCommitRow ==
  ASSUME SafetyInv, GatherInv, NEW t \in Handlers,
         pc[t] \notin {"idle", "lock", "count", "reference", "answer", "remove"},
         NEW p \in Guests, NEW row \in Written, row # Null => ~RowBusy(t, p),
         EntersFreely(t, p, row), RowMade(pc[t], req[t], p, row) \/ NewcomerRow(p, row),
         NEW dropped, NEW what \in Replies,
         Commit(t, [wrote[t] EXCEPT ![p] = row], dropped, what)
  PROVE  Good
<1> DEFINE w == [wrote[t] EXCEPT ![p] = row]
<1>1. /\ w \in [Guests -> Written] /\ w[p] = row
      /\ \A q \in Guests : q # p => w[q] = wrote[t][q]
  BY TypeOf DEF SafetyInv
<1>2. CommitMade(t, wrote[t])
  BY OwnRowsMade
<1>3. Commit(t, w, dropped, what)
  OBVIOUS
<1> HIDE DEF w
<1>4. CommitMade(t, w)
  BY <1>1, <1>2 DEF CommitMade
<1>5. CommitWhole(t, w)
  BY DEF CommitWhole
<1> QED
  BY <1>1, <1>3, <1>4, <1>5, GoodCommit

LEMMA GoodCommitWritten ==
  ASSUME SafetyInv, GatherInv, NEW t \in Handlers,
         pc[t] \notin {"idle", "lock", "count", "reference", "answer", "remove"},
         NEW dropped, NEW what \in Replies, Commit(t, wrote[t], dropped, what)
  PROVE  Good
<1>1. CommitMade(t, wrote[t]) /\ wrote[t] \in [Guests -> Written]
  BY OwnRowsMade, TypeOf DEF SafetyInv
<1>2. CommitWhole(t, wrote[t])
  BY DEF CommitWhole
<1> QED
  BY <1>1, <1>2, GoodCommit

\* A row that stays in its invitation, with the place and the answer it had.
LEMMA RowInPlace ==
  ASSUME NEW t \in Handlers, NEW p \in Guests, Listed(p), NEW row, row.group = guest[p].group,
         row.added = guest[p].added, row.attending = guest[p].attending,
         NEW at, at # "answer", NEW r
  PROVE  RowMade(at, r, p, row) /\ EntersFreely(t, p, row)
BY DEF RowMade, PlaceMade, EntersFreely, Members, Listed

\* A row deleted.
LEMMA RowGone ==
  ASSUME NEW t \in Handlers, NEW p \in Guests, NEW at, at # "answer", NEW r
  PROVE  RowMade(at, r, p, Gone) /\ EntersFreely(t, p, Gone)
BY ConstantsAssumption DEF RowMade, EntersFreely

-----------------------------------------------------------------------------
\* What a guest's requests do.

LEMMA GoodLockGroup ==
  ASSUME SafetyInv, GatherInv, NEW t \in Handlers, LockGroupForCompanion(t)
  PROVE  Good
<1> DEFINE g == req[t].group
<1>0. TypeOK /\ pc[t] = "lock"
  BY DEF SafetyInv, LockGroupForCompanion
<1>1. CASE Stop(t, "notFound")
  BY <1>1, GoodStop DEF Replies
<1>2. CASE /\ held' = [held EXCEPT ![t] = @ \cup {g}]
           /\ GoTo(t, "count", req[t])
           /\ UNCHANGED <<tables, wrote, history>>
  <2>1. wrote' = [wrote EXCEPT ![t] = wrote[t]] /\ held' = [held EXCEPT ![t] = held[t] \cup {g}]
    BY <1>0, <1>2 DEF TypeOK, LocksOK
  <2>2. StepMade("count", req[t], wrote[t], held[t] \cup {g})
    BY DEF StepMade
  <2>3. \A p \in Guests : RowMade("count", req[t], p, wrote[t][p])
    BY <1>0 DEF GatherInv, RowsMade, RowMade
  <2> QED
    BY <1>0, <1>2, <2>1, <2>2, <2>3, GatherGoesOn, GoodStay DEF tables, history
<1> QED
  BY <1>1, <1>2 DEF LockGroupForCompanion

LEMMA GoodCountCompanions ==
  ASSUME SafetyInv, GatherInv, NEW t \in Handlers, CountGroupCompanions(t)
  PROVE  Good
<1> DEFINE g == req[t].group
<1>0. TypeOK /\ pc[t] = "count" /\ g \in Groups
  BY TypeOf DEF SafetyInv, CountGroupCompanions, Fits, Request, NullOr
<1>1. CASE Stop(t, "companionLimit")
  BY <1>1, GoodStop DEF Replies
<1>2. CASE /\ ~(Cardinality(Companions(g)) >= MaxCompanionsPerGroup)
           /\ Start(t, "read", req[t])
  <2>1. wrote' = [wrote EXCEPT ![t] = wrote[t]] /\ held' = [held EXCEPT ![t] = held[t]]
    BY <1>0, <1>2 DEF Start, locks, TypeOK, LocksOK
  <2>2. "merge" \notin Ops => Cardinality(Companions(g)) \in Nat
    BY <1>0, FS_CardinalityType DEF GatherInv, RoomKept
  <2>3. "merge" \notin Ops => Cardinality(Companions(g)) < MaxCompanionsPerGroup
    BY <1>2, <2>2, ConstantsAssumption
  <2>4. g \in held[t]
    BY <1>0 DEF SafetyInv, LocksHeld
  <2>5. StepMade("read", req[t], wrote[t], held[t])
    BY <2>3, <2>4 DEF StepMade
  <2>6. \A p \in Guests : RowMade("read", req[t], p, wrote[t][p])
    BY <1>0 DEF GatherInv, RowsMade, RowMade
  <2> QED
    BY <1>0, <1>2, <2>1, <2>5, <2>6, GatherGoesOn, GoodStay DEF Start, tables, history
<1> QED
  BY <1>1, <1>2 DEF CountGroupCompanions

LEMMA GoodReadCompanion ==
  ASSUME SafetyInv, GatherInv, NEW t \in Handlers, ReadCompanion(t)
  PROVE  Good
<1> DEFINE p == req[t].guest
           r == [req[t] EXCEPT !.from = guest[p].group]
<1>0. TypeOK /\ pc[t] = "read" /\ req[t] \in Request
  BY TypeOf DEF SafetyInv, ReadCompanion
<1>1. CASE \E what \in {"notFound", "alreadyOnInvitation", "unavailable"} : Stop(t, what)
  BY <1>1, GoodStop DEF Replies
<1>2. CASE Listed(p) /\ guest[p].group # req[t].group /\ Start(t, "move", r)
  <2>1. wrote' = [wrote EXCEPT ![t] = wrote[t]] /\ held' = [held EXCEPT ![t] = held[t]]
    BY <1>0, <1>2 DEF Start, locks, TypeOK, LocksOK
  <2>2. Same(r, req[t])
    BY <1>0 DEF Request, Same
  <2>3. GoTo(t, "move", r) /\ UNCHANGED <<guest, gathered>>
    BY <1>2 DEF Start, tables, history
  <2> HIDE DEF r
  <2>4. StepMade("read", req[t], wrote[t], held[t])
    BY <1>0 DEF GatherInv, StepsMade
  <2>5. StepMade("move", r, wrote[t], held[t])
    BY <1>2, <2>2, <2>4 DEF StepMade, Same, Members
  <2>6. \A q \in Guests : RowMade("move", r, q, wrote[t][q])
    BY <1>0, <2>2 DEF GatherInv, RowsMade, RowMade, PlaceMade, Same
  <2> QED
    BY <1>0, <2>1, <2>3, <2>5, <2>6, GatherGoesOn, GoodStay
<1> QED
  BY <1>1, <1>2 DEF ReadCompanion

LEMMA GoodMoveGuest ==
  ASSUME SafetyInv, GatherInv, NEW t \in Handlers, MoveGuestToGroup(t)
  PROVE  Good
<1> DEFINE p   == req[t].guest
           row == [guest[p] EXCEPT !.group = req[t].group, !.primary = FALSE, !.added = TRUE]
<1>0. /\ pc[t] = "move" /\ p \in Guests /\ req[t].op = "add"
  BY TypeOf DEF SafetyInv, MoveGuestToGroup, Fits, Request, NullOr
<1>1. CASE Stop(t, "notFound")
  BY <1>1, GoodStop DEF Replies
<1>2. CASE Listed(p) /\ Write(t, p, row, "drop", req[t])
  <2>1. row.group = req[t].group /\ row.attending = guest[p].attending
    BY <1>2 DEF Listed, GuestRow
  <2>2. guest[p].group # req[t].group
    BY <1>0, <1>2 DEF GatherInv, StepsMade, StepMade, Members, Listed
  <2>3. RowMade("drop", req[t], p, row)
    BY <1>0, <1>2, <2>1, <2>2 DEF RowMade, PlaceMade
  <2> HIDE DEF row
  <2> QED
    BY <1>0, <1>2, <2>3, GoodWrite
<1> QED
  BY <1>1, <1>2 DEF MoveGuestToGroup

LEMMA GoodRestore ==
  ASSUME SafetyInv, GatherInv, NEW t \in Handlers, RestoreCompanionToOwnGroup(t)
  PROVE  Good
<1> DEFINE p   == req[t].guest
           row == [guest[p] EXCEPT !.group = req[t].home, !.primary = TRUE, !.added = FALSE]
           w   == [wrote[t] EXCEPT ![p] = row]
<1>0. /\ pc[t] = "remove" /\ p \in Guests /\ req[t].home \in Groups
      /\ wrote[t] \in [Guests -> Written]
  BY TypeOf DEF SafetyInv, RestoreCompanionToOwnGroup, Fits, Request, NullOr
<1>1. CASE Stop(t, "notRemovable")
  BY <1>1, GoodStop DEF Replies
<1>2. CASE Removable(t) /\ ~RowBusy(t, p) /\ Commit(t, w, {}, "done")
  <2>1. /\ row \in GuestRow /\ row.group = req[t].home /\ ~row.added
        /\ row.attending = guest[p].attending /\ Listed(p) /\ guest[p].added
    BY <1>0, <1>2 DEF Removable, Listed, GuestRow
  <2>2. /\ w \in [Guests -> Written] /\ w[p] = row
        /\ \A q \in Guests : q # p => w[q] = wrote[t][q]
    BY <1>0, <2>1 DEF Written, NullOr
  <2>3. wrote[t] = NoRows
    BY <1>0 DEF GatherInv, StepsMade, StepMade
  <2>4. RowMade("remove", req[t], p, row) /\ EntersFreely(t, p, row)
    BY <2>1 DEF RowMade, EntersFreely
  <2>5. CommitMade(t, wrote[t])
    BY <1>0, OwnRowsMade
  <2> HIDE DEF w, row
  <2>6. CommitMade(t, w)
    BY <1>0, <1>2, <2>2, <2>4, <2>5 DEF CommitMade
  <2>7. CommitWhole(t, w)
    BY <1>0, <2>1, <2>2, <2>3, NoRowsWritten DEF CommitWhole
  <2> QED
    BY <1>0, <1>2, <2>2, <2>6, <2>7, GoodCommit DEF Replies
<1> QED
  BY <1>1, <1>2 DEF RestoreCompanionToOwnGroup

LEMMA GoodUpdateAttendance ==
  ASSUME SafetyInv, GatherInv, NEW t \in Handlers, UpdateGuestAttendance(t)
  PROVE  Good
<1> DEFINE p   == req[t].next
           row == [guest[p] EXCEPT !.attending = IF p \in req[t].yes THEN "yes" ELSE "no"]
           w   == [wrote[t] EXCEPT ![p] = row]
<1>0. /\ pc[t] = "answer" /\ p \in Guests /\ req[t] \in Request
      /\ wrote[t] \in [Guests -> Written]
  BY TypeOf DEF SafetyInv, UpdateGuestAttendance, Fits, Request, NullOr
<1>1. CASE Stop(t, "invalidMembers")
  BY <1>1, GoodStop DEF Replies
<1>2. ASSUME Matches(t, p), ~RowBusy(t, p)
      PROVE  /\ row \in GuestRow /\ Listed(p) /\ row.group = guest[p].group
             /\ RowMade("answer", req[t], p, row)
  <2>1. /\ row \in GuestRow /\ row.group = guest[p].group /\ row.added = guest[p].added
        /\ row.attending = (IF p \in req[t].yes THEN "yes" ELSE "no")
        /\ Listed(p) /\ guest[p].group = req[t].group
    BY <1>2 DEF Matches, Listed, GuestRow, Answers
  <2> HIDE DEF row
  <2> QED
    BY <2>1, ConstantsAssumption DEF RowMade, PlaceMade
<1>3. CASE Matches(t, p) /\ ~RowBusy(t, p) /\ req[t].rows = {} /\ Commit(t, w, {}, "done")
  <2>1. /\ w \in [Guests -> Written] /\ w[p] = row
        /\ \A q \in Guests : q # p => w[q] = wrote[t][q]
    BY <1>0, <1>2, <1>3 DEF Written, NullOr
  <2>2. row.group = guest[p].group /\ Listed(p)
    BY <1>2, <1>3
  <2>3. CommitMade(t, wrote[t])
    BY <1>0, OwnRowsMade
  <2>4. RowMade("answer", req[t], p, row) /\ row # Null
    BY <1>2, <1>3, NullApart
  <2> HIDE DEF w, row
  <2>e. EntersFreely(t, p, row)
    BY <1>0, <2>2 DEF EntersFreely, Members, Listed
  <2>5. CommitMade(t, w)
    BY <1>0, <1>3, <2>1, <2>e, <2>3, <2>4 DEF CommitMade
  <2>6. CommitWhole(t, w)
    BY <1>0, <1>3, <2>1, <2>4 DEF CommitWhole, AnswersOf
  <2> QED
    BY <1>0, <1>3, <2>1, <2>5, <2>6, GoodCommit DEF Replies
<1>4. CASE /\ Matches(t, p) /\ ~RowBusy(t, p)
           /\ Visit(t, "answer", req[t], req[t].rows)
           /\ wrote' = [wrote EXCEPT ![t] = w]
           /\ UNCHANGED <<tables, held, history>>
  <2>1. PICK q \in req[t].rows :
          GoTo(t, "answer", [req[t] EXCEPT !.next = q, !.rows = req[t].rows \ {q}])
    BY <1>4 DEF Visit
  <2> DEFINE r == [req[t] EXCEPT !.next = q, !.rows = req[t].rows \ {q}]
  <2>2. Same(r, req[t])
    BY <1>0, VisitSame
  <2>3. GoTo(t, "answer", r)
    BY <2>1
  <2>4. RowMade("answer", req[t], p, row)
    BY <1>2, <1>4
  <2>6. w[p] = row /\ \A x \in Guests : x # p => w[x] = wrote[t][x]
    BY <1>0
  <2> HIDE DEF r, row, w
  <2>5. RowMade("answer", r, p, w[p])
    BY <2>2, <2>4, <2>6 DEF RowMade, PlaceMade, Same
  <2>7. held' = [held EXCEPT ![t] = held[t] \cup {}]
    BY <1>4, KeepsHolding DEF SafetyInv
  <2>8. Onward(t, "answer", r, {}, p, w)
    BY <1>0, <1>4, <2>2, <2>3, <2>5, <2>6, <2>7 DEF Onward, tables, history
  <2> QED
    BY <2>8, GoodOnward
<1> QED
  BY <1>1, <1>3, <1>4 DEF UpdateGuestAttendance

-----------------------------------------------------------------------------
\* What the couple's requests do.

LEMMA GoodInsertGuest ==
  ASSUME SafetyInv, GatherInv, NEW t \in Handlers, InsertGuest(t)
  PROVE  Good
<1> DEFINE g   == req[t].group
           row == NewRow(g, TRUE)
<1>0. pc[t] = "insert" /\ g \in Groups
  BY TypeOf DEF SafetyInv, InsertGuest, Fits, Request, NullOr
<1>1. CASE Start(t, "drop", req[t])
  BY <1>0, <1>1, GoodStartOnward DEF Same
<1>2. ASSUME ~Exclusive(t, g), NEW p \in Guests, guest[p] = Absent,
             Commit(t, [wrote[t] EXCEPT ![p] = row], {}, "done")
      PROVE  Good
  <2>1. row \in GuestRow /\ row.group = g /\ ~row.added
    BY <1>0 DEF NewRow, GuestRow, Answers
  <2>2. ~RowBusy(t, p)
    BY <1>2, ConstantsAssumption DEF SafetyInv, RowLocks, RowBusy, Listed
  <2> HIDE DEF row
  <2>3. EntersFreely(t, p, row) /\ NewcomerRow(p, row) /\ row \in Written
    BY <1>2, <2>1 DEF EntersFreely, NewcomerRow, Written, NullOr
  <2>4. "done" \in Replies
    BY DEF Replies
  <2> QED
    BY <1>0, <1>2, <2>2, <2>3, <2>4, GoodCommitRow
<1> QED
  BY <1>1, <1>2 DEF InsertGuest

LEMMA GoodDeleteGuestRow ==
  ASSUME SafetyInv, GatherInv, NEW t \in Handlers, DeleteGuestRow(t)
  PROVE  Good
<1>0. pc[t] = "delete" /\ req[t].guest \in Guests
  BY TypeOf DEF SafetyInv, DeleteGuestRow, Fits, Request, NullOr
<1>1. CASE Stop(t, "notFound")
  BY <1>1, GoodStop DEF Replies
<1>2. CASE Write(t, req[t].guest, Gone, "drop", req[t])
  <2>1. RowMade("drop", req[t], req[t].guest, Gone)
    BY <1>0, RowGone
  <2> QED
    BY <1>0, <1>2, <2>1, GoodWrite
<1> QED
  BY <1>1, <1>2 DEF DeleteGuestRow

\* A request that goes on visiting rows, having written one or none.
LEMMA GoodVisitOn ==
  ASSUME SafetyInv, GatherInv, NEW t \in Handlers, NEW at \in {"primary", "cascade"},
         pc[t] \in {at, "dropGroup"}, NEW p, NEW w,
         \A q \in Guests : q # p => w[q] = wrote[t][q], p \in Guests => RowMade(at, req[t], p, w[p]),
         NEW rows, Visit(t, at, req[t], rows), NEW more,
         wrote' = [wrote EXCEPT ![t] = w], held' = [held EXCEPT ![t] = held[t] \cup more],
         UNCHANGED <<tables, history>>
  PROVE  Good
<1>1. PICK q \in rows : GoTo(t, at, [req[t] EXCEPT !.next = q, !.rows = rows \ {q}])
  BY DEF Visit
<1> DEFINE r == [req[t] EXCEPT !.next = q, !.rows = rows \ {q}]
<1>2. req[t] \in Request
  BY TypeOf DEF SafetyInv
<1>3. Same(r, req[t])
  BY <1>2, VisitSame
<1>4. GoTo(t, at, r)
  BY <1>1
<1> HIDE DEF r
<1>5. p \in Guests => RowMade(at, r, p, w[p])
  BY <1>3 DEF RowMade, PlaceMade, Same
<1>6. Onward(t, at, r, more, p, w)
  BY <1>3, <1>4, <1>5 DEF Onward, tables, history
<1> QED
  BY <1>6, GoodOnward

LEMMA GoodSetGroupPrimary ==
  ASSUME SafetyInv, GatherInv, NEW t \in Handlers, SetGroupPrimary(t)
  PROVE  Good
<1> DEFINE p   == req[t].next
           row == [guest[p] EXCEPT !.primary = p = req[t].guest]
           w   == [wrote[t] EXCEPT ![p] = row]
<1>0. /\ pc[t] = "primary" /\ p \in Guests /\ wrote[t] \in [Guests -> Written] /\ ~RowBusy(t, p)
  BY TypeOf DEF SetGroupPrimary, SafetyInv, Fits, Request, NullOr
<1>1. ASSUME held' = held PROVE held' = [held EXCEPT ![t] = held[t] \cup {}]
  BY <1>1, KeepsHolding DEF SafetyInv
<1>2. CASE ~Matches(t, p)
  <2>1. CASE \E what \in {"notFound", "done"} : Commit(t, wrote[t], {}, what)
    BY <1>0, <2>1, GoodCommitWritten DEF Replies
  <2>2. CASE /\ Visit(t, "primary", req[t], req[t].rows)
             /\ wrote' = [wrote EXCEPT ![t] = wrote[t]]
             /\ UNCHANGED <<tables, held, history>>
    <3>1. RowMade("primary", req[t], p, wrote[t][p])
      BY <1>0 DEF GatherInv, RowsMade
    <3> QED
      BY <1>0, <1>1, <2>2, <3>1, GoodVisitOn
  <2> QED
    BY <1>2, <2>1, <2>2 DEF SetGroupPrimary
<1>3. CASE Matches(t, p)
  <2>1. /\ Listed(p) /\ row \in GuestRow /\ row.group = guest[p].group
        /\ row.added = guest[p].added /\ row.attending = guest[p].attending
    BY <1>3 DEF Matches, Listed, GuestRow
  <2>2. w[p] = row /\ \A q \in Guests : q # p => w[q] = wrote[t][q]
    BY <1>0
  <2>3. \E what \in {"notFound", "done"} :
          \/ Commit(t, w, {}, what)
          \/ /\ Visit(t, "primary", req[t], req[t].rows)
             /\ wrote' = [wrote EXCEPT ![t] = w]
             /\ UNCHANGED <<tables, held, history>>
    BY <1>3 DEF SetGroupPrimary
  <2> HIDE DEF row
  <2>4. RowMade("primary", req[t], p, row) /\ EntersFreely(t, p, row)
    BY <1>0, <2>1, RowInPlace
  <2>5. ASSUME NEW what \in {"notFound", "done"}, Commit(t, w, {}, what) PROVE Good
    <3>1. what \in Replies /\ row \in Written
      BY <2>1, <2>5 DEF Replies, Written, NullOr
    <3> QED
      BY <1>0, <2>4, <2>5, <3>1, GoodCommitRow
  <2>6. CASE /\ Visit(t, "primary", req[t], req[t].rows)
             /\ wrote' = [wrote EXCEPT ![t] = w]
             /\ UNCHANGED <<tables, held, history>>
    <3> HIDE DEF w
    <3> QED
      BY <1>0, <1>1, <2>2, <2>4, <2>6, GoodVisitOn
  <2> QED
    BY <2>3, <2>5, <2>6
<1> QED
  BY <1>2, <1>3

LEMMA GoodMoveGuestHome ==
  ASSUME SafetyInv, GatherInv, NEW t \in Handlers, MoveGuestHome(t)
  PROVE  Good
<1> DEFINE p   == req[t].guest
           row == [guest[p] EXCEPT !.group = req[t].home, !.primary = TRUE]
<1>0. pc[t] = "detach" /\ p \in Guests
  BY TypeOf DEF SafetyInv, MoveGuestHome, Fits, Request, NullOr
<1>1. CASE Stop(t, "notFound")
  BY <1>1, GoodStop DEF Replies
<1>2. CASE Listed(p) /\ Write(t, p, row, "ensure", req[t])
  <2>1. row.group = req[t].home /\ row.added = guest[p].added /\ row.attending = guest[p].attending
    BY <1>2 DEF Listed, GuestRow
  <2>2. "detach" \in Ops
    BY <1>0 DEF GatherInv, StepsMade, StepMade
  <2> HIDE DEF row
  <2>3. RowMade("ensure", req[t], p, row)
    BY <1>2, <2>1, <2>2 DEF RowMade, PlaceMade
  <2> QED
    BY <1>0, <1>2, <2>3, GoodWrite
<1> QED
  BY <1>1, <1>2 DEF MoveGuestHome

LEMMA GoodEnsurePrimary ==
  ASSUME SafetyInv, GatherInv, NEW t \in Handlers, EnsureGroupHasPrimary(t)
  PROVE  Good
<1>0. pc[t] = "ensure" /\ req[t] \in Request
  BY TypeOf DEF EnsureGroupHasPrimary, SafetyInv
<1>1. CASE Commit(t, wrote[t], {}, "done")
  BY <1>0, <1>1, GoodCommitWritten DEF Replies
<1>2. ASSUME NEW first, GoTo(t, "ensureWrite", [req[t] EXCEPT !.next = first]),
             UNCHANGED <<tables, locks, history>>
      PROVE  Good
  <2> DEFINE r == [req[t] EXCEPT !.next = first]
  <2>1. Same(r, req[t]) /\ Start(t, "ensureWrite", r)
    BY <1>0, <1>2, VisitSame DEF Start
  <2> HIDE DEF r
  <2> QED
    BY <1>0, <2>1, GoodStartOnward
<1> QED
  BY <1>1, <1>2 DEF EnsureGroupHasPrimary

LEMMA GoodMakePrimary ==
  ASSUME SafetyInv, GatherInv, NEW t \in Handlers, MakePrimary(t)
  PROVE  Good
<1> DEFINE p   == req[t].next
           row == [guest[p] EXCEPT !.primary = TRUE]
<1>0. pc[t] = "ensureWrite" /\ p \in Guests /\ ~RowBusy(t, p) /\ "done" \in Replies
  BY TypeOf DEF MakePrimary, SafetyInv, Fits, Request, NullOr, Replies
<1>1. CASE ~Listed(p)
  BY <1>0, <1>1, GoodCommitWritten DEF MakePrimary
<1>2. CASE Listed(p)
  <2>1. /\ row \in GuestRow /\ row.group = guest[p].group
        /\ row.added = guest[p].added /\ row.attending = guest[p].attending
    BY <1>2 DEF Listed, GuestRow
  <2>2. Commit(t, [wrote[t] EXCEPT ![p] = row], {}, "done")
    BY <1>2 DEF MakePrimary
  <2> HIDE DEF row
  <2>3. /\ RowMade("ensureWrite", req[t], p, row) /\ EntersFreely(t, p, row)
        /\ row \in Written
    BY <1>0, <1>2, <2>1, RowInPlace DEF Written, NullOr
  <2> QED
    BY <1>0, <2>2, <2>3, GoodCommitRow
<1> QED
  BY <1>1, <1>2

LEMMA GoodMoveAsAdmin ==
  ASSUME SafetyInv, GatherInv, NEW t \in Handlers, MoveGuestToGroupAsAdmin(t)
  PROVE  Good
<1> DEFINE p   == req[t].guest
           row == [guest[p] EXCEPT !.group = req[t].group, !.primary = FALSE]
           at  == IF guest[p].group = req[t].group THEN "drop" ELSE "reference"
<1>0. pc[t] = "merge" /\ p \in Guests /\ at \in {"drop", "reference"}
  BY TypeOf DEF SafetyInv, MoveGuestToGroupAsAdmin, Fits, Request, NullOr
<1>1. CASE Stop(t, "notFound")
  BY <1>1, GoodStop DEF Replies
<1>2. CASE Listed(p) /\ Write(t, p, row, at, req[t])
  <2>1. row.attending = guest[p].attending
    BY <1>2 DEF Listed, GuestRow
  <2>2. "merge" \in Ops
    BY <1>0 DEF GatherInv, StepsMade, StepMade
  <2> HIDE DEF row, at
  <2>3. RowMade(at, req[t], p, row)
    BY <1>0, <1>2, <2>1, <2>2, ConstantsAssumption DEF RowMade, PlaceMade
  <2> QED
    BY <1>0, <1>2, <2>3, GoodWrite
<1> QED
  BY <1>1, <1>2 DEF MoveGuestToGroupAsAdmin

LEMMA GoodCheckReference ==
  ASSUME SafetyInv, GatherInv, NEW t \in Handlers, CheckReference(t)
  PROVE  Good
<1>1. CASE Stop(t, "failed")
  BY <1>1, GoodStop DEF Replies
<1>2. CASE pc[t] = "reference" /\ Start(t, "drop", req[t])
  BY <1>2, GoodStartOnward DEF Same
<1> QED
  BY <1>1, <1>2 DEF CheckReference

LEMMA GoodDropScan ==
  ASSUME SafetyInv, GatherInv, NEW t \in Handlers, DropScan(t)
  PROVE  Good
<1>1. CASE pc[t] = "drop" /\ Start(t, "dropGroup", req[t])
  BY <1>1, GoodStartOnward DEF Same
<1>2. CASE /\ pc[t] = "drop"
           /\ Commit(t, wrote[t], {}, IF req[t].op = "create" THEN "nameTaken" ELSE "done")
  BY <1>2, GoodCommitWritten DEF Replies
<1> QED
  BY <1>1, <1>2 DEF DropScan

LEMMA GoodDropGroup ==
  ASSUME SafetyInv, GatherInv, NEW t \in Handlers, DropGroup(t)
  PROVE  Good
<1> DEFINE from == req[t].from
           what == IF req[t].op = "create" THEN "nameTaken" ELSE "done"
<1>0. pc[t] = "dropGroup" /\ what \in Replies
  BY DEF DropGroup, Replies
<1>1. CASE \E dropped : Commit(t, wrote[t], dropped, what)
  BY <1>0, <1>1, GoodCommitWritten
<1>2. CASE /\ held' = [held EXCEPT ![t] = @ \cup {from}]
           /\ Visit(t, "cascade", req[t], MembersSeen(t, from))
           /\ UNCHANGED <<tables, wrote, history>>
  <2>1. wrote' = [wrote EXCEPT ![t] = wrote[t]] /\ held' = [held EXCEPT ![t] = held[t] \cup {from}]
    BY <1>2, KeepsWritten DEF SafetyInv, TypeOK, LocksOK
  <2>2. PICK p : p \notin Guests
    BY NullApart
  <2> QED
    BY <1>0, <1>2, <2>1, <2>2, GoodVisitOn
<1> QED
  BY <1>1, <1>2 DEF DropGroup

LEMMA GoodCascade ==
  ASSUME SafetyInv, GatherInv, NEW t \in Handlers, Cascade(t)
  PROVE  Good
<1> DEFINE from == req[t].from
           p    == req[t].next
           row  == IF p \in MembersSeen(t, from) THEN Gone ELSE wrote[t][p]
           w    == [wrote[t] EXCEPT ![p] = row]
           what == IF req[t].op = "create" THEN "nameTaken" ELSE "done"
<1>0. /\ pc[t] = "cascade" /\ ~RowBusy(t, p) /\ p \in Guests /\ what \in Replies
      /\ wrote[t] \in [Guests -> Written]
  BY TypeOf DEF Cascade, SafetyInv, Fits, Request, NullOr, Replies
<1>1. /\ w[p] = row /\ row \in Written
      /\ \A q \in Guests : q # p => w[q] = wrote[t][q]
  BY <1>0 DEF Written, NullOr
<1>2. \/ Commit(t, w, {from}, what)
      \/ /\ Visit(t, "cascade", req[t], req[t].rows)
         /\ wrote' = [wrote EXCEPT ![t] = w]
         /\ UNCHANGED <<tables, held, history>>
  BY <1>0 DEF Cascade
<1>3. CommitMade(t, wrote[t])
  BY <1>0, OwnRowsMade
<1>4. RowMade("cascade", req[t], p, row) /\ EntersFreely(t, p, row)
  <2>1. CASE p \in MembersSeen(t, from)
    BY <1>0, <2>1, RowGone
  <2>2. CASE p \notin MembersSeen(t, from)
    <3>1. RowMade("cascade", req[t], p, wrote[t][p])
      BY <1>0 DEF GatherInv, RowsMade
    <3> QED BY <1>0, <1>3, <2>2, <3>1 DEF CommitMade
  <2> QED BY <2>1, <2>2
<1> HIDE DEF row
<1>5. CASE Commit(t, w, {from}, what)
  <2> HIDE DEF what
  <2> QED BY <1>0, <1>1, <1>4, <1>5, GoodCommitRow
<1>6. CASE /\ Visit(t, "cascade", req[t], req[t].rows)
           /\ wrote' = [wrote EXCEPT ![t] = w]
           /\ UNCHANGED <<tables, held, history>>
  <2>1. held' = [held EXCEPT ![t] = held[t] \cup {}]
    BY <1>6, KeepsHolding DEF SafetyInv
  <2> HIDE DEF w
  <2> QED
    BY <1>0, <1>1, <1>4, <1>6, <2>1, GoodVisitOn
<1> QED
  BY <1>2, <1>5, <1>6

-----------------------------------------------------------------------------
\* Every step, and what follows.

LEMMA GatherNext == SafetyInv /\ GatherInv /\ [Next]_vars => Good
<1> SUFFICES ASSUME SafetyInv, GatherInv, [Next]_vars PROVE Good
  OBVIOUS
<1>1. CASE UNCHANGED vars
  BY <1>1, GatherSame, GoodStay DEF vars
<1>2. ASSUME NEW t \in Handlers, Advance(t) PROVE Good
  BY <1>2, GoodLockGroup, GoodCountCompanions, GoodReadCompanion, GoodMoveGuest, GoodRestore,
     GoodUpdateAttendance, GoodInsertGuest, GoodDeleteGuestRow, GoodSetGroupPrimary,
     GoodMoveGuestHome, GoodEnsurePrimary, GoodMakePrimary, GoodMoveAsAdmin,
     GoodCheckReference, GoodDropScan, GoodDropGroup, GoodCascade DEF Advance
<1>3. ASSUME NEW t \in Handlers, Abort(t) PROVE Good
  BY <1>3, GoodStop DEF Abort, Replies
<1> QED
  BY <1>1, <1>2, <1>3, GoodBegin DEF Next

\* What a request that is on its way has checked, what its uncommitted rows may
\* say, and that invitations keep to their allowance and gathered guests are
\* those a guest chose: inductive together, next to SafetyInv.
THEOREM GatherInvariant == Spec => []GatherInv
<1>1. Init => GatherInv
  BY GatherInit
<1>2. SafetyInv /\ GatherInv /\ [Next]_vars => GatherInv'
  BY GatherNext DEF Good
<1> QED
  BY <1>1, <1>2, SafetyInvariant, PTL DEF Spec

\* Guests never gather more people into an invitation than its allowance,
\* whatever races (AddCompanion's count under the group's row lock).  A merge
\* moves gathered people without counting (MoveGuestToGroupAsAdmin keeps
\* added_by_guest): the promise is kept when none is requested.
THEOREM CeilingKept ==
  ASSUME "merge" \notin Ops
  PROVE  Spec => []CompanionCeiling
<1>1. GatherInv => CompanionCeiling
  BY DEF GatherInv, RoomKept, CompanionCeiling
<1> QED
  BY <1>1, GatherInvariant, PTL

\* Whom a guest sends home had their place chosen by a guest
\* (RestoreCompanionToOwnGroup's added_by_guest), as long as the couple moves
\* nobody: their moves keep added_by_guest.
THEOREM SentHomeJustified ==
  ASSUME Ops \cap {"merge", "detach"} = {}
  PROVE  Spec => OnlyGatheredSentHome
<1>1. SafetyInv /\ GatherInv /\ [Next]_vars =>
        [\A t \in Handlers, p \in Guests :
           pc[t] = "remove" /\ pc'[t] = "idle" /\ guest'[p] # guest[p] => p \in gathered]_vars
  BY GatherNext DEF Good, SentHomeGathered
<1> QED
  BY <1>1, SafetyInvariant, GatherInvariant, PTL DEF Spec, OnlyGatheredSentHome

\* An RSVP is all or nothing (UpdateAttendances): whoever's answer changes is
\* answered for by one submission, and with them everybody it names is on its
\* invitation and has the answer it gave, whatever else is requested meanwhile.
THEOREM SubmissionsWhole == Spec => SubmissionsAreWhole
<1>1. SafetyInv /\ GatherInv /\ [Next]_vars =>
        [\A p \in Guests :
           Listed(p) /\ guest'[p] \in GuestRow /\ guest'[p].attending # guest[p].attending =>
             \E t \in Handlers :
               /\ pc[t] = "answer"
               /\ p \in AnswersOf(t)
               /\ \A q \in AnswersOf(t) : /\ guest'[q] \in GuestRow
                                          /\ guest'[q].group = req[t].group
                                          /\ guest'[q].attending = AnswerGiven(t, q)]_vars
  BY GatherNext DEF Good, AnswersWhole
<1> QED
  BY <1>1, SafetyInvariant, GatherInvariant, PTL DEF Spec, SubmissionsAreWhole

-----------------------------------------------------------------------------
\* One request at a time: what holds then is what a test would see.  A request
\* that nobody disturbs finds the rows as it read them.

Alone == \A t, u \in Handlers : t = u

\* The importer leaves no invitation with two primaries.
ImportedHeads ==
  \A list \in Imports : \A p, q \in Guests :
    /\ list[p] \in GuestRow /\ list[p].primary
    /\ list[q] \in GuestRow /\ list[q].primary
    /\ list[p].group = list[q].group
    => p = q

\* p's row when w is written over the list, and an invitation's guests then.
RowOf(w, p) == IF w[p] = Null THEN guest[p] ELSE w[p]

Left(w, g) == {p \in Guests : RowOf(w, p) \in GuestRow /\ RowOf(w, p).group = g}

\* With w written, no invitation has two primaries.
OneHead(w) ==
  ImportedHeads =>
    \A p, q \in Guests :
      /\ RowOf(w, p) \in GuestRow /\ RowOf(w, p).primary
      /\ RowOf(w, q) \in GuestRow /\ RowOf(w, q).primary
      /\ RowOf(w, p).group = RowOf(w, q).group
      => p = q

\* Nobody is deleted but the guest the couple names.
OnlyNamedDeleted(r, w) == \A p \in Guests : w[p] = Gone => r.op = "delete" /\ p = r.guest

\* Whom a guest gathers in was alone, and is the only one whose row changes.
FromNobody(at, r, w) ==
  r.op = "add" =>
    /\ at \in {"lock", "count", "read", "move", "drop", "dropGroup"}
    /\ at \in {"move", "drop", "dropGroup"} => Members(guest[r.guest].group) = {r.guest}
    /\ \A p \in Guests : w[p] # Null => p = r.guest

\* SetGroupPrimary rewrites every row of the invitation, one after the other.
HeadChosen(r, w) ==
  /\ r.next \in Members(r.group) /\ r.rows \subseteq Members(r.group)
  /\ \A p \in Members(r.group) : p = r.next \/ p \in r.rows \/ w[p] # Null
  /\ \A p \in Guests :
       w[p] # Null => /\ w[p] \in GuestRow /\ w[p].group = r.group /\ p \in Members(r.group)
                      /\ w[p].primary => p = r.guest

\* What a request that nobody disturbs has in hand at at.
Undisturbed(at, r, w) ==
  /\ at # "cascade"
  /\ at = "dropGroup" => Left(w, r.from) = {}
  /\ at = "delete" => r.op = "delete"
  /\ at \in {"lock", "count", "read", "move", "remove", "insert", "delete", "detach"} => w = NoRows
  /\ at = "insert" => Members(r.group) = {}
  /\ at = "answer" => \A p \in Guests : w[p] # Null => /\ w[p] \in GuestRow
                                                      /\ w[p].group = guest[p].group
                                                      /\ w[p].primary = guest[p].primary
  /\ at = "ensure" => \A p \in Guests : w[p] # Null => w[p].primary
  /\ at = "ensureWrite" => /\ w[r.next] = Null /\ r.next \in Left(w, r.from)
                           /\ \A p \in Left(w, r.from) : ~RowOf(w, p).primary
  /\ OnlyNamedDeleted(r, w)
  /\ FromNobody(at, r, w)
  /\ IF at = "primary" THEN HeadChosen(r, w) ELSE OneHead(w)

AloneInv ==
  /\ NobodyLost
  /\ OneHead(NoRows)
  /\ \A t \in Handlers : pc[t] # "idle" => Undisturbed(pc[t], req[t], wrote[t])

\* What a step does to families.
FamilyKept ==
  \A t \in Handlers :
    pc[t] # "idle" /\ pc'[t] = "idle" /\ req[t].op = "add" =>
      \A p, q \in Guests :
        /\ p # q
        /\ Listed(p)
        /\ Listed(q)
        /\ guest[p].group = guest[q].group
        /\ guest'[p] # guest[p]
        => guest'[p] \in GuestRow /\ guest'[p].group = guest[p].group

Calm == AloneInv' /\ FamilyKept

LEMMA AloneInit == Init => AloneInv
<1> SUFFICES ASSUME Init PROVE AloneInv
  OBVIOUS
<1>1. NobodyLost
  <2>1. \A p \in Guests : guest[p] \in ImportedRow \cup {Absent}
    BY ConstantsAssumption DEF Init
  <2>2. ImportedRow \subseteq GuestRow
    BY DEF ImportedRow, GuestRow, Answers
  <2> QED
    BY <2>1, <2>2, ConstantsAssumption DEF NobodyLost
<1>2. OneHead(NoRows)
  BY NoRowsWritten DEF Init, OneHead, ImportedHeads, RowOf
<1> QED
  BY <1>1, <1>2 DEF Init, AloneInv

\* The shapes of a step.

LEMMA CalmGoesOn ==
  ASSUME TypeOK, Alone, AloneInv, NEW t \in Handlers, NEW at, NEW r, NEW w, GoTo(t, at, r),
         wrote' = [wrote EXCEPT ![t] = w], guest' = guest, uninvited' = uninvited,
         Undisturbed(at, r, w)
  PROVE  Calm
<1>1. pc'[t] = at /\ req'[t] = r /\ wrote'[t] = w
  BY DEF GoTo, TypeOK, RequestsOK, LocksOK
<1>2. NobodyLost' /\ OneHead(NoRows)'
  BY DEF AloneInv, NobodyLost, OneHead, RowOf
<1>3. Undisturbed(pc'[t], req'[t], wrote'[t])
  BY <1>1
<1>4. Undisturbed(pc[t], req[t], wrote[t])'
  BY <1>3 DEF Undisturbed, OnlyNamedDeleted, FromNobody, HeadChosen, OneHead, Left, RowOf, Members
<1>5. AloneInv'
  BY <1>2, <1>4 DEF AloneInv, Alone
<1> QED
  BY <1>5 DEF Calm, FamilyKept

LEMMA CalmOver ==
  ASSUME TypeOK, Alone, AloneInv, NEW t \in Handlers, pc'[t] = "idle", guest' = guest,
         uninvited' = uninvited
  PROVE  Calm
<1>1. NobodyLost' /\ OneHead(NoRows)'
  BY DEF AloneInv, NobodyLost, OneHead, RowOf
<1> QED
  BY <1>1 DEF Calm, FamilyKept, AloneInv, Alone

LEMMA CalmStop ==
  ASSUME SafetyInv, Alone, AloneInv, NEW t \in Handlers, NEW what, Stop(t, what)
  PROVE  Calm
<1>1. TypeOK /\ pc'[t] = "idle"
  BY DEF Stop, Done, SafetyInv, TypeOK, RequestsOK
<1> QED
  BY <1>1, CalmOver DEF Stop, history

LEMMA CalmAnswer ==
  ASSUME SafetyInv, Alone, AloneInv, NEW t \in Handlers, pc[t] = "idle", NEW what, Answer(t, what)
  PROVE  Calm
BY CalmOver DEF Answer, tables, history, SafetyInv

LEMMA CalmCommit ==
  ASSUME SafetyInv, Alone, AloneInv, NEW t \in Handlers, pc[t] # "idle",
         NEW w, NEW dropped, NEW what, Commit(t, w, dropped, what),
         OneHead(w), OnlyNamedDeleted(req[t], w),
         req[t].op = "add" => /\ Members(guest[req[t].guest].group) = {req[t].guest}
                              /\ \A p \in Guests : w[p] # Null => p = req[t].guest
  PROVE  Calm
<1>1. pc'[t] = "idle" /\ \A p \in Guests : guest'[p] = RowOf(w, p)
  BY DEF Commit, Done, RowOf, SafetyInv, TypeOK, RequestsOK
<1>2. NobodyLost'
  BY <1>1 DEF NobodyLost, AloneInv, Commit, RowOf, OnlyNamedDeleted
<1>3. OneHead(NoRows)'
  <2>1. \A p \in Guests : RowOf(NoRows, p)' = RowOf(w, p)
    BY <1>1, NoRowsWritten DEF RowOf
  <2> QED
    BY <2>1 DEF OneHead
<1>4. AloneInv'
  BY <1>1, <1>2, <1>3 DEF AloneInv, Alone
<1>5. FamilyKept
  <2> SUFFICES ASSUME req[t].op = "add", NEW p \in Guests, NEW q \in Guests, p # q,
                      Listed(p), Listed(q), guest[p].group = guest[q].group, guest'[p] # guest[p]
               PROVE  FALSE
    BY DEF FamilyKept, Alone
  <2>1. p = req[t].guest
    BY <1>1 DEF RowOf
  <2> QED
    BY <2>1 DEF Members, Listed
<1> QED
  BY <1>4, <1>5 DEF Calm

\* Writing one row more: nobody else heads where it makes a head.
LEMMA OneHeadRow ==
  ASSUME NEW v, OneHead(v), NEW w, NEW p \in Guests, w[p] # Null,
         \A q \in Guests : q # p => w[q] = v[q],
         w[p] \in GuestRow /\ w[p].primary =>
           \A q \in Guests : /\ q # p /\ RowOf(v, q) \in GuestRow
                             /\ RowOf(v, q).group = w[p].group
                             => ~RowOf(v, q).primary
  PROVE  OneHead(w)
BY DEF OneHead, RowOf

LEMMA OneHeadInPlace ==
  ASSUME OneHead(NoRows), NEW w,
         \A p \in Guests : w[p] # Null => /\ w[p] \in GuestRow /\ w[p].group = guest[p].group
                                          /\ w[p].primary = guest[p].primary /\ Listed(p)
  PROVE  OneHead(w)
<1>1. \A p \in Guests : RowOf(w, p) \in GuestRow /\ RowOf(w, p).primary =>
        /\ RowOf(NoRows, p) \in GuestRow /\ RowOf(NoRows, p).primary
        /\ RowOf(NoRows, p).group = RowOf(w, p).group
  BY NoRowsWritten DEF RowOf, Listed
<1> QED
  BY <1>1 DEF OneHead

\* A request starts with nothing written.
LEMMA CalmStart ==
  ASSUME SafetyInv, Alone, AloneInv, NEW t \in Handlers, pc[t] = "idle", NEW at, NEW r,
         at \in {"lock", "remove", "answer", "delete", "detach", "merge"},
         r.op = "add" => at = "lock", at = "delete" => r.op = "delete",
         GoTo(t, at, r), UNCHANGED <<guest, locks, history>>
  PROVE  Calm
<1>1. TypeOK /\ wrote' = [wrote EXCEPT ![t] = NoRows]
  BY TypeOf DEF SafetyInv, locks, TypeOK, LocksOK
<1>2. OneHead(NoRows)
  BY DEF AloneInv
<1>3. Undisturbed(at, r, NoRows)
  BY <1>2, NoRowsWritten, NullApart DEF Undisturbed, OnlyNamedDeleted, FromNobody
<1>4. guest' = guest /\ uninvited' = uninvited
  BY DEF history
<1> QED
  BY <1>1, <1>3, <1>4, CalmGoesOn

LEMMA CalmStartAt ==
  ASSUME SafetyInv, Alone, AloneInv, NEW t \in Handlers, pc[t] = "idle", NEW at, NEW r,
         at \in {"lock", "remove", "answer", "delete", "detach", "merge"},
         r.op = "add" => at = "lock", at = "delete" => r.op = "delete", Start(t, at, r)
  PROVE  Calm
BY CalmStart DEF Start, tables

LEMMA CalmStartWithHome ==
  ASSUME SafetyInv, Alone, AloneInv, NEW t \in Handlers, pc[t] = "idle", NEW at, NEW r \in Request,
         at \in {"remove", "detach"}, r.op # "add", StartWithHome(t, at, r)
  PROVE  Calm
<1>1. PICK g \in Groups : GoTo(t, at, [r EXCEPT !.home = g])
  BY DEF StartWithHome
<1> DEFINE s == [r EXCEPT !.home = g]
<1>2. s.op = r.op
  BY DEF Request
<1>3. GoTo(t, at, s) /\ UNCHANGED <<guest, locks, history>>
  BY <1>1 DEF StartWithHome
<1> HIDE DEF s
<1> QED
  BY <1>2, <1>3, CalmStart

LEMMA CalmSubmitRSVP ==
  ASSUME SafetyInv, Alone, AloneInv, NEW t \in Handlers, NEW g \in Groups,
         NEW rows \in SUBSET Guests, NEW yes \in SUBSET rows, SubmitRSVP(t, g, rows, yes)
  PROVE  Calm
<1> DEFINE r == [Carrying("rsvp", Null, g) EXCEPT !.yes = yes]
<1>1. CASE pc[t] = "idle" /\ \E what : Answer(t, what)
  BY <1>1, CalmAnswer
<1>2. CASE /\ pc[t] = "idle" /\ Visit(t, "answer", r, rows) /\ UNCHANGED <<tables, locks, history>>
  <2>1. PICK p \in rows : GoTo(t, "answer", [r EXCEPT !.next = p, !.rows = rows \ {p}])
    BY <1>2 DEF Visit
  <2> DEFINE s == [r EXCEPT !.next = p, !.rows = rows \ {p}]
  <2>2. s.op = "rsvp"
    BY DEF Carrying
  <2>3. GoTo(t, "answer", s) /\ UNCHANGED <<guest, locks, history>>
    BY <1>2, <2>1 DEF tables
  <2> HIDE DEF s
  <2> QED
    BY <1>2, <2>2, <2>3, CalmStart
<1> QED
  BY <1>1, <1>2 DEF SubmitRSVP

LEMMA CalmSetPrimary ==
  ASSUME SafetyInv, Alone, AloneInv, NEW t \in Handlers, NEW g \in Groups, NEW p \in Guests,
         SetPrimary(t, g, p)
  PROVE  Calm
<1> DEFINE r == Carrying("primary", p, g)
<1>1. CASE pc[t] = "idle" /\ \E what : Answer(t, what)
  BY <1>1, CalmAnswer
<1>2. CASE /\ pc[t] = "idle" /\ Visit(t, "primary", r, Members(g)) /\ UNCHANGED <<tables, locks, history>>
  <2>1. PICK q \in Members(g) : GoTo(t, "primary", [r EXCEPT !.next = q, !.rows = Members(g) \ {q}])
    BY <1>2 DEF Visit
  <2> DEFINE s == [r EXCEPT !.next = q, !.rows = Members(g) \ {q}]
  <2>2. s.op = "primary" /\ s.group = g /\ s.next = q /\ s.rows = Members(g) \ {q}
    BY DEF Carrying
  <2>3. GoTo(t, "primary", s)
    BY <2>1
  <2>4. /\ TypeOK /\ wrote' = [wrote EXCEPT ![t] = NoRows]
        /\ guest' = guest /\ uninvited' = uninvited
    BY <1>2, TypeOf DEF SafetyInv, locks, TypeOK, LocksOK, tables, history
  <2> HIDE DEF s
  <2>5. HeadChosen(s, NoRows)
    BY <2>2, NoRowsWritten DEF HeadChosen
  <2>6. Undisturbed("primary", s, NoRows)
    BY <2>2, <2>5, NoRowsWritten, NullApart DEF Undisturbed, OnlyNamedDeleted, FromNobody
  <2> QED
    BY <2>3, <2>4, <2>6, CalmGoesOn
<1> QED
  BY <1>1, <1>2 DEF SetPrimary

LEMMA CalmCreateGuestInto ==
  ASSUME SafetyInv, Alone, AloneInv, NEW t \in Handlers, NEW g \in Groups, NEW p \in Guests,
         CreateGuestInto(t, g, p)
  PROVE  Calm
<1>0. TypeOK /\ pc[t] = "idle"
  BY DEF SafetyInv, CreateGuestInto
<1>1. CASE \E what : Answer(t, what)
  BY <1>0, <1>1, CalmAnswer
<1>2. CASE /\ guest[p] = Absent
           /\ guest' = [guest EXCEPT ![p] = NewRow(g, FALSE)]
           /\ UNCHANGED <<group, locks, pc, req, history>>
  <2>1. /\ guest'[p] = NewRow(g, FALSE)
        /\ \A q \in Guests : q # p => guest'[q] = guest[q]
    BY <1>0, <1>2 DEF TypeOK, TablesOK
  <2>2. NewRow(g, FALSE) \in GuestRow /\ ~NewRow(g, FALSE).primary
    BY DEF NewRow, GuestRow, Answers
  <2>3. uninvited' = uninvited
    BY <1>2 DEF history
  <2>4. NobodyLost'
    BY <2>1, <2>2, <2>3, ConstantsAssumption DEF AloneInv, NobodyLost
  <2>5. OneHead(NoRows)'
    BY <2>1, <2>2, NoRowsWritten DEF AloneInv, OneHead, RowOf
  <2>6. \A u \in Handlers : pc'[u] = "idle"
    BY <1>0, <1>2 DEF Alone
  <2> QED
    BY <1>0, <2>4, <2>5, <2>6 DEF Calm, AloneInv, FamilyKept, Alone
<1> QED
  BY <1>1, <1>2 DEF CreateGuestInto

LEMMA CalmCreateGuestAlone ==
  ASSUME SafetyInv, Alone, AloneInv, NEW t \in Handlers, CreateGuestAlone(t)
  PROVE  Calm
<1>1. PICK g \in Groups : /\ group[g] = "unused"
                          /\ GoTo(t, "insert", [Carrying("create", Null, g) EXCEPT !.from = g])
  BY DEF CreateGuestAlone
<1> DEFINE r == [Carrying("create", Null, g) EXCEPT !.from = g]
<1>2. r.op = "create" /\ r.group = g
  BY DEF Carrying
<1>3. GoTo(t, "insert", r)
  BY <1>1
<1> HIDE DEF r
<1>4. Members(g) = {}
  BY <1>1 DEF SafetyInv, GuestHasInvitation, Members, Listed
<1>5. OneHead(NoRows)
  BY DEF AloneInv
<1>6. Undisturbed("insert", r, NoRows)
  BY <1>2, <1>4, <1>5, NoRowsWritten, NullApart DEF Undisturbed, OnlyNamedDeleted, FromNobody
<1>7. /\ TypeOK /\ wrote' = [wrote EXCEPT ![t] = NoRows]
      /\ guest' = guest /\ uninvited' = uninvited
  BY TypeOf DEF CreateGuestAlone, SafetyInv, locks, TypeOK, LocksOK, history
<1> QED
  BY <1>3, <1>6, <1>7, CalmGoesOn

LEMMA CalmBegin ==
  ASSUME SafetyInv, Alone, AloneInv, NEW t \in Handlers, Begin(t)
  PROVE  Calm
<1>0. TypeOK
  BY DEF SafetyInv
<1>1. ASSUME pc[t] = "idle", NEW what, Answer(t, what) PROVE Calm
  BY <1>1, CalmAnswer
<1>2. ASSUME NEW g \in Groups, NEW p \in Guests, AddCompanion(t, g, p) PROVE Calm
  <2>1. CASE pc[t] = "idle" /\ Start(t, "lock", Carrying("add", p, g))
    BY <2>1, CalmStartAt
  <2> QED BY <1>1, <1>2, <2>1 DEF AddCompanion
<1>3. ASSUME NEW g \in Groups, NEW p \in Guests, RemoveCompanion(t, g, p) PROVE Calm
  <2>1. CASE pc[t] = "idle" /\ StartWithHome(t, "remove", Carrying("remove", p, g))
    <3>1. Carrying("remove", p, g) \in Request /\ Carrying("remove", p, g).op = "remove"
      BY CarryingFits DEF AllOps, NullOr
    <3> QED BY <2>1, <3>1, CalmStartWithHome
  <2> QED BY <1>1, <1>3, <2>1 DEF RemoveCompanion
<1>4. ASSUME NEW g \in Groups, NEW p \in Guests, MergeIntoInvitation(t, g, p) PROVE Calm
  <2> DEFINE r == [Carrying("merge", p, g) EXCEPT !.from = guest[p].group]
  <2>1. CASE pc[t] = "idle" /\ Start(t, "merge", r)
    <3>1. r.op = "merge"
      BY DEF Carrying
    <3> HIDE DEF r
    <3> QED BY <2>1, <3>1, CalmStartAt
  <2> QED BY <1>1, <1>4, <2>1 DEF MergeIntoInvitation
<1>5. ASSUME NEW p \in Guests, DeleteGuest(t, p) PROVE Calm
  <2> DEFINE r == [Carrying("delete", p, Null) EXCEPT !.from = guest[p].group]
  <2>1. CASE pc[t] = "idle" /\ Start(t, "delete", r)
    <3>1. r.op = "delete"
      BY DEF Carrying
    <3> HIDE DEF r
    <3> QED BY <2>1, <3>1, CalmStartAt
  <2> QED BY <1>1, <1>5, <2>1 DEF DeleteGuest
<1>6. ASSUME NEW p \in Guests, DetachGuest(t, p) PROVE Calm
  <2> DEFINE r == [Carrying("detach", p, Null) EXCEPT !.from = guest[p].group]
  <2>1. CASE pc[t] = "idle" /\ Listed(p) /\ StartWithHome(t, "detach", r)
    <3>1. r \in Request /\ r.op = "detach"
      BY <1>0, <2>1, FromFits DEF AllOps, NullOr
    <3> HIDE DEF r
    <3> QED BY <2>1, <3>1, CalmStartWithHome
  <2> QED BY <1>1, <1>6, <2>1 DEF DetachGuest
<1> QED
  BY <1>2, <1>3, <1>4, <1>5, <1>6, CalmSubmitRSVP, CalmSetPrimary, CalmCreateGuestInto,
     CalmCreateGuestAlone DEF Begin, BeginGuests, BeginCouple

\* The later steps.

LEMMA UndisturbedNow ==
  ASSUME AloneInv, NEW t \in Handlers, pc[t] # "idle"
  PROVE  Undisturbed(pc[t], req[t], wrote[t])
BY DEF AloneInv

\* It goes on without writing.
LEMMA CalmOnward ==
  ASSUME SafetyInv, Alone, AloneInv, NEW t \in Handlers, NEW at, NEW r,
         GoTo(t, at, r), UNCHANGED <<guest, wrote, history>>, Undisturbed(at, r, wrote[t])
  PROVE  Calm
<1>1. TypeOK /\ wrote' = [wrote EXCEPT ![t] = wrote[t]] /\ guest' = guest /\ uninvited' = uninvited
  BY DEF SafetyInv, TypeOK, LocksOK, history
<1> QED
  BY <1>1, CalmGoesOn

\* It writes p and goes on.
LEMMA CalmWrite ==
  ASSUME SafetyInv, Alone, AloneInv, NEW t \in Handlers, NEW at, NEW p \in Guests, NEW row,
         Write(t, p, row, at, req[t]), Undisturbed(at, req[t], [wrote[t] EXCEPT ![p] = row])
  PROVE  Calm
<1> DEFINE w == [wrote[t] EXCEPT ![p] = row]
<1>1. /\ TypeOK /\ wrote' = [wrote EXCEPT ![t] = w]
      /\ guest' = guest /\ uninvited' = uninvited /\ GoTo(t, at, req[t])
  BY DEF Write, SafetyInv, TypeOK, LocksOK, tables, history
<1>2. Undisturbed(at, req[t], w)
  OBVIOUS
<1> HIDE DEF w
<1> QED
  BY <1>1, <1>2, CalmGoesOn

LEMMA CalmLockGroup ==
  ASSUME SafetyInv, Alone, AloneInv, NEW t \in Handlers, LockGroupForCompanion(t)
  PROVE  Calm
<1>1. CASE Stop(t, "notFound")
  BY <1>1, CalmStop
<1>2. CASE GoTo(t, "count", req[t]) /\ UNCHANGED <<tables, wrote, history>>
  <2>1. Undisturbed("lock", req[t], wrote[t])
    BY UndisturbedNow DEF LockGroupForCompanion
  <2>2. Undisturbed("count", req[t], wrote[t])
    BY <2>1 DEF Undisturbed, FromNobody
  <2> QED
    BY <1>2, <2>2, CalmOnward DEF tables
<1> QED
  BY <1>1, <1>2 DEF LockGroupForCompanion

LEMMA CalmCountCompanions ==
  ASSUME SafetyInv, Alone, AloneInv, NEW t \in Handlers, CountGroupCompanions(t)
  PROVE  Calm
<1>1. CASE Stop(t, "companionLimit")
  BY <1>1, CalmStop
<1>2. CASE Start(t, "read", req[t])
  <2>1. Undisturbed("count", req[t], wrote[t])
    BY UndisturbedNow DEF CountGroupCompanions
  <2>2. Undisturbed("read", req[t], wrote[t])
    BY <2>1 DEF Undisturbed, FromNobody
  <2> QED
    BY <1>2, <2>2, CalmOnward DEF Start, tables, locks
<1> QED
  BY <1>1, <1>2 DEF CountGroupCompanions

LEMMA CalmReadCompanion ==
  ASSUME SafetyInv, Alone, AloneInv, NEW t \in Handlers, ReadCompanion(t)
  PROVE  Calm
<1> DEFINE p == req[t].guest
           r == [req[t] EXCEPT !.from = guest[p].group]
<1>1. CASE \E what : Stop(t, what)
  BY <1>1, CalmStop
<1>2. CASE Members(guest[p].group) = {p} /\ Start(t, "move", r)
  <2>1. pc[t] = "read" /\ Undisturbed("read", req[t], wrote[t]) /\ req[t] \in Request
    BY UndisturbedNow, TypeOf DEF ReadCompanion, SafetyInv
  <2>2. r.op = req[t].op /\ r.guest = p
    BY <2>1 DEF Request
  <2>3. GoTo(t, "move", r) /\ UNCHANGED <<guest, wrote, history>>
    BY <1>2 DEF Start, tables, locks
  <2> HIDE DEF r
  <2>4. Undisturbed("move", r, wrote[t])
    BY <1>2, <2>1, <2>2 DEF Undisturbed, FromNobody, OnlyNamedDeleted
  <2> QED
    BY <2>3, <2>4, CalmOnward
<1> QED
  BY <1>1, <1>2 DEF ReadCompanion

LEMMA CalmMoveGuest ==
  ASSUME SafetyInv, Alone, AloneInv, NEW t \in Handlers, MoveGuestToGroup(t)
  PROVE  Calm
<1> DEFINE p   == req[t].guest
           row == [guest[p] EXCEPT !.group = req[t].group, !.primary = FALSE, !.added = TRUE]
           w   == [wrote[t] EXCEPT ![p] = row]
<1>0. /\ pc[t] = "move" /\ p \in Guests /\ Undisturbed("move", req[t], wrote[t])
      /\ req[t].group \in Groups /\ wrote[t] \in [Guests -> Written]
  BY TypeOf, UndisturbedNow DEF SafetyInv, MoveGuestToGroup, Fits, Request, NullOr
<1>1. CASE Stop(t, "notFound")
  BY <1>1, CalmStop
<1>2. CASE Listed(p) /\ Write(t, p, row, "drop", req[t])
  <2>1. row \in GuestRow /\ ~row.primary
    BY <1>0, <1>2 DEF Listed, GuestRow
  <2>2. w[p] = row /\ \A q \in Guests : q # p => w[q] = wrote[t][q] /\ w[q] = Null
    BY <1>0, NoRowsWritten DEF Undisturbed
  <2> HIDE DEF row, w
  <2>3. OneHead(w)
    BY <1>0, <2>1, <2>2, NullApart, OneHeadRow DEF Undisturbed
  <2>4. OnlyNamedDeleted(req[t], w)
    BY <2>1, <2>2, NullApart, ConstantsAssumption DEF OnlyNamedDeleted
  <2>5. FromNobody("drop", req[t], w)
    BY <1>0, <2>2 DEF Undisturbed, FromNobody
  <2>6. Undisturbed("drop", req[t], w)
    BY <2>3, <2>4, <2>5 DEF Undisturbed
  <2> QED
    BY <1>0, <1>2, <2>6, CalmWrite DEF w
<1> QED
  BY <1>1, <1>2 DEF MoveGuestToGroup

LEMMA CalmRestore ==
  ASSUME SafetyInv, Alone, AloneInv, NEW t \in Handlers, RestoreCompanionToOwnGroup(t)
  PROVE  Calm
<1> DEFINE p   == req[t].guest
           row == [guest[p] EXCEPT !.group = req[t].home, !.primary = TRUE, !.added = FALSE]
           w   == [wrote[t] EXCEPT ![p] = row]
<1>0. /\ pc[t] = "remove" /\ p \in Guests /\ Undisturbed("remove", req[t], wrote[t])
      /\ req[t].home \in Groups /\ wrote[t] \in [Guests -> Written]
  BY TypeOf, UndisturbedNow DEF SafetyInv, RestoreCompanionToOwnGroup, Fits, Request, NullOr
<1>1. CASE Stop(t, "notRemovable")
  BY <1>1, CalmStop
<1>2. CASE Removable(t) /\ Commit(t, w, {}, "done")
  <2>1. row \in GuestRow /\ row.group = req[t].home
    BY <1>0, <1>2 DEF Removable, Listed, GuestRow
  <2>2. w[p] = row /\ \A q \in Guests : q # p => w[q] = wrote[t][q] /\ w[q] = Null
    BY <1>0, NoRowsWritten DEF Undisturbed
  <2>3. \A q \in Guests : RowOf(wrote[t], q) \in GuestRow => RowOf(wrote[t], q).group # req[t].home
    BY <1>0, NullApart, NoRowsWritten
       DEF Undisturbed, RowOf, SafetyInv, HomeReserved, GuestHasInvitation, Listed
  <2> HIDE DEF row, w
  <2>4. OneHead(w)
    BY <1>0, <2>1, <2>2, <2>3, NullApart, OneHeadRow DEF Undisturbed
  <2>5. OnlyNamedDeleted(req[t], w)
    BY <2>1, <2>2, NullApart, ConstantsAssumption DEF OnlyNamedDeleted
  <2>6. req[t].op # "add"
    BY <1>0 DEF Undisturbed, FromNobody
  <2> QED
    BY <1>0, <1>2, <2>4, <2>5, <2>6, CalmCommit
<1> QED
  BY <1>1, <1>2 DEF RestoreCompanionToOwnGroup

LEMMA CalmUpdateAttendance ==
  ASSUME SafetyInv, Alone, AloneInv, NEW t \in Handlers, UpdateGuestAttendance(t)
  PROVE  Calm
<1> DEFINE p   == req[t].next
           row == [guest[p] EXCEPT !.attending = IF p \in req[t].yes THEN "yes" ELSE "no"]
           w   == [wrote[t] EXCEPT ![p] = row]
<1>0. /\ pc[t] = "answer" /\ p \in Guests /\ Undisturbed("answer", req[t], wrote[t])
      /\ req[t] \in Request /\ wrote[t] \in [Guests -> Written]
  BY TypeOf, UndisturbedNow DEF SafetyInv, UpdateGuestAttendance, Fits, Request, NullOr
<1>1. CASE Stop(t, "invalidMembers")
  BY <1>1, CalmStop
<1>2. CASE /\ Matches(t, p)
           /\ \/ Commit(t, w, {}, "done")
              \/ /\ Visit(t, "answer", req[t], req[t].rows)
                 /\ wrote' = [wrote EXCEPT ![t] = w]
                 /\ UNCHANGED <<tables, held, history>>
  <2>1. /\ row \in GuestRow /\ row.group = guest[p].group /\ row.primary = guest[p].primary
        /\ Listed(p)
    BY <1>2 DEF Matches, Listed, GuestRow, Answers
  <2>2. w[p] = row /\ \A q \in Guests : q # p => w[q] = wrote[t][q]
    BY <1>0
  <2> HIDE DEF row
  <2>3. \A q \in Guests : w[q] # Null => /\ w[q] \in GuestRow /\ w[q].group = guest[q].group
                                         /\ w[q].primary = guest[q].primary /\ Listed(q)
    BY <1>0, <2>1, <2>2, NullApart DEF Undisturbed, SafetyInv, RowLocks
  <2>4. req[t].op # "add"
    BY <1>0 DEF Undisturbed, FromNobody
  <2>5. CASE Commit(t, w, {}, "done")
    <3> HIDE DEF w
    <3>1. OneHead(w)
      BY <2>3, OneHeadInPlace DEF AloneInv
    <3>2. OnlyNamedDeleted(req[t], w)
      BY <2>3, NullApart, ConstantsAssumption DEF OnlyNamedDeleted
    <3> QED
      BY <1>0, <2>4, <2>5, <3>1, <3>2, CalmCommit
  <2>6. CASE /\ Visit(t, "answer", req[t], req[t].rows)
             /\ wrote' = [wrote EXCEPT ![t] = w]
             /\ UNCHANGED <<tables, held, history>>
    <3>1. PICK q \in req[t].rows :
            GoTo(t, "answer", [req[t] EXCEPT !.next = q, !.rows = req[t].rows \ {q}])
      BY <2>6 DEF Visit
    <3> DEFINE r == [req[t] EXCEPT !.next = q, !.rows = req[t].rows \ {q}]
    <3>2. Same(r, req[t])
      BY <1>0, VisitSame
    <3>3. GoTo(t, "answer", r) /\ guest' = guest /\ uninvited' = uninvited /\ TypeOK
      BY <2>6, <3>1 DEF tables, history, SafetyInv
    <3> HIDE DEF r, w
    <3>4. OneHead(w)
      BY <2>3, OneHeadInPlace DEF AloneInv
    <3>5. OnlyNamedDeleted(r, w)
      BY <2>3, NullApart, ConstantsAssumption DEF OnlyNamedDeleted
    <3>6. Undisturbed("answer", r, w)
      BY <2>3, <2>4, <3>2, <3>4, <3>5 DEF Undisturbed, FromNobody, Same
    <3> QED
      BY <2>6, <3>3, <3>6, CalmGoesOn
  <2> QED
    BY <1>2, <2>5, <2>6
<1> QED
  BY <1>1, <1>2 DEF UpdateGuestAttendance

LEMMA CalmInsertGuest ==
  ASSUME SafetyInv, Alone, AloneInv, NEW t \in Handlers, InsertGuest(t)
  PROVE  Calm
<1> DEFINE g   == req[t].group
           row == NewRow(g, TRUE)
<1>0. /\ pc[t] = "insert" /\ Undisturbed("insert", req[t], wrote[t]) /\ g \in Groups
      /\ wrote[t] \in [Guests -> Written]
  BY TypeOf, UndisturbedNow DEF SafetyInv, InsertGuest, Fits, Request, NullOr
<1>1. req[t].op # "add"
  BY <1>0 DEF Undisturbed, FromNobody
<1>2. CASE Start(t, "drop", req[t])
  <2>1. Undisturbed("drop", req[t], wrote[t])
    BY <1>0, <1>1 DEF Undisturbed, FromNobody
  <2> QED
    BY <1>2, <2>1, CalmOnward DEF Start, tables, locks
<1>3. ASSUME NEW p \in Guests, Commit(t, [wrote[t] EXCEPT ![p] = row], {}, "done")
      PROVE  Calm
  <2> DEFINE w == [wrote[t] EXCEPT ![p] = row]
  <2>1. row \in GuestRow /\ row.group = g
    BY <1>0 DEF NewRow, GuestRow, Answers
  <2>2. w[p] = row /\ \A q \in Guests : q # p => w[q] = wrote[t][q] /\ w[q] = Null
    BY <1>0, NoRowsWritten DEF Undisturbed
  <2>3. \A q \in Guests : RowOf(wrote[t], q) \in GuestRow => RowOf(wrote[t], q).group # g
    BY <1>0, NoRowsWritten DEF Undisturbed, RowOf, Members
  <2>4. Commit(t, w, {}, "done")
    BY <1>3
  <2> HIDE DEF row, w
  <2>5. OneHead(w)
    BY <1>0, <2>1, <2>2, <2>3, NullApart, OneHeadRow DEF Undisturbed
  <2>6. OnlyNamedDeleted(req[t], w)
    BY <2>1, <2>2, NullApart, ConstantsAssumption DEF OnlyNamedDeleted
  <2> QED
    BY <1>0, <1>1, <2>4, <2>5, <2>6, CalmCommit
<1> QED
  BY <1>2, <1>3 DEF InsertGuest

LEMMA CalmDeleteGuestRow ==
  ASSUME SafetyInv, Alone, AloneInv, NEW t \in Handlers, DeleteGuestRow(t)
  PROVE  Calm
<1> DEFINE p == req[t].guest
           w == [wrote[t] EXCEPT ![p] = Gone]
<1>0. /\ pc[t] = "delete" /\ Undisturbed("delete", req[t], wrote[t]) /\ p \in Guests
      /\ wrote[t] \in [Guests -> Written]
  BY TypeOf, UndisturbedNow DEF SafetyInv, DeleteGuestRow, Fits, Request, NullOr
<1>1. CASE Stop(t, "notFound")
  BY <1>1, CalmStop
<1>2. CASE Write(t, p, Gone, "drop", req[t])
  <2>1. w[p] = Gone /\ \A q \in Guests : q # p => w[q] = wrote[t][q] /\ w[q] = Null
    BY <1>0, NoRowsWritten DEF Undisturbed
  <2>2. req[t].op = "delete"
    BY <1>0 DEF Undisturbed
  <2> HIDE DEF w
  <2>3. OneHead(w)
    BY <1>0, <2>1, ConstantsAssumption, NullApart, OneHeadRow DEF Undisturbed
  <2>4. Undisturbed("drop", req[t], w)
    BY <1>0, <2>1, <2>2, <2>3, NullApart DEF Undisturbed, OnlyNamedDeleted, FromNobody
  <2> QED
    BY <1>0, <1>2, <2>4, CalmWrite DEF w
<1> QED
  BY <1>1, <1>2 DEF DeleteGuestRow

LEMMA CalmSetGroupPrimary ==
  ASSUME SafetyInv, Alone, AloneInv, NEW t \in Handlers, SetGroupPrimary(t)
  PROVE  Calm
<1> DEFINE p   == req[t].next
           row == [guest[p] EXCEPT !.primary = p = req[t].guest]
           w   == [wrote[t] EXCEPT ![p] = row]
<1>0. /\ pc[t] = "primary" /\ Undisturbed("primary", req[t], wrote[t]) /\ p \in Guests
      /\ req[t] \in Request /\ wrote[t] \in [Guests -> Written]
  BY TypeOf, UndisturbedNow DEF SafetyInv, SetGroupPrimary, Fits, Request, NullOr
<1>1. HeadChosen(req[t], wrote[t]) /\ req[t].op # "add"
  BY <1>0 DEF Undisturbed, FromNobody
<1>2. Matches(t, p)
  BY <1>1 DEF HeadChosen, Matches, Members, Listed
<1>3. /\ row \in GuestRow /\ row.group = req[t].group
      /\ row.primary => p = req[t].guest
      /\ p \in Members(req[t].group)
  BY <1>1, <1>2 DEF HeadChosen, Matches, Listed, GuestRow
<1>4. w[p] = row /\ \A q \in Guests : q # p => w[q] = wrote[t][q]
  BY <1>0
<1>5. \/ \E what : Commit(t, w, {}, what) /\ req[t].rows = {}
      \/ /\ Visit(t, "primary", req[t], req[t].rows)
         /\ wrote' = [wrote EXCEPT ![t] = w]
         /\ UNCHANGED <<tables, held, history>>
  BY <1>2 DEF SetGroupPrimary
<1> HIDE DEF row, w
<1>6. \A q \in Guests :
        w[q] # Null => /\ w[q] \in GuestRow /\ w[q].group = req[t].group
                       /\ q \in Members(req[t].group)
                       /\ w[q].primary => q = req[t].guest
  BY <1>1, <1>3, <1>4 DEF HeadChosen
<1>7. OnlyNamedDeleted(req[t], w)
  BY <1>6, NullApart, ConstantsAssumption DEF OnlyNamedDeleted
<1>8. ASSUME NEW what, Commit(t, w, {}, what), req[t].rows = {} PROVE Calm
  <2>1. \A q \in Members(req[t].group) : w[q] # Null
    BY <1>1, <1>3, <1>4, <1>8, NullApart DEF HeadChosen, Members
  <2>2. OneHead(w)
    <3> SUFFICES ASSUME ImportedHeads, NEW q \in Guests, NEW x \in Guests,
                        RowOf(w, q) \in GuestRow, RowOf(w, q).primary,
                        RowOf(w, x) \in GuestRow, RowOf(w, x).primary,
                        RowOf(w, q).group = RowOf(w, x).group
                 PROVE  q = x
      BY DEF OneHead
    <3>1. CASE RowOf(w, q).group = req[t].group
      <4>1. w[q] # Null /\ w[x] # Null
        BY <2>1, <3>1 DEF RowOf, Members
      <4> QED BY <1>6, <4>1 DEF RowOf
    <3>2. CASE RowOf(w, q).group # req[t].group
      <4>1. w[q] = Null /\ w[x] = Null
        BY <1>6, <3>2 DEF RowOf
      <4>2. OneHead(NoRows) /\ RowOf(NoRows, q) = RowOf(w, q) /\ RowOf(NoRows, x) = RowOf(w, x)
        BY <4>1, NoRowsWritten DEF RowOf, AloneInv
      <4> QED BY <4>2 DEF OneHead
    <3> QED BY <3>1, <3>2
  <2> QED
    BY <1>0, <1>1, <1>7, <1>8, <2>2, CalmCommit
<1>9. CASE /\ Visit(t, "primary", req[t], req[t].rows)
           /\ wrote' = [wrote EXCEPT ![t] = w]
           /\ UNCHANGED <<tables, held, history>>
  <2>1. PICK q \in req[t].rows :
          GoTo(t, "primary", [req[t] EXCEPT !.next = q, !.rows = req[t].rows \ {q}])
    BY <1>9 DEF Visit
  <2> DEFINE r == [req[t] EXCEPT !.next = q, !.rows = req[t].rows \ {q}]
  <2>2. Same(r, req[t]) /\ r.next = q /\ r.rows = req[t].rows \ {q}
    BY <1>0, VisitSame DEF Request
  <2>3. GoTo(t, "primary", r) /\ guest' = guest /\ uninvited' = uninvited /\ TypeOK
    BY <1>9, <2>1 DEF tables, history, SafetyInv
  <2> HIDE DEF r
  <2>4. r.op = req[t].op /\ r.guest = req[t].guest /\ r.group = req[t].group
    BY <2>2 DEF Same
  <2>5. /\ r.next \in Members(r.group) /\ r.rows \subseteq Members(r.group)
        /\ \A x \in Members(r.group) : x = r.next \/ x \in r.rows \/ w[x] # Null
    <3>1. \A x \in Members(req[t].group) : x \in Guests
      BY DEF Members
    <3> QED
      BY <1>1, <1>3, <1>4, <2>1, <2>2, <2>4, <3>1, NullApart DEF HeadChosen
  <2>6. HeadChosen(r, w)
    BY <1>6, <2>4, <2>5 DEF HeadChosen
  <2>7. Undisturbed("primary", r, w)
    BY <1>1, <1>7, <2>4, <2>6 DEF Undisturbed, OnlyNamedDeleted, FromNobody
  <2> QED
    BY <1>9, <2>3, <2>7, CalmGoesOn
<1> QED
  BY <1>5, <1>8, <1>9

LEMMA CalmMoveGuestHome ==
  ASSUME SafetyInv, Alone, AloneInv, NEW t \in Handlers, MoveGuestHome(t)
  PROVE  Calm
<1> DEFINE p   == req[t].guest
           row == [guest[p] EXCEPT !.group = req[t].home, !.primary = TRUE]
           w   == [wrote[t] EXCEPT ![p] = row]
<1>0. /\ pc[t] = "detach" /\ p \in Guests /\ Undisturbed("detach", req[t], wrote[t])
      /\ req[t].home \in Groups /\ wrote[t] \in [Guests -> Written]
  BY TypeOf, UndisturbedNow DEF SafetyInv, MoveGuestHome, Fits, Request, NullOr
<1>1. CASE Stop(t, "notFound")
  BY <1>1, CalmStop
<1>2. CASE Listed(p) /\ Write(t, p, row, "ensure", req[t])
  <2>1. row \in GuestRow /\ row.group = req[t].home /\ row.primary
    BY <1>0, <1>2 DEF Listed, GuestRow
  <2>2. w[p] = row /\ \A q \in Guests : q # p => w[q] = wrote[t][q] /\ w[q] = Null
    BY <1>0, NoRowsWritten DEF Undisturbed
  <2>3. \A q \in Guests : RowOf(wrote[t], q) \in GuestRow => RowOf(wrote[t], q).group # req[t].home
    BY <1>0, NullApart, NoRowsWritten
       DEF Undisturbed, RowOf, SafetyInv, HomeReserved, GuestHasInvitation, Listed
  <2> HIDE DEF row, w
  <2>4. OneHead(w)
    BY <1>0, <2>1, <2>2, <2>3, NullApart, OneHeadRow DEF Undisturbed
  <2>5. OnlyNamedDeleted(req[t], w)
    BY <2>1, <2>2, NullApart, ConstantsAssumption DEF OnlyNamedDeleted
  <2>6. Undisturbed("ensure", req[t], w)
    BY <1>0, <2>1, <2>2, <2>4, <2>5 DEF Undisturbed, FromNobody
  <2> QED
    BY <1>0, <1>2, <2>6, CalmWrite DEF w
<1> QED
  BY <1>1, <1>2 DEF MoveGuestHome

\* A request that commits what it has written.
LEMMA CalmCommitWritten ==
  ASSUME SafetyInv, Alone, AloneInv, NEW t \in Handlers, pc[t] \notin {"idle", "primary"},
         pc[t] \in {"drop", "dropGroup"} \/ req[t].op # "add",
         NEW dropped, NEW what, Commit(t, wrote[t], dropped, what)
  PROVE  Calm
<1>1. Undisturbed(pc[t], req[t], wrote[t])
  BY UndisturbedNow
<1>2. OneHead(wrote[t]) /\ OnlyNamedDeleted(req[t], wrote[t])
  BY <1>1 DEF Undisturbed
<1>3. req[t].op = "add" => /\ Members(guest[req[t].guest].group) = {req[t].guest}
                           /\ \A p \in Guests : wrote[t][p] # Null => p = req[t].guest
  BY <1>1 DEF Undisturbed, FromNobody
<1> QED
  BY <1>2, <1>3, CalmCommit

LEMMA CalmEnsurePrimary ==
  ASSUME SafetyInv, Alone, AloneInv, NEW t \in Handlers, EnsureGroupHasPrimary(t)
  PROVE  Calm
<1>0. /\ pc[t] = "ensure" /\ Undisturbed("ensure", req[t], wrote[t]) /\ req[t] \in Request
  BY TypeOf, UndisturbedNow DEF EnsureGroupHasPrimary, SafetyInv
<1>1. req[t].op # "add"
  BY <1>0 DEF Undisturbed, FromNobody
<1>2. CASE Commit(t, wrote[t], {}, "done")
  BY <1>0, <1>1, <1>2, CalmCommitWritten
<1>3. \A g : MembersSeen(t, g) = Left(wrote[t], g)
  BY DEF MembersSeen, Sees, Left, RowOf
<1>4. ASSUME NEW first \in Left(wrote[t], req[t].from),
             \A q \in Left(wrote[t], req[t].from) : ~RowOf(wrote[t], q).primary,
             GoTo(t, "ensureWrite", [req[t] EXCEPT !.next = first]),
             UNCHANGED <<tables, locks, history>>
      PROVE  Calm
  <2> DEFINE r == [req[t] EXCEPT !.next = first]
  <2>1. Same(r, req[t]) /\ r.next = first /\ r.from = req[t].from
    BY <1>0, VisitSame DEF Request
  <2>2. GoTo(t, "ensureWrite", r) /\ UNCHANGED <<guest, wrote, history>>
    BY <1>4 DEF tables, locks
  <2> HIDE DEF r
  <2>3. wrote[t][first] = Null
    BY <1>0, <1>4 DEF Undisturbed, Left, RowOf
  <2>4. Undisturbed("ensureWrite", r, wrote[t])
    BY <1>0, <1>1, <1>4, <2>1, <2>3 DEF Undisturbed, OnlyNamedDeleted, FromNobody, Same
  <2> QED
    BY <2>2, <2>4, CalmOnward
<1> QED
  BY <1>2, <1>3, <1>4 DEF EnsureGroupHasPrimary, MembersSeen, Left, Sees, RowOf

LEMMA CalmMakePrimary ==
  ASSUME SafetyInv, Alone, AloneInv, NEW t \in Handlers, MakePrimary(t)
  PROVE  Calm
<1> DEFINE p   == req[t].next
           row == [guest[p] EXCEPT !.primary = TRUE]
           w   == [wrote[t] EXCEPT ![p] = row]
<1>0. /\ pc[t] = "ensureWrite" /\ Undisturbed("ensureWrite", req[t], wrote[t]) /\ p \in Guests
      /\ wrote[t] \in [Guests -> Written]
  BY TypeOf, UndisturbedNow DEF MakePrimary, SafetyInv, Fits, Request, NullOr
<1>1. req[t].op # "add"
  BY <1>0 DEF Undisturbed, FromNobody
<1>2. /\ p \in Left(wrote[t], req[t].from) /\ wrote[t][p] = Null
      /\ \A q \in Left(wrote[t], req[t].from) : ~RowOf(wrote[t], q).primary
      /\ OneHead(wrote[t]) /\ OnlyNamedDeleted(req[t], wrote[t])
  BY <1>0 DEF Undisturbed
<1>3. Listed(p) /\ guest[p].group = req[t].from
  BY <1>2 DEF Left, RowOf, Listed
<1>4. row \in GuestRow /\ row.group = req[t].from
  BY <1>3 DEF Listed, GuestRow
<1>5. w[p] = row /\ \A q \in Guests : q # p => w[q] = wrote[t][q]
  BY <1>0
<1>6. Commit(t, w, {}, "done")
  BY <1>3 DEF MakePrimary
<1> HIDE DEF row, w
<1>7. OneHead(w)
  BY <1>0, <1>2, <1>4, <1>5, NullApart, OneHeadRow DEF Left
<1>8. OnlyNamedDeleted(req[t], w)
  BY <1>2, <1>4, <1>5, ConstantsAssumption DEF OnlyNamedDeleted
<1> QED
  BY <1>0, <1>1, <1>6, <1>7, <1>8, CalmCommit

LEMMA CalmMoveAsAdmin ==
  ASSUME SafetyInv, Alone, AloneInv, NEW t \in Handlers, MoveGuestToGroupAsAdmin(t)
  PROVE  Calm
<1> DEFINE p   == req[t].guest
           row == [guest[p] EXCEPT !.group = req[t].group, !.primary = FALSE]
           at  == IF guest[p].group = req[t].group THEN "drop" ELSE "reference"
           w   == [wrote[t] EXCEPT ![p] = row]
<1>0. /\ pc[t] = "merge" /\ p \in Guests /\ Undisturbed("merge", req[t], wrote[t])
      /\ req[t].group \in Groups /\ wrote[t] \in [Guests -> Written] /\ wrote[t] = NoRows
  BY TypeOf, UndisturbedNow
     DEF SafetyInv, MoveGuestToGroupAsAdmin, Fits, Request, NullOr, LocksHeld
<1>1. CASE Stop(t, "notFound")
  BY <1>1, CalmStop
<1>2. CASE Listed(p) /\ Write(t, p, row, at, req[t])
  <2>1. row \in GuestRow /\ ~row.primary
    BY <1>0, <1>2 DEF Listed, GuestRow
  <2>2. w[p] = row /\ \A q \in Guests : q # p => w[q] = wrote[t][q] /\ w[q] = Null
    BY <1>0, NoRowsWritten
  <2>3. at \in {"drop", "reference"}
    OBVIOUS
  <2> HIDE DEF row, w, at
  <2>4. OneHead(w)
    BY <1>0, <2>1, <2>2, NullApart, OneHeadRow DEF Undisturbed
  <2>5. OnlyNamedDeleted(req[t], w)
    BY <2>1, <2>2, NullApart, ConstantsAssumption DEF OnlyNamedDeleted
  <2>6. Undisturbed(at, req[t], w)
    BY <1>0, <2>3, <2>4, <2>5 DEF Undisturbed, FromNobody
  <2> QED
    BY <1>0, <1>2, <2>6, CalmWrite DEF w
<1> QED
  BY <1>1, <1>2 DEF MoveGuestToGroupAsAdmin

LEMMA CalmCheckReference ==
  ASSUME SafetyInv, Alone, AloneInv, NEW t \in Handlers, CheckReference(t)
  PROVE  Calm
<1>1. CASE Stop(t, "failed")
  BY <1>1, CalmStop
<1>2. CASE Start(t, "drop", req[t])
  <2>1. Undisturbed("reference", req[t], wrote[t])
    BY UndisturbedNow DEF CheckReference
  <2>2. Undisturbed("drop", req[t], wrote[t])
    BY <2>1 DEF Undisturbed, FromNobody
  <2> QED
    BY <1>2, <2>2, CalmOnward DEF Start, tables, locks
<1> QED
  BY <1>1, <1>2 DEF CheckReference

LEMMA CalmDropScan ==
  ASSUME SafetyInv, Alone, AloneInv, NEW t \in Handlers, DropScan(t)
  PROVE  Calm
<1>1. CASE MembersSeen(t, req[t].from) = {} /\ Start(t, "dropGroup", req[t])
  <2>1. Undisturbed("drop", req[t], wrote[t])
    BY UndisturbedNow DEF DropScan
  <2>2. Left(wrote[t], req[t].from) = {}
    BY <1>1 DEF MembersSeen, Sees, Left, RowOf
  <2>3. Undisturbed("dropGroup", req[t], wrote[t])
    BY <2>1, <2>2 DEF Undisturbed, FromNobody
  <2> QED
    BY <1>1, <2>3, CalmOnward DEF Start, tables, locks
<1>2. CASE pc[t] = "drop" /\ \E what : Commit(t, wrote[t], {}, what)
  BY <1>2, CalmCommitWritten
<1> QED
  BY <1>1, <1>2 DEF DropScan

LEMMA CalmDropGroup ==
  ASSUME SafetyInv, Alone, AloneInv, NEW t \in Handlers, DropGroup(t)
  PROVE  Calm
<1>1. pc[t] = "dropGroup" /\ Undisturbed("dropGroup", req[t], wrote[t])
  BY UndisturbedNow DEF DropGroup
<1>2. MembersSeen(t, req[t].from) = {}
  BY <1>1 DEF Undisturbed, MembersSeen, Sees, Left, RowOf
<1> QED
  BY <1>1, <1>2, CalmCommitWritten DEF DropGroup

LEMMA CalmCascade ==
  ASSUME AloneInv, NEW t \in Handlers, Cascade(t)
  PROVE  Calm
BY UndisturbedNow DEF Cascade, Undisturbed

LEMMA AloneNext == SafetyInv /\ Alone /\ AloneInv /\ [Next]_vars => AloneInv' /\ [FamilyKept]_vars
<1> SUFFICES ASSUME SafetyInv, Alone, AloneInv, [Next]_vars
             PROVE  AloneInv' /\ [FamilyKept]_vars
  OBVIOUS
<1>1. CASE UNCHANGED vars
  <2> USE <1>1 DEF vars
  <2>1. NobodyLost' /\ OneHead(NoRows)'
    BY DEF AloneInv, NobodyLost, OneHead, RowOf
  <2>2. ASSUME NEW t \in Handlers, pc[t] # "idle" PROVE Undisturbed(pc[t], req[t], wrote[t])'
    BY <2>2, UndisturbedNow
       DEF Undisturbed, OnlyNamedDeleted, FromNobody, HeadChosen, OneHead, Left, RowOf, Members
  <2> QED
    BY <2>1, <2>2 DEF AloneInv
<1>2. ASSUME NEW t \in Handlers, Advance(t) PROVE Calm
  BY <1>2, CalmLockGroup, CalmCountCompanions, CalmReadCompanion, CalmMoveGuest, CalmRestore,
     CalmUpdateAttendance, CalmInsertGuest, CalmDeleteGuestRow, CalmSetGroupPrimary,
     CalmMoveGuestHome, CalmEnsurePrimary, CalmMakePrimary, CalmMoveAsAdmin,
     CalmCheckReference, CalmDropScan, CalmDropGroup, CalmCascade DEF Advance
<1>3. ASSUME NEW t \in Handlers, Abort(t) PROVE Calm
  BY <1>3, CalmStop DEF Abort
<1> QED
  BY <1>1, <1>2, <1>3, CalmBegin DEF Next, Calm

\* One request at a time, each finds the rows as it read them: the inductive
\* invariant of what follows.
THEOREM AloneInvariant ==
  ASSUME Alone
  PROVE  Spec => []AloneInv
<1>1. Init => AloneInv
  BY AloneInit
<1>2. SafetyInv /\ AloneInv /\ [Next]_vars => AloneInv'
  BY AloneNext
<1> QED
  BY <1>1, <1>2, SafetyInvariant, PTL DEF Spec

\* One request at a time, nobody leaves the list except by DeleteGuest: an
\* invitation DeleteGroupIfEmpty found empty is still empty when it is deleted,
\* and ON DELETE CASCADE takes nobody along.
THEOREM NobodyLostAlone ==
  ASSUME Alone
  PROVE  Spec => []NobodyLost
<1>1. AloneInv => NobodyLost
  BY DEF AloneInv
<1> QED
  BY <1>1, AloneInvariant, PTL

\* One request at a time, no invitation ever has two primaries, if no imported
\* list had (SetGroupPrimary, EnsureGroupHasPrimary, and every move that sets
\* is_primary).
THEOREM OnePrimaryAlone ==
  ASSUME Alone, ImportedHeads
  PROVE  Spec => []AtMostOnePrimary
<1>1. ASSUME OneHead(NoRows), NEW g \in Groups PROVE Cardinality(Heads(g)) <= 1
  <2>1. \A p, q \in Heads(g) : p = q
    BY <1>1, NoRowsWritten DEF OneHead, RowOf, Heads, Members
  <2>2. CASE Heads(g) = {}
    BY <2>2, FS_EmptySet
  <2>3. ASSUME NEW p \in Heads(g) PROVE Cardinality(Heads(g)) <= 1
    <3>1. Heads(g) = {p}
      BY <2>1, <2>3
    <3>2. Cardinality({p}) = 1
      BY FS_Singleton
    <3> QED BY <3>1, <3>2
  <2> QED BY <2>2, <2>3
<1>2. AloneInv => AtMostOnePrimary
  BY <1>1 DEF AloneInv, AtMostOnePrimary
<1> QED
  BY <1>2, AloneInvariant, PTL

\* One request at a time, AddCompanion splits nobody's family: it moves only
\* somebody who is alone on their invitation (GetGuestWithGroupSize).
THEOREM FamiliesStayAlone ==
  ASSUME Alone
  PROVE  Spec => FamilyStays
<1>1. SafetyInv /\ AloneInv /\ [Next]_vars =>
        [\A t \in Handlers :
           pc[t] # "idle" /\ pc'[t] = "idle" /\ req[t].op = "add" =>
             \A p, q \in Guests :
               /\ p # q
               /\ Listed(p)
               /\ Listed(q)
               /\ guest[p].group = guest[q].group
               /\ guest'[p] # guest[p]
               => guest'[p] \in GuestRow /\ guest'[p].group = guest[p].group]_vars
  BY AloneNext DEF FamilyKept
<1> QED
  BY <1>1, SafetyInvariant, AloneInvariant, PTL DEF Spec, FamilyStays
=============================================================================
