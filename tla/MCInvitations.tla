--------------------------- MODULE MCInvitations ---------------------------
(***************************************************************************)
(* Small instances of Invitations for TLC: every list of guests that an    *)
(* import can leave on the invitations there are, and the symmetry of ids. *)
(***************************************************************************)
EXTENDS Invitations, TLC

\* Each family has one head; whoever is not imported may be typed in later.
AllImports ==
  {list \in [Guests -> [group : Groups, primary : BOOLEAN, added : {FALSE},
                        attending : {"pending"}] \cup {Absent}] :
     \A g \in Groups :
       LET family == {p \in Guests : list[p] # Absent /\ list[p].group = g} IN
       family # {} => \E head \in family : \A p \in family : list[p].primary <=> p = head}

\* Everybody imported, each alone on an invitation of their own.
Singles ==
  {list \in AllImports :
     /\ \A p \in Guests : list[p] # Absent
     /\ \A p, q \in Guests : list[p].group = list[q].group => p = q}

\* Everybody imported, families of any size.
Families == {list \in AllImports : \A p \in Guests : list[p] # Absent}

\* No statement reads the last answer or the histories: a run whose properties
\* do not either may tell states apart without them.
NoHistory == <<tables, locks, pc, req>>

Symmetric == Permutations(Handlers) \cup Permutations(Guests) \cup Permutations(Groups)
=============================================================================
