------------------------------ MODULE MCSheets ------------------------------
(***************************************************************************)
(* Small instances of the importer for TLC: the spreadsheets that are      *)
(* uploaded and the guest lists they meet.                                 *)
(***************************************************************************)
EXTENDS ImportPlan, Functions, TLC

CONSTANTS a, b, c, F, G

\* At most one line of a file is marked, on any line.
Sheets(len, names, families) ==
  {rows \in UNION {[1 .. n -> [name : names, convite : NullOr(families), principal : BOOLEAN]] : n \in 1 .. len} :
     Cardinality({i \in DOMAIN rows : rows[i].principal}) <= 1}

\* The lists of at most m guests on at most n invitations, but for the names of
\* people and families: the first people of names, the first families of families.
\* An invitation has the label of a family or, alone, its guest's name; a family
\* may have lost its people.  Ids mean nothing: the first id on an invitation is
\* its head's, and the first of all is on the first invitation.
ListsOf(names, families, m, n) ==
  LET labels == [1 .. n -> NullOr(Range(families) \cup Range(names))]
      On(place, g) == {p \in DOMAIN place : place[p] = g}
      Right(place, label) ==
        /\ 1 \in DOMAIN place => place[1] = 1
        /\ \A g \in 1 .. n :
             IF On(place, g) = {} THEN label[g] \in NullOr(Range(families))
             ELSE label[g] \in Range(families) \/ {label[g]} = {names[p] : p \in On(place, g)}
        /\ \A g \in 1 .. n, f \in 2 .. Len(families) :
             label[g] = families[f] => \E h \in 1 .. g - 1 : label[h] = families[f - 1]
      Filled(f, ids) == [x \in ids |-> IF x \in DOMAIN f THEN f[x] ELSE Null]
      List(place, label) ==
        [label |-> Filled(label, GroupIds),
         guest |-> Filled([p \in DOMAIN place |->
                             [full |-> names[p], norm |-> names[p], group |-> place[p],
                              primary |-> p = Min(On(place, place[p]))]], GuestIds)]
  IN UNION {{List(d[1], d[2]) : d \in {d \in [1 .. k -> 1 .. n] \X labels : Right(d[1], d[2])}} :
              k \in 0 .. m}

ThreeLineSheets == Sheets(3, {a, b, c}, {F, G})
SmallLists      == ListsOf(<<a, b, c>>, <<F, G>>, 3, 2)

\* One of the two, or both, for the family, somebody marked or nobody.
Line(name, convite, principal) == [name |-> name, convite |-> convite, principal |-> principal]
RacingSheets == {<<Line(a, F, TRUE)>>,
                 <<Line(b, F, TRUE)>>,
                 <<Line(b, F, FALSE), Line(a, Null, FALSE)>>,
                 <<Line(a, F, FALSE), Line(b, F, TRUE)>>}

\* Somebody is listed, and labels tell the invitations apart.
RacingLists ==
  {t \in ListsOf(<<a, b>>, <<F>>, 2, 2) :
     Listed(t) # {} /\ \A g, h \in Live(t) : t.label[g] = t.label[h] => g = h}

\* A family of one.
LoneLists == ListsOf(<<c>>, <<F>>, 1, 1)
=============================================================================
