------------------------------ MODULE MCGifts ------------------------------
(***************************************************************************)
(* Small instances of Gifts for TLC: the inputs the couple and the guests  *)
(* choose from, and the symmetry of the ids.                               *)
(***************************************************************************)
EXTENDS GiftsRefinement, TLC

Form(kind, quota, maxUnits, active) ==
  [kind |-> kind, quota |-> quota, maxUnits |-> maxUnits, active |-> active]

\* One quota of 1, the same dinner edited into two quotas of 2, a quota nobody
\* limits, a gift of any amount, a link card, and two forms the
\* service refuses.
AllForms ==
  {Form("pix", 1, 1, TRUE), Form("pix", 2, 2, TRUE), Form("pix", 2, Null, TRUE),
   Form("", Null, Null, TRUE), Form("link", Null, Null, TRUE),
   Form("pix", Null, 1, TRUE), Form("link", 1, Null, TRUE)}
AllOffers == {Null, 0, 1, 3}

\* What the races need: one quota, another price for it, and a link card.
RaceForms  == {Form("pix", 1, 1, TRUE), Form("pix", 2, 1, TRUE), Form("link", Null, Null, TRUE)}
RaceOffers == {Null}

Symmetric == Permutations(Clients) \cup Permutations(Contributions)
=============================================================================
