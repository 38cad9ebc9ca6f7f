--------------------------- MODULE GiftsRefinement ---------------------------
(***************************************************************************)
(* The gift list, statement by statement, implements Ledger: requests,     *)
(* locks and answers are hidden, and a gift id that was not given out yet  *)
(* and one whose row was deleted look the same from outside.               *)
(***************************************************************************)
EXTENDS Gifts

OnShelf == [g \in Gifts |-> IF Present(g) THEN gift[g] ELSE Null]

Promise ==
  INSTANCE Ledger WITH
    Rows    <- {row \in GiftRow : ValidGift(row)},
    shelf   <- OnShelf,
    book    <- ledger,
    signers <- groups,
    revived <- reopened

\* CreateContribution's lock, its second reading of the row and its sum make a
\* declaration look as if it happened at one instant: every step of every
\* interleaving is a step of Ledger or none at all.
ImplementsLedger == Promise!Spec
=============================================================================
