----------------------------- MODULE MCItemStore -----------------------------
(* ItemStore with two items, one of which is money, for TLC.               *)
EXTENDS ItemStore, TLC
CONSTANTS cash, permit

MCItems == {cash, permit}
MCPrice == (cash :> 2 @@ permit :> 0)
=============================================================================
