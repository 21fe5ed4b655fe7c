------------------------------ MODULE MCRunner ------------------------------
(* Runner with two items, one of which is money, for TLC.                  *)
EXTENDS Runner, TLC
CONSTANTS cash, permit, race

MCItems == {cash, permit}
MCPrice == (cash :> 2 @@ permit :> 0)
=============================================================================
