----------------------------- MODULE MCCheckout -----------------------------
(***************************************************************************)
(* Checkout on a small marketplace: the mug belongs to the north stall,    *)
(* the cap to the south one, and there are two of each.                    *)
(***************************************************************************)
EXTENDS Checkout, TLC

CONSTANTS north, south, mug, cap

Owner    == (mug :> north) @@ (cap :> south)
TwoEach  == [v \in {mug, cap} |-> 2]
AnyCart  == {NoCart, mug :> 0, mug :> 1, (mug :> 1) @@ (cap :> 1)}
=============================================================================
