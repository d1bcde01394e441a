--------------------------- MODULE MCBillingCycle ---------------------------
(***************************************************************************)
(* A small instance of BillingCycle for TLC.                               *)
(***************************************************************************)
EXTENDS BillingCycle, TLC

CONSTANTS basic, pro

\* A keeper's clock is behind, right, or ahead.
MCSkews == {-1, 0, 1}
MCPrice == basic :> 1 @@ pro :> 2
=============================================================================
