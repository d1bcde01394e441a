--------------------------- MODULE MCSubscriptions ---------------------------
(***************************************************************************)
(* Small instances of Subscriptions for TLC.                               *)
(***************************************************************************)
EXTENDS Subscriptions, TLC

\* Which call, and which subscriber, is which makes no difference.
Symmetry == Permutations(Calls) \cup Permutations(Subscribers)
=============================================================================
