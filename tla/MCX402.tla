------------------------------- MODULE MCX402 -------------------------------
(***************************************************************************)
(* Small instances of X402 for TLC.                                        *)
(***************************************************************************)
EXTENDS X402, TLC

\* Which element of each of these sets is which makes no difference.
Symmetry ==
    Permutations(Nonces) \cup Permutations(Fetches) \cup Permutations(Handlers)
        \cup Permutations(Servers)

\* With "replay" among the faults no step looks at the answers given: states
\* that differ in them alone need not be told apart.
AnswersAside == <<clock, used, cache, handler, shared, served, clientVars, tx>>
=============================================================================
