---------------------------- MODULE PaidService -----------------------------
(***************************************************************************)
(* What an x402-protected resource promises, whatever its instances, their *)
(* caches and the network do: a challenge is handed out and the resource   *)
(* runs at most once for it, after a payment is confirmed.  The payment is *)
(* the one made for that challenge, unless a proof for it named the        *)
(* payment of another: nothing ties a payment to one challenge.            *)
(***************************************************************************)
EXTENDS Naturals

CONSTANT Nonces

VARIABLES
    challenged,  \* nonces handed out in a 402 response
    paid,        \* nonces whose agent_pull transaction is confirmed
    shared,      \* nonces for which the payment of another one was named
    served       \* served[n]: how often the resource ran for nonce n

vars == <<challenged, paid, shared, served>>

Init ==
    /\ challenged = {}
    /\ paid = {}
    /\ shared = {}
    /\ served = [n \in Nonces |-> 0]

Challenge(n) ==
    /\ n \notin challenged
    /\ challenged' = challenged \cup {n}
    /\ UNCHANGED <<paid, shared, served>>

Pay(n) ==
    /\ n \in challenged
    /\ paid' = paid \cup {n}
    /\ UNCHANGED <<challenged, shared, served>>

Share(n) ==
    /\ n \in challenged
    /\ shared' = shared \cup {n}
    /\ UNCHANGED <<challenged, paid, served>>

\* The payment that lets the resource run: that of m.
Serve(n, m) ==
    /\ n \in challenged
    /\ m = n \/ n \in shared
    /\ m \in paid
    /\ served[n] = 0
    /\ served' = [served EXCEPT ![n] = 1]
    /\ UNCHANGED <<challenged, paid, shared>>

Next ==
    \/ \E n \in Nonces : Challenge(n) \/ Pay(n) \/ Share(n)
    \/ \E n, m \in Nonces : Serve(n, m)

Spec == Init /\ [][Next]_vars
=============================================================================
