----------------------------- MODULE NonceCache -----------------------------
(***************************************************************************)
(* The process-local nonce cache of the x402 middleware                    *)
(* (src/src/x402/nonce-cache.ts), as operators on a cache value.           *)
(*                                                                         *)
(* The two Maps of the closure are total functions from Nonces to the      *)
(* expiry stored under the nonce, or Absent.  Every operation prunes both  *)
(* maps first, with the clock reading it is given; the ones that change    *)
(* the cache return the new cache, the others return their answer.         *)
(***************************************************************************)
EXTENDS Integers

CONSTANT Nonces         \* the values randomUUID can return

Absent == -1            \* "not in the map": no reading of Date.now()

Expiries == Nat \cup {Absent}

Cache == [issued : [Nonces -> Expiries], consumed : [Nonces -> Expiries]]

EmptyCache ==
    [issued   |-> [n \in Nonces |-> Absent],
     consumed |-> [n \in Nonces |-> Absent]]

\* Mutant: dropped one tick early.
Unexpired_Early(map, now) ==
    [n \in Nonces |-> IF map[n] <= now + 1 THEN Absent ELSE map[n]]

\* An entry is dropped from its expiry on (expiresAt <= now).
Unexpired(map, now) ==
    [n \in Nonces |-> IF map[n] <= now THEN Absent ELSE map[n]]

\* Mutant: consumed is never pruned.
Prune_IssuedOnly(c, now) ==
    [issued   |-> Unexpired(c.issued, now),
     consumed |-> c.consumed]

Prune(c, now) ==
    [issued   |-> Unexpired(c.issued, now),
     consumed |-> Unexpired(c.consumed, now)]

\* Mutant: one slot instead of a Map, a new nonce replaces the last.
IssueNonce_OneSlot(c, n, expiresAt, now) ==
    [issued   |-> [EmptyCache.issued EXCEPT ![n] = expiresAt],
     consumed |-> Unexpired(c.consumed, now)]

IssueNonce(c, n, expiresAt, now) ==
    [issued   |-> [Unexpired(c.issued, now) EXCEPT ![n] = expiresAt],
     consumed |-> Unexpired(c.consumed, now)]

GetIssuedNonceExpiry(c, n, now) == Unexpired(c.issued, now)[n]

\* The two tests consumeNonce makes after pruning; it returns FALSE when one
\* of them fails, and leaves the pruned cache.
CanConsume(c, n, expiresAt, now) ==
    /\ Unexpired(c.consumed, now)[n] = Absent
    /\ Unexpired(c.issued, now)[n] = expiresAt

\* Mutant: neither map is updated.
ConsumeNonce_NotBurned(c, n, expiresAt, now) == Prune(c, now)

ConsumeNonce(c, n, expiresAt, now) ==
    [issued   |-> [Unexpired(c.issued, now) EXCEPT ![n] = Absent],
     consumed |-> [Unexpired(c.consumed, now) EXCEPT ![n] = expiresAt]]
=============================================================================
