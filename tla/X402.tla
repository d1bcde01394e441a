-------------------------------- MODULE X402 --------------------------------
(***************************************************************************)
(* The x402 payment flow end to end: VelaPaymentHandler.fetch calls        *)
(* (src/src/x402/client.ts), the chain their agent_pull transactions land  *)
(* on, and the instances of the server middleware                          *)
(* (src/src/x402/server.ts), each with a nonce cache of its own.           *)
(*                                                                         *)
(* A middleware invocation runs in two turns of the event loop: up to the  *)
(* await of getTransaction (BeginVerify), and from its answer to the end   *)
(* (Serve, Conflict, RefuseTx).  Any number of other turns fall between,   *)
(* of the same instance or another.  The turn before the await reads the   *)
(* clock more than once; the later readings may be later.                  *)
(*                                                                         *)
(* What may go wrong is chosen by the constant Faults:                     *)
(*   "replay"  a request with a proof reaches servers any number of times  *)
(*   "restart" an instance loses its caches and its requests in flight     *)
(*   "lag"     the server's RPC node does not return a confirmed           *)
(*             transaction, or getTransaction rejects                      *)
(*   "drop"    a transaction that was sent never gets confirmed            *)
(*   "clock"   Date.now() is set back                                      *)
(*   "share"   a proof for one challenge names the transaction that paid   *)
(*             another: the middleware compares the proof with the         *)
(*             challenge and the transaction with what it sells, but not   *)
(*             the transaction with the challenge                          *)
(* Losing a request, or its answer, is the step that is never taken.       *)
(***************************************************************************)
EXTENDS NonceCache

CONSTANTS
    Servers,           \* middleware instances behind one resource
    Fetches,           \* calls of VelaPaymentHandler.fetch
    Handlers,          \* bound: middleware invocations in flight at once
    Ttl,               \* challengeTtlMs
    MaxTime,           \* bound: the clock stops here
    Faults,
    ClientCommitment,  \* the commitment option of the paying client
    Versioned,         \* calls whose transaction getTransaction returns as a
                       \* MessageV0: with VelaClient.agentPull and a web3.js
                       \* Connection, all; with other clients, perhaps none
    None               \* no value

ASSUME X402Assumption ==
    /\ Ttl \in Nat \ {0}
    /\ MaxTime \in Nat
    /\ Faults \subseteq {"replay", "restart", "lag", "drop", "clock", "share"}
    /\ ClientCommitment \in {"processed", "confirmed"}
    /\ Versioned \subseteq Fetches
    /\ None \notin Nonces

VARIABLES
    clock,      \* Date.now(), one clock for all
    used,       \* nonces randomUUID has returned for a challenge
    cache,      \* cache[s]: the nonce cache of instance s
    handler,    \* handler[h]: the invocation awaiting getTransaction, or None
    shared,     \* nonces a proof reached verification for that names the
                \* transaction of another call
    answers,    \* <<fetch, status>>: the refusals answered to a proof
    served,     \* served[n]: how often next() ran for a proof of nonce n
    pc,         \* pc[f]: where fetch call f is
    nonce,      \* nonce[f], expires[f]: the challenge call f received
    expires,
    tx          \* tx[f]: the agent_pull transaction of f on the chain

serverVars == <<cache, handler, shared, answers, served>>
clientVars == <<pc, nonce, expires>>
vars == <<clock, used, serverVars, clientVars, tx>>

Times == 0..MaxTime
NotFound == 402
AlreadyUsed == 409

\* expires is what the invocation holds, payment the call whose transaction
\* its proof names.
Invocation ==
    [server : Servers, fetch : Fetches, payment : Fetches, expires : Nat]

TypeOK ==
    /\ clock \in Times
    /\ used \subseteq Nonces
    /\ cache \in [Servers -> Cache]
    /\ handler \in [Handlers -> Invocation \cup {None}]
    /\ shared \subseteq Nonces
    /\ answers \subseteq Fetches \X {NotFound, AlreadyUsed}
    /\ served \in [Nonces -> Nat]
    /\ pc \in [Fetches -> {"asked", "challenged", "paying", "presented", "threw"}]
    /\ nonce \in [Fetches -> Nonces \cup {None}]
    /\ expires \in [Fetches -> Expiries]
    /\ tx \in [Fetches -> {"none", "sent", "processed", "confirmed", "dropped"}]

\* fetch starts by sending the request without a proof.
Init ==
    /\ clock = 0
    /\ used = {}
    /\ cache = [s \in Servers |-> EmptyCache]
    /\ handler = [h \in Handlers |-> None]
    /\ shared = {}
    /\ answers = {}
    /\ served = [n \in Nonces |-> 0]
    /\ pc = [f \in Fetches |-> "asked"]
    /\ nonce = [f \in Fetches |-> None]
    /\ expires = [f \in Fetches |-> Absent]
    /\ tx = [f \in Fetches |-> "none"]

Later == {t \in Times : clock <= t}

Tick ==
    /\ \E t \in Times :
          /\ clock < t \/ "clock" \in Faults
          /\ clock' = t
    /\ UNCHANGED <<used, serverVars, clientVars, tx>>

-----------------------------------------------------------------------------
(* The client: VelaPaymentHandler.fetch                                    *)

\* The challenge is decoded, canAfford says yes, and agentPull sends its
\* transaction.
Pay(f) ==
    /\ pc[f] = "challenged"
    /\ pc' = [pc EXCEPT ![f] = "paying"]
    /\ tx' = [tx EXCEPT ![f] = "sent"]
    /\ UNCHANGED <<clock, used, serverVars, nonce, expires>>

Reached == IF ClientCommitment = "confirmed" THEN {"confirmed"}
                                             ELSE {"processed", "confirmed"}

\* agentPull resolves: the proof is the challenge and the signature, and the
\* request is sent once more, with it.  Nobody looks at the expiry here.
Present(f) ==
    /\ pc[f] = "paying"
    /\ tx[f] \in Reached
    /\ pc' = [pc EXCEPT ![f] = "presented"]
    /\ UNCHANGED <<clock, used, serverVars, nonce, expires, tx>>

\* The call ends without presenting a proof: the network failed, canAfford
\* said no, or agentPull threw, which it also does when confirming or the
\* fetch of the mandate fails after the transaction was sent.
Throw(f) ==
    /\ pc[f] \in {"asked", "challenged", "paying"}
    /\ pc' = [pc EXCEPT ![f] = "threw"]
    /\ UNCHANGED <<clock, used, serverVars, nonce, expires, tx>>

-----------------------------------------------------------------------------
(* The chain (external)                                                    *)

Process(f) ==
    /\ tx[f] = "sent"
    /\ tx' = [tx EXCEPT ![f] = "processed"]
    /\ UNCHANGED <<clock, used, serverVars, clientVars>>

Confirm(f) ==
    /\ tx[f] = "processed"
    /\ tx' = [tx EXCEPT ![f] = "confirmed"]
    /\ UNCHANGED <<clock, used, serverVars, clientVars>>

\* The blockhash expired, execution failed, or the fork was abandoned.
Drop(f) ==
    /\ "drop" \in Faults
    /\ tx[f] \in {"sent", "processed"}
    /\ tx' = [tx EXCEPT ![f] = "dropped"]
    /\ UNCHANGED <<clock, used, serverVars, clientVars>>

-----------------------------------------------------------------------------
(* The server: one invocation of the middleware                            *)

\* No proof: a fresh challenge is issued in the cache of this instance and
\* answered with status 402.
Challenge(s, f) ==
    /\ pc[f] = "asked"
    /\ \E n \in Nonces \ used, later \in Later :
          /\ used' = used \cup {n}
          /\ cache' = [cache EXCEPT ![s] = IssueNonce(@, n, clock + Ttl, later)]
          /\ nonce' = [nonce EXCEPT ![f] = n]
          /\ clock' = later
    /\ expires' = [expires EXCEPT ![f] = clock + Ttl]
    /\ pc' = [pc EXCEPT ![f] = "challenged"]
    /\ UNCHANGED <<handler, shared, answers, served, tx>>

Served(f) == nonce[f] # None /\ served[nonce[f]] > 0

Undelivered(f) ==
    /\ \A h \in Handlers : handler[h] # None => handler[h].fetch # f
    /\ \A status \in {NotFound, AlreadyUsed} : <<f, status>> \notin answers
    /\ ~Served(f)

\* A proof for the challenge of f arrives that names the transaction of g:
\* the one f presented, for the first time or once more, or another one.
Receive(f, g) ==
    \/ /\ g = f
       /\ pc[f] = "presented"
       /\ Undelivered(f) \/ "replay" \in Faults
    \/ /\ g # f
       /\ "share" \in Faults
       /\ nonce[f] # None
       /\ tx[g] # "none"

IssuedExpiry(s, f) == GetIssuedNonceExpiry(cache[s], nonce[f], clock)

\* Mutant: whether the nonce was issued here is not looked at.
PassesChecks_AnyNonce(s, f, now) == now < expires[f]

\* The checks before the await: the nonce is issued here and unexpired, and
\* the proof, read a moment later, is unexpired and carries that expiry.
PassesChecks(s, f, now) ==
    /\ IssuedExpiry(s, f) # Absent
    /\ now < expires[f]
    /\ expires[f] = IssuedExpiry(s, f)

\* A check fails: the throw is answered with status 402.
RefuseProof(s, f) ==
    /\ \E g \in Fetches : Receive(f, g)
    /\ \E later \in Later :
          /\ ~PassesChecks(s, f, later)
          /\ clock' = later
    /\ cache' = [cache EXCEPT ![s] = Prune(@, clock)]
    /\ answers' = answers \cup {<<f, NotFound>>}
    /\ UNCHANGED <<used, handler, shared, served, clientVars, tx>>

\* The checks pass: invocation h awaits getTransaction, holding the expiry
\* it has read.
BeginVerify(h, s, f, g) ==
    /\ handler[h] = None
    /\ Receive(f, g)
    /\ \E later \in Later :
          /\ PassesChecks(s, f, later)
          /\ clock' = later
    /\ cache' = [cache EXCEPT ![s] = Prune(@, clock)]
    /\ handler' = [handler EXCEPT ![h] =
                      [server |-> s, fetch |-> f, payment |-> g,
                       expires |-> IssuedExpiry(s, f)]]
    /\ shared' = shared \cup (IF g = f THEN {} ELSE {nonce[f]})
    /\ UNCHANGED <<used, answers, served, clientVars, tx>>

\* extractAccountKeys finds message.accountKeys, where a MessageV0 has
\* staticAccountKeys: without them no key is the expected destination.
AccountKeysFound(g) == g \notin Versioned

\* Mutant: the transaction is looked up at commitment "processed".
TxVerified_Processed(g) ==
    /\ tx[g] \in {"processed", "confirmed"}
    /\ AccountKeysFound(g)

\* verifyPaymentProof accepts what getTransaction returned for the signature:
\* a confirmed transaction, whichever challenge it was made for.
TxVerified(g) ==
    /\ tx[g] = "confirmed"
    /\ AccountKeysFound(g)

\* consumeNonce, given the expiry held over the await.
Consumable(h) ==
    LET i == handler[h] IN
    CanConsume(cache[i.server], nonce[i.fetch], i.expires, clock)

\* The nonce is consumed and the protected resource runs (next()).
Serve(h) ==
    /\ handler[h] # None
    /\ LET i == handler[h]
           n == nonce[i.fetch]
       IN  /\ TxVerified(i.payment)
           /\ Consumable(h)
           /\ cache' = [cache EXCEPT ![i.server] =
                           ConsumeNonce(@, n, i.expires, clock)]
           /\ served' = [served EXCEPT ![n] = @ + 1]
    /\ handler' = [handler EXCEPT ![h] = None]
    /\ UNCHANGED <<clock, used, shared, answers, clientVars, tx>>

\* consumeNonce returned false: status 409, "Payment nonce already used".
Conflict(h) ==
    /\ handler[h] # None
    /\ LET i == handler[h]
       IN  /\ TxVerified(i.payment)
           /\ ~Consumable(h)
           /\ cache' = [cache EXCEPT ![i.server] = Prune(@, clock)]
           /\ answers' = answers \cup {<<i.fetch, AlreadyUsed>>}
    /\ handler' = [handler EXCEPT ![h] = None]
    /\ UNCHANGED <<clock, used, shared, served, clientVars, tx>>

\* Mutant: the nonce is consumed before the proof is verified.
RefuseTx_Burns(h) ==
    /\ handler[h] # None
    /\ ~TxVerified(handler[h].payment) \/ "lag" \in Faults
    /\ LET i == handler[h] IN
       /\ cache' = [cache EXCEPT ![i.server] =
                       ConsumeNonce(@, nonce[i.fetch], i.expires, clock)]
       /\ answers' = answers \cup {<<i.fetch, NotFound>>}
    /\ handler' = [handler EXCEPT ![h] = None]
    /\ UNCHANGED <<clock, used, shared, served, clientVars, tx>>

\* verifyPaymentProof throws: status 402, and the nonce stays issued.
RefuseTx(h) ==
    /\ handler[h] # None
    /\ ~TxVerified(handler[h].payment) \/ "lag" \in Faults
    /\ answers' = answers \cup {<<handler[h].fetch, NotFound>>}
    /\ handler' = [handler EXCEPT ![h] = None]
    /\ UNCHANGED <<clock, used, cache, shared, served, clientVars, tx>>

\* The process of instance s restarts with an empty cache.
Restart(s) ==
    /\ "restart" \in Faults
    /\ cache' = [cache EXCEPT ![s] = EmptyCache]
    /\ handler' = [h \in Handlers |->
                      IF handler[h] # None /\ handler[h].server = s
                      THEN None ELSE handler[h]]
    /\ UNCHANGED <<clock, used, shared, answers, served, clientVars, tx>>

-----------------------------------------------------------------------------
Client(f) == Pay(f) \/ Present(f) \/ Throw(f)

Chain(f) == Process(f) \/ Confirm(f) \/ Drop(f)

Respond(h) == Serve(h) \/ Conflict(h) \/ RefuseTx(h)

Accept(s, f) ==
    RefuseProof(s, f) \/ \E h \in Handlers, g \in Fetches : BeginVerify(h, s, f, g)

Next ==
    \/ Tick
    \/ \E f \in Fetches : Client(f) \/ Chain(f)
    \/ \E s \in Servers : Restart(s)
    \/ \E s \in Servers, f \in Fetches : Challenge(s, f) \/ Accept(s, f)
    \/ \E h \in Handlers : Respond(h)

Spec == Init /\ [][Next]_vars

\* Each invocation gets the answer of its RPC node and each proof that is
\* sent arrives: the runtime schedules every ready turn.  Strongly, for the
\* arrival: only the bound Handlers ever keeps a request waiting, and the
\* server has no such bound.
Fairness ==
    /\ \A f \in Fetches, s \in Servers :
          SF_vars(\E h \in Handlers : BeginVerify(h, s, f, f))
    /\ \A h \in Handlers : WF_vars(Respond(h))

FairSpec == Spec /\ Fairness

-----------------------------------------------------------------------------
(* Properties                                                              *)

\* The protected resource runs at most once for a nonce, however many copies
\* of a proof are verified at once, by whichever instances, and whatever
\* their clocks and restarts do to the caches (server.ts:333-409).
AtMostOnce == \A n \in Nonces : served[n] <= 1

Paid == {n \in Nonces : \E f \in Fetches : nonce[f] = n /\ tx[f] = "confirmed"}

PS == INSTANCE PaidService WITH challenged <- used, paid <- Paid

\* The middleware implements the abstract service: next() runs only for a
\* nonce that was handed out, once, and after a payment is confirmed: that of
\* the nonce, or another only if a proof for the nonce named it.
ImplementsPaidService == PS!Spec

\* An issued nonce is one that can still be served: no instance holds a nonce
\* as issued that was served, or that another instance holds, and what an
\* instance remembers as consumed was served.
IssuedUnserved ==
    \A s \in Servers, n \in Nonces :
        /\ cache[s].issued[n] # Absent =>
              /\ served[n] = 0
              /\ \A t \in Servers \ {s} : cache[t].issued[n] = Absent
        /\ cache[s].consumed[n] # Absent => served[n] = 1

\* What an invocation verifies: the payment of its own nonce, or another one
\* for a nonce in shared.
Backed(i) ==
    /\ nonce[i.fetch] # None
    /\ tx[i.payment] # "none"
    /\ i.payment = i.fetch \/ nonce[i.fetch] \in shared

\* What the proofs need beside it: which nonces are in use, which nonce
\* belongs to which call in which state, which payment a verification may
\* name, and that what was served was paid.
Bookkeeping ==
    /\ \A s \in Servers, n \in Nonces : cache[s].issued[n] # Absent => n \in used
    /\ \A f \in Fetches :
          /\ nonce[f] # None => nonce[f] \in used
          /\ pc[f] = "asked" => nonce[f] = None
          /\ pc[f] \in {"asked", "challenged"} => tx[f] = "none"
          /\ pc[f] \in {"challenged", "paying", "presented"} => nonce[f] # None
          /\ pc[f] \in {"paying", "presented"} => tx[f] # "none"
          /\ tx[f] # "none" => nonce[f] # None
    /\ \A h \in Handlers : handler[h] # None => Backed(handler[h])
    /\ shared \subseteq used
    /\ \A n \in Nonces : served[n] > 0 =>
          n \in used /\ (n \in Paid \/ (n \in shared /\ Paid # {}))

\* The inductive invariant behind AtMostOnce: a nonce is served by burning it
\* in the one instance that still holds it, and never comes back.
IndInv == TypeOK /\ AtMostOnce /\ IssuedUnserved /\ Bookkeeping

\* An unexpired nonce is burned only by serving it (or by a restart): proofs
\* that fail verification, and requests for other nonces, leave it issued
\* ("invalid proofs do not burn a nonce before verification succeeds",
\* tests/unit/x402-middleware.test.ts:149).
BurnedOnlyByService ==
    [][\A s \in Servers, n \in Nonces :
          /\ cache[s].issued[n] > clock'
          /\ cache'[s].issued[n] # cache[s].issued[n]
          => served'[n] = served[n] + 1 \/ Restart(s)]_vars

\* Nothing expired survives a use of the cache: whenever an instance changes
\* a map, what both maps hold afterwards is unexpired, so their size is
\* bounded by the challenges of the last Ttl milliseconds.
CachesStayPruned ==
    [][\A s \in Servers : cache'[s] # cache[s] =>
          \A n \in Nonces : /\ cache'[s].issued[n] \notin 0..clock
                            /\ cache'[s].consumed[n] \notin 0..clock]_vars

\* With one instance and no fault but duplicated requests, a proof of a
\* confirmed payment is refused only when the challenge has expired, the
\* resource already ran for it, or the transaction came back as a MessageV0.
RefusalHasCause ==
    \A f \in Fetches, status \in {NotFound, AlreadyUsed} :
        <<f, status>> \in answers =>
            clock >= expires[f] \/ Served(f) \/ f \in Versioned

\* Under the same conditions a proof that is presented leads to the resource
\* running for it, unless the challenge expires first or the transaction is
\* one the middleware cannot read: what is paid in time is not lost in a queue
\* or between two concurrent verifications.
PaidIsServed ==
    \A f \in Fetches \ Versioned :
        pc[f] = "presented" ~> Served(f) \/ clock >= expires[f]

\* "402 challenge -> agentPull -> retry -> 200"
\* (tests/integration/x402-flow.test.ts:14): the request that is retried in
\* time with the proof of agentPull is served.
RetryIsServed ==
    \A f \in Fetches :
        pc[f] = "presented" ~> Served(f) \/ clock >= expires[f]
=============================================================================
