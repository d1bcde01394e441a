----------------------------- MODULE X402Proofs -----------------------------
(***************************************************************************)
(* Proofs about X402, for any number of instances, calls, nonces and       *)
(* invocations in flight, and every combination of faults.                 *)
(***************************************************************************)
EXTENDS X402, TLAPS

-----------------------------------------------------------------------------
(* Lemmas about the cache operators                                        *)

\* Pruning yields maps again, and drops entries without adding or changing
\* one.
LEMMA UnexpiredMap ==
    ASSUME NEW map \in [Nonces -> Expiries], NEW now \in Nat
    PROVE  /\ Unexpired(map, now) \in [Nonces -> Expiries]
           /\ \A n \in Nonces : Unexpired(map, now)[n] # Absent =>
                 /\ map[n] = Unexpired(map, now)[n]
                 /\ map[n] > now
           /\ \A n \in Nonces : map[n] > now => Unexpired(map, now)[n] = map[n]
  BY DEF Unexpired, Expiries, Absent

\* The empty cache is a cache without entries.
LEMMA EmptyCacheType ==
    /\ EmptyCache \in Cache
    /\ \A n \in Nonces : /\ EmptyCache.issued[n] = Absent
                         /\ EmptyCache.consumed[n] = Absent
  BY DEF EmptyCache, Cache, Expiries

\* Issuing and consuming yield a cache.
LEMMA CacheType ==
    ASSUME NEW c \in Cache, NEW n \in Nonces, NEW e \in Nat, NEW now \in Nat
    PROVE  /\ IssueNonce(c, n, e, now) \in Cache
           /\ ConsumeNonce(c, n, e, now) \in Cache
  <1>1. /\ c.issued \in [Nonces -> Expiries]
        /\ c.consumed \in [Nonces -> Expiries]
    BY DEF Cache
  <1>2. /\ e \in Expiries
        /\ Absent \in Expiries
    BY DEF Expiries
  <1>3. QED
    BY <1>1, <1>2, UnexpiredMap DEF IssueNonce, ConsumeNonce, Cache

\* Pruning alone yields a cache.
LEMMA PruneType ==
    ASSUME NEW c \in Cache, NEW now \in Nat
    PROVE  Prune(c, now) \in Cache
  <1>1. /\ c.issued \in [Nonces -> Expiries]
        /\ c.consumed \in [Nonces -> Expiries]
    BY DEF Cache
  <1>2. QED
    BY <1>1, UnexpiredMap DEF Prune, Cache

\* Every entry prune leaves was there before.
LEMMA PruneEntries ==
    ASSUME NEW c \in Cache, NEW now \in Nat
    PROVE  \A n \in Nonces :
              /\ Prune(c, now).issued[n] # Absent => c.issued[n] # Absent
              /\ Prune(c, now).consumed[n] # Absent => c.consumed[n] # Absent
  <1>1. /\ c.issued \in [Nonces -> Expiries]
        /\ c.consumed \in [Nonces -> Expiries]
    BY DEF Cache
  <1>2. QED
    BY <1>1, UnexpiredMap DEF Prune, Cache

\* issueNonce adds the one entry and otherwise prunes.
LEMMA IssueNonceEntries ==
    ASSUME NEW c \in Cache, NEW n \in Nonces, NEW e \in Nat, NEW now \in Nat
    PROVE  /\ IssueNonce(c, n, e, now).issued[n] = e
           /\ \A m \in Nonces :
                 IssueNonce(c, n, e, now).issued[m] # Absent =>
                     c.issued[m] # Absent \/ m = n
           /\ \A m \in Nonces :
                 IssueNonce(c, n, e, now).consumed[m] # Absent => c.consumed[m] # Absent
  <1>1. /\ c.issued \in [Nonces -> Expiries]
        /\ c.consumed \in [Nonces -> Expiries]
    BY DEF Cache
  <1>2. e \in Expiries
    BY DEF Expiries
  <1>3. QED
    BY <1>1, <1>2, UnexpiredMap DEF IssueNonce, Cache

\* consumeNonce moves the one entry to consumed and otherwise prunes.
LEMMA ConsumeNonceEntries ==
    ASSUME NEW c \in Cache, NEW n \in Nonces, NEW e \in Nat, NEW now \in Nat
    PROVE  /\ ConsumeNonce(c, n, e, now).issued[n] = Absent
           /\ \A m \in Nonces :
                 ConsumeNonce(c, n, e, now).issued[m] # Absent => c.issued[m] # Absent
           /\ \A m \in Nonces :
                 ConsumeNonce(c, n, e, now).consumed[m] # Absent =>
                     c.consumed[m] # Absent \/ m = n
  <1>1. /\ c.issued \in [Nonces -> Expiries]
        /\ c.consumed \in [Nonces -> Expiries]
    BY DEF Cache
  <1>2. /\ e \in Expiries
        /\ Absent \in Expiries
    BY DEF Expiries
  <1>3. QED
    BY <1>1, <1>2, UnexpiredMap DEF ConsumeNonce, Cache

\* A nonce that can be consumed with an expiry is issued, with that expiry,
\* and unexpired.
LEMMA CanConsumeIssued ==
    ASSUME NEW c \in Cache, NEW n \in Nonces, NEW e \in Nat, NEW now \in Nat,
           CanConsume(c, n, e, now)
    PROVE  c.issued[n] = e /\ c.issued[n] # Absent /\ e > now
  <1>1. c.issued \in [Nonces -> Expiries]
    BY DEF Cache
  <1>2. QED
    BY <1>1, UnexpiredMap DEF CanConsume, Absent

\* Neither issuing nor consuming touches an unexpired issued entry of another
\* nonce.
LEMMA UnexpiredIssuedKept ==
    ASSUME NEW c \in Cache, NEW now \in Nat, NEW m \in Nonces, c.issued[m] > now,
           NEW n \in Nonces \ {m}, NEW e \in Nat
    PROVE  /\ IssueNonce(c, n, e, now).issued[m] = c.issued[m]
           /\ ConsumeNonce(c, n, e, now).issued[m] = c.issued[m]
  <1>1. c.issued \in [Nonces -> Expiries]
    BY DEF Cache
  <1>2. /\ Unexpired(c.issued, now) \in [Nonces -> Expiries]
        /\ Unexpired(c.issued, now)[m] = c.issued[m]
    BY <1>1, UnexpiredMap
  <1>3. QED
    BY <1>2 DEF IssueNonce, ConsumeNonce

\* Pruning alone keeps every unexpired entry.
LEMMA PruneKeeps ==
    ASSUME NEW c \in Cache, NEW now \in Nat, NEW m \in Nonces, c.issued[m] > now
    PROVE  Prune(c, now).issued[m] = c.issued[m]
  <1>1. c.issued \in [Nonces -> Expiries]
    BY DEF Cache
  <1>2. QED
    BY <1>1, UnexpiredMap DEF Prune

-----------------------------------------------------------------------------
(* Type correctness                                                        *)

\* Every later clock reading is a natural number, as the clock itself is.
LEMMA LaterTimes ==
    ASSUME TypeOK
    PROVE  /\ clock \in Nat
           /\ clock + Ttl \in Nat
           /\ \A t \in Later : t \in Times /\ t \in Nat /\ t >= clock
  BY X402Assumption DEF TypeOK, Later, Times

\* The invariant TypeOK holds initially.
LEMMA InitType == Init => TypeOK
  BY X402Assumption, EmptyCacheType
     DEF Init, TypeOK, Times, Expiries

\* Checks that pass give the invocation a natural number as expiry.
LEMMA PassedExpiry ==
    ASSUME TypeOK, NEW s \in Servers, NEW f \in Fetches, NEW now,
           nonce[f] # None, PassesChecks(s, f, now)
    PROVE  /\ IssuedExpiry(s, f) \in Nat
           /\ IssuedExpiry(s, f) = cache[s].issued[nonce[f]]
  <1>1. /\ cache[s].issued \in [Nonces -> Expiries]
        /\ nonce[f] \in Nonces
    BY DEF TypeOK, Cache
  <1>2. QED
    BY <1>1, LaterTimes, UnexpiredMap
       DEF PassesChecks, IssuedExpiry, GetIssuedNonceExpiry, Expiries

\* What a step needs to know besides TypeOK to preserve it: an invocation in
\* flight, and a call that presents its proof, have a nonce.
HasNonce ==
    /\ \A f \in Fetches : pc[f] = "presented" => nonce[f] # None
    /\ \A h \in Handlers : handler[h] # None => nonce[handler[h].fetch] # None

\* Every step preserves TypeOK.
LEMMA NextType == TypeOK /\ HasNonce /\ [Next]_vars => TypeOK'
  <1> SUFFICES ASSUME TypeOK, HasNonce, [Next]_vars PROVE TypeOK'
    OBVIOUS
  <1> USE DEF TypeOK
  <1>1. CASE Tick
    BY <1>1 DEF Tick, serverVars, clientVars
  <1>2. ASSUME NEW f \in Fetches, Client(f) \/ Chain(f) PROVE TypeOK'
    BY <1>2 DEF Client, Chain, Pay, Present, Throw, Process, Confirm, Drop,
                serverVars, clientVars
  <1>3. ASSUME NEW s \in Servers, Restart(s) PROVE TypeOK'
    BY <1>3, EmptyCacheType DEF Restart, clientVars
  <1>4. ASSUME NEW s \in Servers, NEW f \in Fetches, Challenge(s, f) PROVE TypeOK'
    <2>1. PICK n \in Nonces \ used, later \in Later :
              /\ used' = used \cup {n}
              /\ cache' = [cache EXCEPT ![s] = IssueNonce(@, n, clock + Ttl, later)]
              /\ nonce' = [nonce EXCEPT ![f] = n]
              /\ clock' = later
      BY <1>4 DEF Challenge
    <2>2. cache' \in [Servers -> Cache]
      BY <2>1, LaterTimes, CacheType
    <2>3. clock' \in Times /\ used' \subseteq Nonces /\ clock + Ttl \in Expiries
      BY <2>1, LaterTimes DEF Expiries
    <2>4. QED
      BY <1>4, <2>1, <2>2, <2>3 DEF Challenge
  <1>5. ASSUME NEW s \in Servers, NEW f \in Fetches, RefuseProof(s, f) PROVE TypeOK'
    <2>1. cache' \in [Servers -> Cache] /\ clock' \in Times
      BY <1>5, LaterTimes, PruneType DEF RefuseProof
    <2>2. QED
      BY <1>5, <2>1 DEF RefuseProof, clientVars
  <1>6. ASSUME NEW s \in Servers, NEW f \in Fetches, NEW h \in Handlers,
               NEW g \in Fetches, BeginVerify(h, s, f, g)
        PROVE  TypeOK'
    <2>1. cache' \in [Servers -> Cache] /\ clock' \in Times
      BY <1>6, LaterTimes, PruneType DEF BeginVerify
    <2>0. nonce[f] # None /\ nonce[f] \in Nonces
      BY <1>6 DEF BeginVerify, Receive, HasNonce
    <2>2. IssuedExpiry(s, f) \in Nat
      BY <1>6, <2>0, PassedExpiry DEF BeginVerify
    <2>3. handler' \in [Handlers -> Invocation \cup {None}]
      BY <1>6, <2>2 DEF BeginVerify, Invocation
    <2>4. shared' \subseteq Nonces
      BY <1>6, <2>0 DEF BeginVerify
    <2>5. QED
      BY <1>6, <2>1, <2>3, <2>4 DEF BeginVerify, clientVars
  <1>7. ASSUME NEW h \in Handlers, Serve(h) PROVE TypeOK'
    <2> DEFINE i == handler[h]
    <2>1. i \in Invocation /\ nonce[i.fetch] \in Nonces
      BY <1>7 DEF Serve, HasNonce, Invocation
    <2>2. cache' \in [Servers -> Cache]
      BY <1>7, <2>1, LaterTimes, CacheType DEF Serve, Invocation
    <2>3. served' \in [Nonces -> Nat]
      BY <1>7, <2>1 DEF Serve
    <2>4. QED
      BY <1>7, <2>2, <2>3 DEF Serve, clientVars
  <1>8. ASSUME NEW h \in Handlers, Conflict(h) PROVE TypeOK'
    <2>1. handler[h] \in Invocation
      BY <1>8 DEF Conflict
    <2>2. cache' \in [Servers -> Cache]
      BY <1>8, <2>1, LaterTimes, PruneType DEF Conflict, Invocation
    <2>3. answers' \subseteq Fetches \X {NotFound, AlreadyUsed}
      BY <1>8, <2>1 DEF Conflict, Invocation
    <2>4. QED
      BY <1>8, <2>2, <2>3 DEF Conflict, clientVars
  <1>9. ASSUME NEW h \in Handlers, RefuseTx(h) PROVE TypeOK'
    <2>1. handler[h] \in Invocation
      BY <1>9 DEF RefuseTx
    <2>2. QED
      BY <1>9, <2>1 DEF RefuseTx, clientVars, Invocation
  <1>10. CASE UNCHANGED vars
    BY <1>10 DEF vars, serverVars, clientVars
  <1>11. QED
    BY <1>1, <1>2, <1>3, <1>4, <1>5, <1>6, <1>7, <1>8, <1>9, <1>10
       DEF Next, Respond, Accept

-----------------------------------------------------------------------------
(* The inductive invariant                                                 *)

\* A step after which every entry of a map was there before.
CachesShrink ==
    \A s \in Servers, n \in Nonces :
        /\ cache'[s].issued[n] # Absent => cache[s].issued[n] # Absent
        /\ cache'[s].consumed[n] # Absent => cache[s].consumed[n] # Absent

\* All steps but Challenge and Serve are of this kind.
LEMMA QuietSteps ==
    ASSUME TypeOK, [Next]_vars,
           ~ \E s \in Servers, f \in Fetches : Challenge(s, f),
           ~ \E h \in Handlers : Serve(h)
    PROVE  CachesShrink /\ UNCHANGED <<served, used, nonce>>
  <1>1. CASE UNCHANGED cache /\ UNCHANGED <<served, used, nonce>>
    BY <1>1 DEF CachesShrink
  <1>2. ASSUME NEW s \in Servers, cache' = [cache EXCEPT ![s] = Prune(@, clock)]
        PROVE  CachesShrink
    <2>1. \A t \in Servers : cache[t] \in Cache
      BY DEF TypeOK
    <2>2. QED
      BY <1>2, <2>1, LaterTimes, PruneEntries DEF CachesShrink, TypeOK
  <1>3. ASSUME NEW s \in Servers, Restart(s)
        PROVE  CachesShrink /\ UNCHANGED <<served, used, nonce>>
    BY <1>3, EmptyCacheType DEF Restart, CachesShrink, clientVars, TypeOK
  <1>4. ASSUME NEW s \in Servers, NEW f \in Fetches, Accept(s, f)
        PROVE  CachesShrink /\ UNCHANGED <<served, used, nonce>>
    BY <1>2, <1>4 DEF Accept, RefuseProof, BeginVerify, clientVars
  <1>5. ASSUME NEW h \in Handlers, Conflict(h)
        PROVE  CachesShrink /\ UNCHANGED <<served, used, nonce>>
    <2>1. handler[h].server \in Servers
      BY <1>5 DEF Conflict, TypeOK, Invocation
    <2>2. QED
      BY <1>2, <1>5, <2>1 DEF Conflict, clientVars
  <1>6. ASSUME NEW h \in Handlers, RefuseTx(h)
        PROVE  UNCHANGED cache /\ UNCHANGED <<served, used, nonce>>
    BY <1>6 DEF RefuseTx, clientVars
  <1>7. ASSUME Tick \/ \E f \in Fetches : Client(f) \/ Chain(f)
        PROVE  UNCHANGED cache /\ UNCHANGED <<served, used, nonce>>
    BY <1>7 DEF Tick, Client, Chain, Pay, Present, Throw, Process, Confirm,
                Drop, serverVars, clientVars
  <1>8. ASSUME UNCHANGED vars
        PROVE  UNCHANGED cache /\ UNCHANGED <<served, used, nonce>>
    BY <1>8 DEF vars, serverVars, clientVars
  <1>9. QED
    BY <1>1, <1>3, <1>4, <1>5, <1>6, <1>7, <1>8 DEF Next, Respond

\* What Challenge does to the nonces: one that nobody used is issued by s.
LEMMA ChallengeStep ==
    ASSUME IndInv, NEW s \in Servers, NEW f \in Fetches, Challenge(s, f)
    PROVE  \E n \in Nonces \ used :
              /\ used' = used \cup {n}
              /\ nonce[f] = None
              /\ nonce' = [nonce EXCEPT ![f] = n]
              /\ \A t \in Servers, m \in Nonces :
                    /\ cache'[t].issued[m] # Absent =>
                          cache[t].issued[m] # Absent \/ (t = s /\ m = n)
                    /\ cache'[t].consumed[m] # Absent =>
                          cache[t].consumed[m] # Absent
  <1>1. PICK n \in Nonces \ used, later \in Later :
            /\ used' = used \cup {n}
            /\ cache' = [cache EXCEPT ![s] = IssueNonce(@, n, clock + Ttl, later)]
            /\ nonce' = [nonce EXCEPT ![f] = n]
    BY DEF Challenge
  <1>2. cache[s] \in Cache /\ cache'[s] = IssueNonce(cache[s], n, clock + Ttl, later)
    BY <1>1 DEF IndInv, TypeOK
  <1>3. \A t \in Servers \ {s} : cache'[t] = cache[t]
    BY <1>1 DEF IndInv, TypeOK
  <1>4. clock + Ttl \in Nat /\ later \in Nat
    BY LaterTimes DEF IndInv
  <1>5. \A m \in Nonces :
            /\ cache'[s].issued[m] # Absent => cache[s].issued[m] # Absent \/ m = n
            /\ cache'[s].consumed[m] # Absent => cache[s].consumed[m] # Absent
    <2> DEFINE c == cache[s]
               e == clock + Ttl
               d == IssueNonce(c, n, e, later)
    <2>1. c \in Cache /\ e \in Nat /\ later \in Nat
      BY <1>2, <1>4
    <2>2. c = cache[s] /\ d = cache'[s]
      BY <1>2
    <2> HIDE DEF c, e
    <2>3. \A m \in Nonces :
             /\ d.issued[m] # Absent => c.issued[m] # Absent \/ m = n
             /\ d.consumed[m] # Absent => c.consumed[m] # Absent
      BY <2>1, IssueNonceEntries
    <2>4. QED
      BY <2>2, <2>3
  <1>6. nonce[f] = None
    BY DEF Challenge, IndInv, Bookkeeping
  <1>7. \A t \in Servers, m \in Nonces :
           /\ cache'[t].issued[m] # Absent =>
                 cache[t].issued[m] # Absent \/ (t = s /\ m = n)
           /\ cache'[t].consumed[m] # Absent => cache[t].consumed[m] # Absent
    <2> TAKE t \in Servers, m \in Nonces
    <2>1. CASE t = s
      BY <1>5, <2>1
    <2>2. CASE t # s
      BY <1>3, <2>2
    <2>3. QED
      BY <2>1, <2>2
  <1>8. QED
    BY <1>1, <1>6, <1>7

\* What Serve does: the nonce of the proof, issued and unserved before, is
\* counted as served and is in no issued map afterwards.
LEMMA ServeStep ==
    ASSUME IndInv, NEW h \in Handlers, Serve(h)
    PROVE  \E s \in Servers, n \in Nonces :
              /\ n = nonce[handler[h].fetch]
              /\ tx[handler[h].payment] = "confirmed"
              /\ cache[s].issued[n] # Absent
              /\ served[n] = 0
              /\ served' = [served EXCEPT ![n] = 1]
              /\ UNCHANGED <<used, nonce, shared>>
              /\ \A t \in Servers : cache'[t].issued[n] = Absent
              /\ \A t \in Servers, m \in Nonces :
                    /\ cache'[t].issued[m] # Absent => cache[t].issued[m] # Absent
                    /\ cache'[t].consumed[m] # Absent =>
                          cache[t].consumed[m] # Absent \/ m = n
  <1> DEFINE i == handler[h]
             s == i.server
             n == nonce[i.fetch]
  <1>1. i \in Invocation /\ n \in Nonces /\ i.fetch \in Fetches
    BY DEF IndInv, Serve, TypeOK, Bookkeeping, Backed, Invocation
  <1>2. s \in Servers /\ i.expires \in Nat /\ cache[s] \in Cache /\ clock \in Nat
    BY <1>1, LaterTimes DEF IndInv, Invocation, TypeOK
  <1>3. /\ CanConsume(cache[s], n, i.expires, clock)
        /\ cache' = [cache EXCEPT ![s] = ConsumeNonce(@, n, i.expires, clock)]
        /\ served' = [served EXCEPT ![n] = @ + 1]
        /\ tx[i.payment] = "confirmed"
        /\ UNCHANGED <<used, nonce, shared>>
    BY DEF Serve, Consumable, TxVerified, clientVars
  <1> DEFINE c == cache[s]
             d == ConsumeNonce(c, n, i.expires, clock)
  <1>4. c.issued[n] # Absent
    BY <1>1, <1>2, <1>3, CanConsumeIssued
  <1>5. served[n] = 0 /\ \A t \in Servers \ {s} : cache[t].issued[n] = Absent
    BY <1>1, <1>2, <1>4 DEF IndInv, IssuedUnserved
  <1>6. served' = [served EXCEPT ![n] = 1]
    BY <1>3, <1>5
  <1>7. cache' = [cache EXCEPT ![s] = d] /\ DOMAIN cache = Servers
    BY <1>3 DEF IndInv, TypeOK
  <1> DEFINE e == i.expires
  <1>8. c \in Cache /\ n \in Nonces /\ e \in Nat /\ clock \in Nat
    BY <1>1, <1>2
  <1>9. c = cache[s] /\ d = ConsumeNonce(c, n, e, clock)
    OBVIOUS
  <1> HIDE DEF c, n, e, s, i, d
  <1>10. /\ d.issued[n] = Absent
         /\ \A m \in Nonces : d.issued[m] # Absent => c.issued[m] # Absent
         /\ \A m \in Nonces :
               d.consumed[m] # Absent => c.consumed[m] # Absent \/ m = n
    BY <1>8, <1>9, ConsumeNonceEntries
  <1>11. cache'[s] = d /\ \A t \in Servers \ {s} : cache'[t] = cache[t]
    BY <1>2, <1>7
  <1>12. \A t \in Servers : cache'[t].issued[n] = Absent
    BY <1>5, <1>10, <1>11
  <1>13. \A t \in Servers, m \in Nonces :
            /\ cache'[t].issued[m] # Absent => cache[t].issued[m] # Absent
            /\ cache'[t].consumed[m] # Absent =>
                  cache[t].consumed[m] # Absent \/ m = n
    <2> TAKE t \in Servers, m \in Nonces
    <2>1. CASE t = s
      BY <1>9, <1>10, <1>11, <2>1
    <2>2. CASE t # s
      BY <1>11, <2>2
    <2>3. QED
      BY <2>1, <2>2
  <1>14. n = nonce[handler[h].fetch] /\ tx[handler[h].payment] = "confirmed"
    BY <1>3 DEF n, i
  <1>15. cache[s].issued[n] # Absent
    BY <1>4, <1>9
  <1>16. s \in Servers /\ n \in Nonces /\ UNCHANGED <<used, nonce, shared>>
    BY <1>1, <1>2, <1>3
  <1>17. QED
    BY <1>5, <1>6, <1>12, <1>13, <1>14, <1>15, <1>16

\* No step serves a nonce twice, or leaves a served nonce issued.
LEMMA ServiceNext == IndInv /\ [Next]_vars => AtMostOnce' /\ IssuedUnserved'
  <1> SUFFICES ASSUME IndInv, [Next]_vars PROVE AtMostOnce' /\ IssuedUnserved'
    OBVIOUS
  <1>1. ASSUME NEW s \in Servers, NEW f \in Fetches, Challenge(s, f)
        PROVE  AtMostOnce' /\ IssuedUnserved'
    <2>1. PICK n \in Nonces \ used :
              \A t \in Servers, m \in Nonces :
                 /\ cache'[t].issued[m] # Absent =>
                       cache[t].issued[m] # Absent \/ (t = s /\ m = n)
                 /\ cache'[t].consumed[m] # Absent =>
                       cache[t].consumed[m] # Absent
      BY <1>1, ChallengeStep
    <2>2. UNCHANGED served
      BY <1>1 DEF Challenge
    <2>3. /\ served[n] = 0
          /\ \A t \in Servers : cache[t].issued[n] = Absent
      BY DEF IndInv, TypeOK, Bookkeeping
    <2>4. QED
      BY <2>1, <2>2, <2>3 DEF IndInv, AtMostOnce, IssuedUnserved
  <1>2. ASSUME NEW h \in Handlers, Serve(h)
        PROVE  AtMostOnce' /\ IssuedUnserved'
    <2>1. PICK n \in Nonces :
              /\ served[n] = 0
              /\ served' = [served EXCEPT ![n] = 1]
              /\ \A t \in Servers : cache'[t].issued[n] = Absent
              /\ \A t \in Servers, m \in Nonces :
                    /\ cache'[t].issued[m] # Absent => cache[t].issued[m] # Absent
                    /\ cache'[t].consumed[m] # Absent =>
                          cache[t].consumed[m] # Absent \/ m = n
      BY <1>2, ServeStep
    <2>2. served'[n] = 1 /\ \A m \in Nonces \ {n} : served'[m] = served[m]
      BY <2>1 DEF IndInv, TypeOK
    <2>3. QED
      BY <2>1, <2>2 DEF IndInv, AtMostOnce, IssuedUnserved
  <1>3. CASE CachesShrink /\ UNCHANGED <<served, used, nonce>>
    BY <1>3 DEF IndInv, AtMostOnce, IssuedUnserved, CachesShrink
  <1>4. QED
    BY <1>1, <1>2, <1>3, QuietSteps DEF IndInv

\* A confirmed transaction is the payment for the nonce of its call.
LEMMA ConfirmedIsPaid ==
    ASSUME IndInv, NEW g \in Fetches, tx[g] = "confirmed"
    PROVE  nonce[g] \in Paid
  BY DEF IndInv, TypeOK, Bookkeeping, Paid

\* A payment that is confirmed, for a challenge that was received, stays so.
LEMMA PaidStays == IndInv /\ [Next]_vars => Paid \subseteq Paid'
  <1> SUFFICES ASSUME IndInv, [Next]_vars, NEW n \in Nonces, NEW g \in Fetches,
                      nonce[g] = n, tx[g] = "confirmed"
               PROVE  nonce'[g] = n /\ tx'[g] = "confirmed"
    BY DEF Paid
  <1>1. nonce[g] # None
    BY X402Assumption
  <1>2. ASSUME NEW s \in Servers, NEW f \in Fetches, Challenge(s, f)
        PROVE  nonce'[g] = n /\ tx'[g] = "confirmed"
    <2>1. nonce[f] = None /\ \E m : nonce' = [nonce EXCEPT ![f] = m]
      BY <1>2, ChallengeStep
    <2>2. QED
      BY <1>1, <1>2, <2>1 DEF Challenge, IndInv, TypeOK
  <1>3. ASSUME NEW f \in Fetches, Client(f) \/ Chain(f)
        PROVE  nonce'[g] = n /\ tx'[g] = "confirmed"
    <2>1. CASE Pay(f)
      <3>1. f # g
        BY <2>1 DEF Pay, IndInv, Bookkeeping
      <3>2. QED
        BY <2>1, <3>1 DEF Pay, IndInv, TypeOK
    <2>2. CASE Present(f) \/ Throw(f) \/ Chain(f)
      BY <2>2 DEF Present, Throw, Chain, Process, Confirm, Drop, clientVars,
                  IndInv, TypeOK
    <2>3. QED
      BY <1>3, <2>1, <2>2 DEF Client
  <1>4. CASE UNCHANGED <<nonce, tx>>
    BY <1>4
  <1>5. QED
    BY <1>2, <1>3, <1>4
       DEF Next, vars, Tick, Restart, Accept, RefuseProof, BeginVerify, Respond,
           Serve, Conflict, RefuseTx, clientVars

\* Every step preserves what relates nonces, calls and payments.
LEMMA BookkeepingNext == IndInv /\ [Next]_vars => Bookkeeping'
  <1> SUFFICES ASSUME IndInv, [Next]_vars PROVE Bookkeeping'
    OBVIOUS
  <1>1. Paid \subseteq Paid'
    BY PaidStays
  <1>2. ASSUME NEW s \in Servers, NEW f \in Fetches, Challenge(s, f)
        PROVE  Bookkeeping'
    <2>1. PICK n \in Nonces \ used :
              /\ used' = used \cup {n}
              /\ nonce[f] = None
              /\ nonce' = [nonce EXCEPT ![f] = n]
              /\ \A t \in Servers, m \in Nonces :
                    cache'[t].issued[m] # Absent =>
                       cache[t].issued[m] # Absent \/ (t = s /\ m = n)
      BY <1>2, ChallengeStep
    <2>2. /\ pc' = [pc EXCEPT ![f] = "challenged"]
          /\ pc[f] = "asked"
          /\ UNCHANGED <<handler, shared, served, tx>>
      BY <1>2 DEF Challenge
    <2>3. n # None
      BY X402Assumption
    <2>4. \A t \in Servers, m \in Nonces : cache'[t].issued[m] # Absent => m \in used'
      BY <2>1 DEF IndInv, Bookkeeping
    <2>5. \A g \in Fetches :
             /\ nonce'[g] # None => nonce'[g] \in used'
             /\ pc'[g] = "asked" => nonce'[g] = None
             /\ pc'[g] \in {"asked", "challenged"} => tx'[g] = "none"
             /\ pc'[g] \in {"challenged", "paying", "presented"} => nonce'[g] # None
             /\ pc'[g] \in {"paying", "presented"} => tx'[g] # "none"
             /\ tx'[g] # "none" => nonce'[g] # None
      BY <2>1, <2>2, <2>3 DEF IndInv, Bookkeeping, TypeOK
    <2>6. ASSUME NEW h \in Handlers, handler'[h] # None PROVE Backed(handler[h])'
      <3>1. PICK i \in Invocation : i = handler[h] /\ i = handler'[h]
        BY <2>2, <2>6 DEF IndInv, TypeOK
      <3>2. /\ nonce[i.fetch] # None /\ tx[i.payment] # "none"
            /\ i.payment = i.fetch \/ nonce[i.fetch] \in shared
        BY <2>2, <2>6, <3>1 DEF IndInv, Bookkeeping, Backed
      <3>3. nonce'[i.fetch] = nonce[i.fetch]
        BY <2>1, <3>1, <3>2 DEF IndInv, TypeOK, Invocation
      <3>4. QED
        BY <2>2, <3>1, <3>2, <3>3 DEF Backed
    <2>7. \A m \in Nonces : served'[m] > 0 =>
             m \in used' /\ (m \in Paid' \/ (m \in shared' /\ Paid' # {}))
      BY <1>1, <2>1, <2>2 DEF IndInv, Bookkeeping
    <2>8. shared' \subseteq used'
      BY <2>1, <2>2 DEF IndInv, Bookkeeping
    <2>9. QED
      BY <2>4, <2>5, <2>6, <2>7, <2>8 DEF Bookkeeping
  <1>3. ASSUME NEW h \in Handlers, Serve(h)
        PROVE  Bookkeeping'
    <2>1. PICK s \in Servers, n \in Nonces :
              /\ n = nonce[handler[h].fetch]
              /\ tx[handler[h].payment] = "confirmed"
              /\ cache[s].issued[n] # Absent
              /\ served' = [served EXCEPT ![n] = 1]
              /\ UNCHANGED <<used, nonce, shared>>
              /\ \A t \in Servers, m \in Nonces :
                    cache'[t].issued[m] # Absent => cache[t].issued[m] # Absent
      BY <1>3, ServeStep
    <2>2. /\ handler[h] \in Invocation /\ Backed(handler[h])
          /\ handler' = [handler EXCEPT ![h] = None]
          /\ UNCHANGED <<pc, tx>>
      BY <1>3 DEF Serve, clientVars, IndInv, TypeOK, Bookkeeping
    <2>3. n \in used /\ (n \in Paid \/ (n \in shared /\ Paid # {}))
      BY <2>1, <2>2, ConfirmedIsPaid DEF IndInv, Bookkeeping, Backed, Invocation
    <2>4. \A m \in Nonces : served'[m] > 0 =>
             m \in used' /\ (m \in Paid' \/ (m \in shared' /\ Paid' # {}))
      BY <1>1, <2>1, <2>3 DEF IndInv, Bookkeeping, TypeOK
    <2>5. \A g \in Handlers : handler'[g] # None => Backed(handler[g])'
      BY <2>1, <2>2 DEF IndInv, Bookkeeping, TypeOK, Backed
    <2>6. QED
      BY <2>1, <2>2, <2>4, <2>5 DEF IndInv, Bookkeeping
  <1>4. ASSUME CachesShrink, UNCHANGED <<served, used, nonce>>,
               shared \subseteq shared', shared' \subseteq used,
               \A f \in Fetches :
                  /\ pc'[f] = "asked" => pc[f] = "asked"
                  /\ pc'[f] \in {"asked", "challenged"} =>
                        pc[f] \in {"asked", "challenged"} /\ tx'[f] = tx[f]
                  /\ pc'[f] \in {"challenged", "paying", "presented"} =>
                        pc[f] \in {"challenged", "paying", "presented"}
                  /\ pc'[f] \in {"paying", "presented"} =>
                        pc[f] \in {"paying", "presented"} \/ tx'[f] # "none"
                  /\ tx'[f] # "none" => tx[f] # "none" \/ pc[f] = "challenged"
                  /\ tx[f] # "none" => tx'[f] # "none",
               \A h \in Handlers : handler'[h] # None =>
                  handler'[h] = handler[h] \/ Backed(handler[h])'
        PROVE  Bookkeeping'
    <2>1. \A s \in Servers, n \in Nonces : cache'[s].issued[n] # Absent => n \in used'
      BY <1>4 DEF CachesShrink, IndInv, Bookkeeping
    <2>2. ASSUME NEW h \in Handlers, handler'[h] # None PROVE Backed(handler[h])'
      <3>1. CASE handler'[h] = handler[h]
        <4>1. handler[h].payment \in Fetches /\ Backed(handler[h])
          BY <2>2, <3>1 DEF IndInv, TypeOK, Bookkeeping, Invocation
        <4>2. QED
          BY <1>4, <3>1, <4>1 DEF Backed
      <3>2. QED
        BY <1>4, <2>2, <3>1
    <2>3. \A n \in Nonces : served'[n] > 0 =>
             n \in used' /\ (n \in Paid' \/ (n \in shared' /\ Paid' # {}))
      BY <1>1, <1>4 DEF IndInv, Bookkeeping
    <2>4. QED
      BY <1>4, <2>1, <2>2, <2>3 DEF IndInv, Bookkeeping
  <1>5. ASSUME UNCHANGED <<pc, tx, handler, shared>>, CachesShrink,
               UNCHANGED <<served, used, nonce>>
        PROVE  Bookkeeping'
    BY <1>1, <1>5 DEF CachesShrink, IndInv, Bookkeeping, Backed
  <1>6. ASSUME CachesShrink, UNCHANGED <<served, used, nonce>>
        PROVE  Bookkeeping'
    <2>0. shared \subseteq used
      BY DEF IndInv, Bookkeeping
    <2>1. CASE Tick \/ UNCHANGED vars
      BY <1>5, <1>6, <2>1 DEF Tick, vars, serverVars, clientVars
    <2>2. ASSUME NEW f \in Fetches, Client(f) \/ Chain(f) PROVE Bookkeeping'
      <3>1. UNCHANGED <<handler, shared>>
        BY <2>2 DEF Client, Chain, Pay, Present, Throw, Process, Confirm, Drop,
                    serverVars
      <3>2. \A g \in Fetches :
               /\ pc'[g] = "asked" => pc[g] = "asked"
               /\ pc'[g] \in {"asked", "challenged"} =>
                     pc[g] \in {"asked", "challenged"} /\ tx'[g] = tx[g]
               /\ pc'[g] \in {"challenged", "paying", "presented"} =>
                     pc[g] \in {"challenged", "paying", "presented"}
               /\ pc'[g] \in {"paying", "presented"} =>
                     pc[g] \in {"paying", "presented"} \/ tx'[g] # "none"
               /\ tx'[g] # "none" => tx[g] # "none" \/ pc[g] = "challenged"
               /\ tx[g] # "none" => tx'[g] # "none"
        BY <2>2 DEF Client, Chain, Pay, Present, Throw, Process, Confirm, Drop,
                    clientVars, IndInv, TypeOK, Bookkeeping
      <3>3. QED
        BY <1>4, <1>6, <2>0, <3>1, <3>2
    <2>3. ASSUME NEW s \in Servers, Restart(s) PROVE Bookkeeping'
      <3>1. /\ UNCHANGED <<pc, tx, shared>>
            /\ \A h \in Handlers : handler'[h] # None => handler'[h] = handler[h]
        BY <2>3 DEF Restart, clientVars
      <3>2. QED
        BY <1>4, <1>6, <2>0, <3>1
    <2>4. ASSUME NEW s \in Servers, NEW f \in Fetches, Accept(s, f) PROVE Bookkeeping'
      <3>1. CASE RefuseProof(s, f)
        BY <1>5, <1>6, <3>1 DEF RefuseProof, clientVars
      <3>2. ASSUME NEW h \in Handlers, NEW g \in Fetches, BeginVerify(h, s, f, g)
            PROVE  Bookkeeping'
        <4>1. nonce[f] # None /\ nonce[f] \in used /\ tx[g] # "none"
          BY <3>2 DEF BeginVerify, Receive, IndInv, Bookkeeping, TypeOK
        <4>2. /\ UNCHANGED <<pc, tx>>
              /\ shared' = shared \cup (IF g = f THEN {} ELSE {nonce[f]})
              /\ handler'[h].fetch = f /\ handler'[h].payment = g
              /\ \A k \in Handlers \ {h} : handler'[k] = handler[k]
          BY <3>2 DEF BeginVerify, clientVars, IndInv, TypeOK
        <4>3. Backed(handler[h])'
          BY <1>6, <4>1, <4>2 DEF Backed
        <4>4. \A k \in Handlers : handler'[k] # None =>
                 handler'[k] = handler[k] \/ Backed(handler[k])'
          BY <4>2, <4>3
        <4>5. shared \subseteq shared' /\ shared' \subseteq used
          BY <2>0, <4>1, <4>2
        <4>6. QED
          BY <1>4, <1>6, <4>2, <4>4, <4>5
      <3>3. QED
        BY <2>4, <3>1, <3>2 DEF Accept
    <2>5. ASSUME NEW h \in Handlers, Conflict(h) \/ RefuseTx(h) PROVE Bookkeeping'
      <3>1. /\ UNCHANGED <<pc, tx, shared>>
            /\ \A k \in Handlers : handler'[k] # None => handler'[k] = handler[k]
        BY <2>5 DEF Conflict, RefuseTx, clientVars, IndInv, TypeOK
      <3>2. QED
        BY <1>4, <1>6, <2>0, <3>1
    <2>6. QED
      BY <1>2, <1>3, <2>1, <2>2, <2>3, <2>4, <2>5 DEF Next, Respond
  <1>7. QED
    BY <1>2, <1>3, <1>6, QuietSteps DEF IndInv

-----------------------------------------------------------------------------
(* The theorems                                                            *)

\* The inductive invariant holds of every reachable state.
THEOREM Invariance == Spec => []IndInv
  <1>1. Init => IndInv
    <2> SUFFICES ASSUME Init PROVE IndInv
      OBVIOUS
    <2>1. TypeOK
      BY InitType
    <2>2. AtMostOnce /\ IssuedUnserved
      BY EmptyCacheType DEF Init, AtMostOnce, IssuedUnserved
    <2>3. Bookkeeping
      BY EmptyCacheType DEF Init, Bookkeeping
    <2>4. QED
      BY <2>1, <2>2, <2>3 DEF IndInv
  <1>2. IndInv /\ [Next]_vars => IndInv'
    <2>1. IndInv => TypeOK /\ HasNonce
      BY DEF IndInv, Bookkeeping, Backed, HasNonce
    <2>2. QED
      BY <2>1, NextType, ServiceNext, BookkeepingNext DEF IndInv
  <1>3. QED
    BY <1>1, <1>2, PTL DEF Spec

\* The state stays within its types.
THEOREM TypeCorrect == Spec => []TypeOK
  BY Invariance, PTL DEF IndInv

\* The protected resource runs at most once for a nonce.
THEOREM ServedAtMostOnce == Spec => []AtMostOnce
  BY Invariance, PTL DEF IndInv

\* A nonce issued somewhere is issued only there and was never served.
THEOREM IssuedIsUnserved == Spec => []IssuedUnserved
  BY Invariance, PTL DEF IndInv

\* The middleware, its clients and the chain together implement the abstract
\* service: it runs once at most for a nonce, after its payment is confirmed,
\* or that of another nonce which a proof for this one has named.
THEOREM Implementation == Spec => ImplementsPaidService
  <1>1. Init => PS!Init
    BY DEF Init, PS!Init, Paid
  <1>2. IndInv /\ [Next]_vars => [PS!Next]_(PS!vars)
    <2> SUFFICES ASSUME IndInv, [Next]_vars PROVE [PS!Next]_(PS!vars)
      OBVIOUS
    <2> USE DEF PS!vars
    <2>1. ASSUME NEW s \in Servers, NEW f \in Fetches, Challenge(s, f)
          PROVE  [PS!Next]_(PS!vars)
      <3>1. PICK n \in Nonces \ used :
                /\ used' = used \cup {n}
                /\ nonce[f] = None
                /\ nonce' = [nonce EXCEPT ![f] = n]
        BY <2>1, ChallengeStep
      <3>2. tx[f] = "none" /\ UNCHANGED <<served, tx, shared>>
        BY <2>1 DEF Challenge, IndInv, Bookkeeping
      <3>3. Paid' = Paid
        BY <3>1, <3>2 DEF Paid, IndInv, TypeOK
      <3>4. PS!Challenge(n)
        BY <3>1, <3>2, <3>3 DEF PS!Challenge
      <3>5. QED
        BY <3>4 DEF PS!Next
    <2>2. ASSUME NEW h \in Handlers, Serve(h)
          PROVE  [PS!Next]_(PS!vars)
      <3>1. PICK n \in Nonces :
                /\ n = nonce[handler[h].fetch]
                /\ tx[handler[h].payment] = "confirmed"
                /\ served[n] = 0
                /\ served' = [served EXCEPT ![n] = 1]
                /\ UNCHANGED <<used, nonce, shared>>
        BY <2>2, ServeStep
      <3>2. /\ handler[h].fetch \in Fetches /\ handler[h].payment \in Fetches
            /\ Backed(handler[h]) /\ UNCHANGED tx
        BY <2>2 DEF Serve, IndInv, TypeOK, Invocation, Bookkeeping
      <3> DEFINE m == nonce[handler[h].payment]
      <3>3. m \in Paid /\ m \in Nonces /\ Paid' = Paid
        BY <3>1, <3>2, ConfirmedIsPaid DEF Paid
      <3>4. n \in used /\ (m = n \/ n \in shared)
        BY <3>1, <3>2 DEF Backed, IndInv, Bookkeeping
      <3>5. PS!Serve(n, m)
        BY <3>1, <3>3, <3>4 DEF PS!Serve
      <3>6. QED
        BY <3>3, <3>5 DEF PS!Next
    <2>3. ASSUME NEW f \in Fetches, Confirm(f)
          PROVE  [PS!Next]_(PS!vars)
      <3>1. /\ nonce[f] \in Nonces /\ nonce[f] \in used
            /\ tx' = [tx EXCEPT ![f] = "confirmed"]
            /\ UNCHANGED <<nonce, used, served, shared>>
        BY <2>3 DEF Confirm, IndInv, TypeOK, Bookkeeping, serverVars, clientVars
      <3>2. Paid' = Paid \cup {nonce[f]}
        BY <3>1 DEF Paid, IndInv, TypeOK
      <3>3. PS!Pay(nonce[f])
        BY <3>1, <3>2 DEF PS!Pay
      <3>4. QED
        BY <3>1, <3>3 DEF PS!Next
    <2>4. ASSUME NEW f \in Fetches, Client(f) \/ Process(f) \/ Drop(f)
          PROVE  UNCHANGED <<used, nonce, served, shared>> /\ Paid' = Paid
      <3>1. UNCHANGED <<used, nonce, served, shared>>
        BY <2>4 DEF Client, Pay, Present, Throw, Process, Drop, serverVars, clientVars
      <3>2. \A g \in Fetches : tx'[g] = "confirmed" <=> tx[g] = "confirmed"
        BY <2>4 DEF Client, Pay, Present, Throw, Process, Drop, clientVars,
                    IndInv, TypeOK, Bookkeeping
      <3>3. QED
        BY <3>1, <3>2 DEF Paid
    <2>5. ASSUME UNCHANGED <<used, nonce, served, shared, tx>>
          PROVE  UNCHANGED <<used, nonce, served, shared>> /\ Paid' = Paid
      BY <2>5 DEF Paid
    <2>6. CASE UNCHANGED <<used, nonce, served, shared>> /\ Paid' = Paid
      BY <2>6
    <2>7. ASSUME NEW h \in Handlers, NEW s \in Servers, NEW f \in Fetches,
                 NEW g \in Fetches, BeginVerify(h, s, f, g)
          PROVE  [PS!Next]_(PS!vars)
      <3>1. /\ shared' = shared \cup (IF g = f THEN {} ELSE {nonce[f]})
            /\ UNCHANGED <<used, nonce, served, tx>>
        BY <2>7 DEF BeginVerify, clientVars
      <3>2. Paid' = Paid
        BY <3>1 DEF Paid
      <3>3. CASE g = f
        BY <3>1, <3>2, <3>3
      <3>4. CASE g # f
        <4>1. nonce[f] \in used /\ nonce[f] \in Nonces
          BY <2>7, <3>4 DEF BeginVerify, Receive, IndInv, TypeOK, Bookkeeping
        <4>2. PS!Share(nonce[f])
          BY <3>1, <3>2, <3>4, <4>1 DEF PS!Share
        <4>3. QED
          BY <4>1, <4>2 DEF PS!Next
      <3>5. QED
        BY <3>3, <3>4
    <2>8. QED
      BY <2>1, <2>2, <2>3, <2>4, <2>5, <2>6, <2>7
         DEF Next, vars, Tick, Restart, Chain, Accept, RefuseProof, 
             Respond, Conflict, RefuseTx, serverVars, clientVars
  <1>3. QED
    BY <1>1, <1>2, Invariance, PTL DEF Spec, ImplementsPaidService, PS!Spec

\* Entry n of instance s leaves the issued map, or is changed, before it expires.
Burned(s, n) == /\ cache[s].issued[n] > clock'
                /\ cache'[s].issued[n] # cache[s].issued[n]

\* It has been served, or the instance was restarted.
LEMMA BurnedIsServed ==
    ASSUME IndInv, [Next]_vars, NEW s \in Servers, NEW n \in Nonces, Burned(s, n)
    PROVE  served'[n] = served[n] + 1 \/ Restart(s)
  <1> USE DEF Burned
  <1>1. /\ cache \in [Servers -> Cache]
        /\ cache[s] \in Cache
        /\ clock \in Nat
        /\ cache[s].issued[n] \in Expiries
    BY LaterTimes DEF IndInv, TypeOK, Cache
  <1>2. cache'[s] # cache[s]
    OBVIOUS
  <1>3. ASSUME NEW t \in Servers, NEW f \in Fetches, Challenge(t, f) PROVE FALSE
    <2>1. PICK m \in Nonces \ used, later \in Later :
              /\ cache' = [cache EXCEPT ![t] = IssueNonce(@, m, clock + Ttl, later)]
              /\ clock' = later
      BY <1>3 DEF Challenge
    <2>2. t = s
      BY <1>1, <1>2, <2>1
    <2>3. clock + Ttl \in Nat /\ later \in Nat
      BY LaterTimes DEF IndInv
    <2>4. cache[s].issued[n] # Absent
      BY <2>1, <2>3 DEF Absent
    <2>5. n # m
      BY <2>4 DEF IndInv, Bookkeeping
    <2>6. cache'[s] = IssueNonce(cache[s], m, clock + Ttl, later)
      BY <1>1, <2>1, <2>2
    <2>7. cache'[s].issued[n] = cache[s].issued[n]
      BY <1>1, <2>1, <2>3, <2>5, <2>6, UnexpiredIssuedKept
    <2>8. QED
      BY <2>7
  <1>4. ASSUME NEW t \in Servers, cache' = [cache EXCEPT ![t] = Prune(@, clock)],
               clock' \in Nat, clock <= clock'
        PROVE  FALSE
    <2>1. cache'[s] = Prune(cache[s], clock)
      BY <1>1, <1>2, <1>4
    <2>2. cache[s].issued[n] > clock
      BY <1>1, <1>4 DEF Expiries, Absent
    <2>3. cache'[s].issued[n] = cache[s].issued[n]
      BY <1>1, <2>1, <2>2, PruneKeeps
    <2>4. QED
      BY <2>3
  <1>5. ASSUME NEW t \in Servers, NEW f \in Fetches, Accept(t, f) PROVE FALSE
    <2>1. /\ cache' = [cache EXCEPT ![t] = Prune(@, clock)]
          /\ clock' \in Later
      BY <1>5 DEF Accept, RefuseProof, BeginVerify
    <2>2. QED
      BY <1>4, <2>1, LaterTimes DEF IndInv
  <1>6. ASSUME NEW h \in Handlers, Conflict(h) PROVE FALSE
    <2>1. /\ handler[h].server \in Servers
          /\ cache' = [cache EXCEPT ![handler[h].server] = Prune(@, clock)]
          /\ clock' = clock
      BY <1>6 DEF Conflict, IndInv, TypeOK, Invocation
    <2>2. clock' \in Nat /\ clock <= clock'
      BY <1>1, <2>1
    <2>3. QED
      BY <1>4, <2>1, <2>2
  <1>7. ASSUME NEW h \in Handlers, Serve(h)
        PROVE  served'[n] = served[n] + 1
    <2> DEFINE i == handler[h]
               m == nonce[i.fetch]
    <2>1. /\ i \in Invocation /\ m \in Nonces
          /\ cache' = [cache EXCEPT ![i.server] =
                            ConsumeNonce(@, m, i.expires, clock)]
          /\ served' = [served EXCEPT ![m] = @ + 1]
          /\ clock' = clock
      BY <1>7 DEF Serve, IndInv, TypeOK, Bookkeeping, Backed, Invocation
    <2>2. CASE n = m
      BY <2>1, <2>2 DEF IndInv, TypeOK
    <2>3. CASE n # m
      <3>1. i.expires \in Nat /\ i.server \in Servers
        BY <2>1 DEF Invocation
      <3>2. cache'[s] = ConsumeNonce(cache[s], m, i.expires, clock)
        BY <1>1, <1>2, <2>1, <3>1
      <3> HIDE DEF m, i
      <3>3. cache'[s].issued[n] = cache[s].issued[n]
        BY <1>1, <2>1, <2>3, <3>1, <3>2, UnexpiredIssuedKept
      <3>4. QED
        BY <3>3
    <2>4. QED
      BY <2>2, <2>3
  <1>8. ASSUME NEW t \in Servers, Restart(t) PROVE Restart(s)
    BY <1>1, <1>2, <1>8 DEF Restart
  <1>9. QED
    BY <1>2, <1>3, <1>5, <1>6, <1>7, <1>8
       DEF Next, vars, Tick, Client, Chain, Pay, Present, Throw, Process,
           Confirm, Drop, Respond, RefuseTx, serverVars, clientVars

\* A nonce that has not expired leaves the issued map only by being served,
\* or by a restart of the instance that holds it.
THEOREM OnlyServiceBurns == Spec => BurnedOnlyByService
  <1>1. IndInv /\ [Next]_vars =>
            [\A s \in Servers, n \in Nonces :
                Burned(s, n) => served'[n] = served[n] + 1 \/ Restart(s)]_vars
    BY BurnedIsServed
  <1>2. QED
    BY <1>1, Invariance, PTL DEF Spec, BurnedOnlyByService, Burned

-----------------------------------------------------------------------------
(* Pruning                                                                 *)

\* A cache without an entry that has expired at a time.
PrunedAt(c, now) ==
    \A n \in Nonces : c.issued[n] \notin 0..now /\ c.consumed[n] \notin 0..now

\* Every operation of the cache leaves it pruned; an entry that is added is one
\* that has not expired.
LEMMA OperationsPrune ==
    ASSUME NEW c \in Cache, NEW now \in Nat
    PROVE  /\ PrunedAt(Prune(c, now), now)
           /\ \A n \in Nonces, e \in Nat : e > now =>
                 PrunedAt(IssueNonce(c, n, e, now), now) /\ PrunedAt(ConsumeNonce(c, n, e, now), now)
           /\ PrunedAt(EmptyCache, now)
  <1>1. c.issued \in [Nonces -> Expiries] /\ c.consumed \in [Nonces -> Expiries]
    BY DEF Cache
  <1>2. ASSUME NEW map \in [Nonces -> Expiries]
        PROVE  /\ Unexpired(map, now) \in [Nonces -> Expiries]
               /\ \A n \in Nonces : Unexpired(map, now)[n] \notin 0..now
    BY DEF Unexpired, Expiries, Absent
  <1>3. Absent \notin 0..now
    BY DEF Absent
  <1>4. PrunedAt(Prune(c, now), now)
    BY <1>1, <1>2 DEF PrunedAt, Prune
  <1>5. ASSUME NEW n \in Nonces, NEW e \in Nat, e > now
        PROVE  PrunedAt(IssueNonce(c, n, e, now), now) /\ PrunedAt(ConsumeNonce(c, n, e, now), now)
    BY <1>1, <1>2, <1>3, <1>5 DEF PrunedAt, IssueNonce, ConsumeNonce
  <1>6. PrunedAt(EmptyCache, now)
    BY <1>3 DEF PrunedAt, EmptyCache
  <1>7. QED
    BY <1>4, <1>5, <1>6

\* A cache that a step changes is pruned at the time the step began.
LEMMA ChangedIsPruned ==
    ASSUME IndInv, [Next]_vars, NEW s \in Servers, cache'[s] # cache[s]
    PROVE  PrunedAt(cache'[s], clock)
  <1>1. /\ cache \in [Servers -> Cache] /\ cache[s] \in Cache
        /\ clock \in Nat /\ clock + Ttl > clock /\ clock + Ttl \in Nat
        /\ \A t \in Later : t \in Nat /\ t >= clock
    BY LaterTimes, X402Assumption DEF IndInv, TypeOK
  <1>2. ASSUME NEW t \in Servers, NEW f \in Fetches, Challenge(t, f)
        PROVE  PrunedAt(cache'[s], clock)
    <2>1. PICK n \in Nonces \ used, later \in Later :
              cache' = [cache EXCEPT ![t] = IssueNonce(@, n, clock + Ttl, later)]
      BY <1>2 DEF Challenge
    <2>2. cache'[s] = IssueNonce(cache[s], n, clock + Ttl, later)
      BY <1>1, <2>1
    <2>3. PrunedAt(Prune(cache[s], later), later)
      BY <1>1, OperationsPrune
    <2>4. PrunedAt(Prune(cache[s], later), clock)
      BY <1>1, <2>3 DEF PrunedAt, Prune, Unexpired, Cache, Expiries, Absent
    <2>5. ASSUME NEW m \in Nonces
          PROVE  /\ cache'[s].issued[m] \in {Prune(cache[s], later).issued[m], clock + Ttl}
                 /\ cache'[s].consumed[m] = Prune(cache[s], later).consumed[m]
      BY <2>2 DEF IssueNonce, Prune, Unexpired
    <2>6. QED
      BY <1>1, <2>4, <2>5 DEF PrunedAt
  <1>3. ASSUME NEW t \in Servers, cache' = [cache EXCEPT ![t] = Prune(@, clock)]
        PROVE  PrunedAt(cache'[s], clock)
    BY <1>1, <1>3, OperationsPrune
  <1>4. ASSUME NEW t \in Servers, NEW f \in Fetches, Accept(t, f)
        PROVE  PrunedAt(cache'[s], clock)
    BY <1>3, <1>4 DEF Accept, RefuseProof, BeginVerify
  <1>5. ASSUME NEW h \in Handlers, Conflict(h)  PROVE PrunedAt(cache'[s], clock)
    <2>1. handler[h].server \in Servers
      BY <1>5 DEF Conflict, IndInv, TypeOK, Invocation
    <2>2. QED
      BY <1>3, <1>5, <2>1 DEF Conflict
  <1>6. ASSUME NEW h \in Handlers, Serve(h)  PROVE PrunedAt(cache'[s], clock)
    <2> DEFINE i == handler[h]
               m == nonce[i.fetch]
    <2>1. /\ i.server \in Servers /\ i.expires \in Nat /\ m \in Nonces
          /\ CanConsume(cache[i.server], m, i.expires, clock)
          /\ cache' = [cache EXCEPT ![i.server] = ConsumeNonce(@, m, i.expires, clock)]
      BY <1>6 DEF Serve, Consumable, IndInv, TypeOK, Bookkeeping, Backed, Invocation
    <2> HIDE DEF i, m
    <2>2. cache'[s] = ConsumeNonce(cache[s], m, i.expires, clock) /\ i.server = s
      BY <1>1, <2>1
    <2>3. i.expires > clock
      BY <1>1, <2>1, <2>2, CanConsumeIssued
    <2>4. QED
      BY <1>1, <2>1, <2>2, <2>3, OperationsPrune
  <1>7. ASSUME NEW t \in Servers, Restart(t)  PROVE PrunedAt(cache'[s], clock)
    BY <1>1, <1>7, OperationsPrune DEF Restart
  <1>8. ASSUME \/ Tick \/ UNCHANGED vars
               \/ \E f \in Fetches : Client(f) \/ Chain(f)
               \/ \E h \in Handlers : RefuseTx(h)
        PROVE  FALSE
    BY <1>8 DEF Tick, Client, Chain, Pay, Present, Throw, Process, Confirm, Drop, RefuseTx,
                vars, serverVars, clientVars
  <1>9. QED
    BY <1>2, <1>4, <1>5, <1>6, <1>7, <1>8 DEF Next, Respond

\* nonce-cache.ts: nothing expired survives a use of the cache, so what a process
\* remembers is bounded by the challenges of the last Ttl.
THEOREM CachesArePruned == Spec => CachesStayPruned
  <1>1. IndInv /\ [Next]_vars =>
            [\A s \in Servers : cache'[s] # cache[s] =>
                \A n \in Nonces : /\ cache'[s].issued[n] \notin 0..clock
                                  /\ cache'[s].consumed[n] \notin 0..clock]_vars
    BY ChangedIsPruned DEF PrunedAt
  <1>2. QED
    BY <1>1, Invariance, PTL DEF Spec, CachesStayPruned

-----------------------------------------------------------------------------
(* One instance                                                            *)

\* When there is one instance, which is not restarted, whose node does not lag
\* and whose clock is not set back, and the client waits for confirmation and
\* names the transaction it made for the challenge.
OneInstance ==
    /\ \A s, t \in Servers : s = t
    /\ "restart" \notin Faults /\ "lag" \notin Faults /\ "clock" \notin Faults
    /\ "share" \notin Faults
    /\ ClientCommitment = "confirmed"

\* A challenge that has not expired can still be answered, or was served.
Answerable(f) ==
    nonce[f] # None =>
        \/ Served(f)
        \/ clock >= expires[f]
        \/ \A s \in Servers : cache[s].issued[nonce[f]] = expires[f]

\* Who presents a proof has paid; an invocation holds the expiry of the proof.
Presented ==
    /\ \A f \in Fetches : pc[f] = "presented" => tx[f] = "confirmed"
    /\ \A h \in Handlers : handler[h] # None =>
          /\ pc[handler[h].fetch] = "presented"
          /\ handler[h].expires = expires[handler[h].fetch]
          /\ handler[h].payment = handler[h].fetch
    /\ \A answer \in answers : nonce[answer[1]] # None

RefusalInv ==
    /\ \A f \in Fetches : Answerable(f)
    /\ Presented
    /\ RefusalHasCause

\* What a step leaves: the clock goes on, and a call keeps its challenge and,
\* once presented, its payment.
LEMMA ChallengesStay ==
    ASSUME OneInstance, IndInv, [Next]_vars
    PROVE  /\ clock \in Nat /\ clock' \in Nat /\ clock <= clock'
           /\ \A f \in Fetches : nonce[f] # None =>
                 /\ nonce'[f] = nonce[f] /\ expires'[f] = expires[f]
                 /\ Served(f) => Served(f)'
           /\ \A f \in Fetches : pc[f] = "presented" /\ tx[f] = "confirmed" =>
                 pc'[f] = "presented" /\ tx'[f] = "confirmed"
  <1>0. TypeOK /\ Bookkeeping /\ clock \in Nat /\ \A t \in Later : t \in Nat /\ clock <= t
    BY LaterTimes DEF IndInv
  <1>1. clock' = clock \/ clock' \in Later
    <2>1. CASE Tick
      BY <1>0, <2>1 DEF Tick, OneInstance, Later, Times
    <2>2. ASSUME NEW s \in Servers, NEW f \in Fetches, Challenge(s, f) \/ Accept(s, f)
          PROVE  clock' \in Later
      BY <2>2 DEF Challenge, Accept, RefuseProof, BeginVerify
    <2>3. ASSUME NEW f \in Fetches, Client(f) \/ Chain(f) PROVE clock' = clock
      BY <2>3 DEF Client, Chain, Pay, Present, Throw, Process, Confirm, Drop
    <2>4. ASSUME NEW h \in Handlers, Respond(h) PROVE clock' = clock
      BY <2>4 DEF Respond, Serve, Conflict, RefuseTx
    <2>5. QED
      BY <2>1, <2>2, <2>3, <2>4 DEF Next, OneInstance, Restart, vars
  <1>2. clock' \in Nat /\ clock <= clock'
    BY <1>0, <1>1
  <1>3. ASSUME NEW f \in Fetches, nonce[f] # None
        PROVE  nonce'[f] = nonce[f] /\ expires'[f] = expires[f]
    <2>1. pc[f] # "asked"
      BY <1>0, <1>3 DEF Bookkeeping
    <2>2. QED
      BY <1>0, <2>1 DEF TypeOK, Next, Tick, Client, Chain, Pay, Present, Throw, Process, Confirm,
             Drop, Restart, Challenge, Accept, RefuseProof, BeginVerify, Respond, Serve, Conflict,
             RefuseTx, vars, serverVars, clientVars
  <1>4. \A n \in Nonces : served'[n] >= served[n]
    <2>1. CASE UNCHANGED served
      BY <1>0, <2>1 DEF TypeOK
    <2>2. ASSUME NEW h \in Handlers, Serve(h) PROVE \A n \in Nonces : served'[n] >= served[n]
      BY <1>0, <2>2 DEF Serve, TypeOK
    <2>3. QED
      BY <2>1, <2>2 DEF Next, Tick, Client, Chain, Pay, Present, Throw, Process, Confirm,
             Drop, Restart, Challenge, Accept, RefuseProof, BeginVerify, Respond, Conflict,
             RefuseTx, vars, serverVars, clientVars
  <1>5. ASSUME NEW f \in Fetches, nonce[f] # None, Served(f)
        PROVE  Served(f)'
    <2>1. nonce[f] \in Nonces /\ served[nonce[f]] \in Nat /\ nonce'[f] = nonce[f]
      BY <1>0, <1>3, <1>5 DEF TypeOK
    <2>2. served'[nonce[f]] > 0
      <3>1. served'[nonce[f]] >= served[nonce[f]] /\ served[nonce[f]] > 0
        BY <1>4, <1>5, <2>1 DEF Served
      <3>2. served' \in [Nonces -> Nat]
        BY <1>0, NextType DEF IndInv, Bookkeeping, Backed, HasNonce, TypeOK
      <3>3. QED
        BY <2>1, <3>1, <3>2
    <2>3. QED
      BY <1>5, <2>1, <2>2 DEF Served
  <1>6. ASSUME NEW f \in Fetches, pc[f] = "presented", tx[f] = "confirmed"
        PROVE  pc'[f] = "presented" /\ tx'[f] = "confirmed"
    BY <1>0, <1>6 DEF TypeOK, Next, Tick, Client, Chain, Pay, Present, Throw, Process, Confirm,
             Drop, Restart, Challenge, Accept, RefuseProof, BeginVerify, Respond, Serve, Conflict,
             RefuseTx, vars, serverVars, clientVars
  <1>7. QED
    BY <1>0, <1>2, <1>3, <1>5, <1>6

\* A challenge can be answered as long as it neither expired nor was served.
LEMMA AnswerableNext ==
    ASSUME OneInstance, IndInv, [Next]_vars, NEW f \in Fetches, Answerable(f)
    PROVE  Answerable(f)'
  <1>0. TypeOK
    BY DEF IndInv
  <1>1. CASE nonce[f] # None
    <2>1. /\ clock \in Nat /\ clock' \in Nat /\ clock <= clock'
          /\ nonce'[f] = nonce[f] /\ expires'[f] = expires[f]
          /\ Served(f) => Served(f)'
      BY <1>1, ChallengesStay
    <2>2. expires[f] \in Expiries /\ nonce[f] \in Nonces /\ served[nonce[f]] \in Nat
      BY <1>0, <1>1 DEF TypeOK
    <2>3. CASE Served(f)
      BY <2>1, <2>3 DEF Answerable
    <2>4. CASE clock' >= expires[f]
      BY <2>1, <2>4 DEF Answerable
    <2>5. CASE ~Served(f) /\ ~(clock' >= expires[f])
      <3>1. expires[f] \in Nat /\ expires[f] > clock' /\ ~(clock >= expires[f])
        BY <2>1, <2>2, <2>5 DEF Expiries, Absent
      <3>2. \A s \in Servers : cache[s].issued[nonce[f]] = expires[f]
        BY <1>1, <2>5, <3>1 DEF Answerable
      <3>3. CASE \A s \in Servers : cache'[s].issued[nonce[f]] = expires[f]
        BY <2>1, <3>3 DEF Answerable
      <3>4. CASE \E s \in Servers : cache'[s].issued[nonce[f]] # expires[f]
        <4>1. PICK s \in Servers : cache'[s].issued[nonce[f]] # expires[f]
          BY <3>4
        <4>2. Burned(s, nonce[f])
          BY <3>1, <3>2, <4>1 DEF Burned
        <4>3. ~Restart(s)
          BY DEF Restart, OneInstance
        <4>4. served'[nonce[f]] = served[nonce[f]] + 1
          BY <2>2, <4>2, <4>3, BurnedIsServed
        <4>5. served'[nonce[f]] > 0
          BY <2>2, <4>4
        <4>6. QED
          BY <1>1, <2>1, <4>5 DEF Answerable, Served
      <3>5. QED
        BY <3>3, <3>4
    <2>6. QED
      BY <2>3, <2>4, <2>5
  <1>2. CASE nonce[f] = None /\ nonce'[f] # None
    <2>1. PICK s \in Servers : Challenge(s, f)
      BY <1>0, <1>2 DEF TypeOK, Next, Tick, Client, Chain, Pay, Present, Throw, Process, Confirm,
             Drop, Restart, Challenge, Accept, RefuseProof, BeginVerify, Respond, Serve, Conflict,
             RefuseTx, vars, serverVars, clientVars
    <2>2. PICK n \in Nonces \ used, later \in Later :
              /\ cache' = [cache EXCEPT ![s] = IssueNonce(@, n, clock + Ttl, later)]
              /\ nonce' = [nonce EXCEPT ![f] = n]
      BY <2>1 DEF Challenge
    <2>3. clock + Ttl \in Nat /\ later \in Nat /\ cache[s] \in Cache
      BY <1>0, LaterTimes DEF IndInv, TypeOK
    <2>4. cache'[s].issued[n] = clock + Ttl
      <3>1. cache'[s] = IssueNonce(cache[s], n, clock + Ttl, later)
        BY <1>0, <2>2 DEF TypeOK
      <3>2. QED
        BY <2>3, <3>1, IssueNonceEntries
    <2>5. nonce'[f] = n /\ expires'[f] = clock + Ttl
      BY <1>0, <2>1, <2>2 DEF TypeOK, Challenge
    <2>6. \A t \in Servers : t = s
      BY DEF OneInstance
    <2>7. \A t \in Servers : cache'[t].issued[nonce'[f]] = expires'[f]
      BY <2>4, <2>5, <2>6
    <2>8. QED
      BY <2>7 DEF Answerable
  <1>3. CASE nonce'[f] = None
    BY <1>3 DEF Answerable
  <1>4. QED
    BY <1>1, <1>2, <1>3

\* A proof is presented of a confirmed payment, and verified with its expiry.
LEMMA PresentedNext ==
    ASSUME OneInstance, IndInv, [Next]_vars, Presented
    PROVE  Presented'
  <1>0. TypeOK /\ Bookkeeping /\ TypeOK'
    BY NextType DEF IndInv, Bookkeeping, Backed, HasNonce
  <1>1. ASSUME NEW f \in Fetches, pc'[f] = "presented"
        PROVE  tx'[f] = "confirmed"
    <2>1. CASE pc[f] = "presented"
      BY <2>1, ChallengesStay DEF Presented
    <2>2. CASE pc[f] # "presented"
      <3>1. Present(f)
        BY <1>0, <1>1, <2>2 DEF TypeOK, Next, Tick, Client, Chain, Pay, Present, Throw, Process,
             Confirm, Drop, Restart, Challenge, Accept, RefuseProof, BeginVerify, Respond, Serve,
             Conflict, RefuseTx, vars, serverVars, clientVars
      <3>2. QED
        BY <3>1 DEF Present, Reached, OneInstance
    <2>3. QED
      BY <2>1, <2>2
  <1>2. ASSUME NEW h \in Handlers, handler'[h] # None
        PROVE  /\ pc'[handler'[h].fetch] = "presented"
               /\ handler'[h].expires = expires'[handler'[h].fetch]
               /\ handler'[h].payment = handler'[h].fetch
    <2>1. CASE handler'[h] = handler[h]
      <3>1. PICK f \in Fetches : f = handler[h].fetch
        BY <1>0, <1>2, <2>1 DEF TypeOK, Invocation
      <3>2. /\ pc[f] = "presented" /\ nonce[f] # None
            /\ handler[h].expires = expires[f] /\ handler[h].payment = f
        BY <1>0, <1>2, <2>1, <3>1 DEF Presented, Bookkeeping, Backed
      <3>3. tx[f] = "confirmed"
        BY <3>2 DEF Presented
      <3>4. pc'[f] = "presented" /\ expires'[f] = expires[f]
        BY <3>2, <3>3, ChallengesStay
      <3>5. QED
        BY <2>1, <3>1, <3>2, <3>4
    <2>2. CASE handler'[h] # handler[h]
      <3>1. PICK s \in Servers, f \in Fetches, g \in Fetches : BeginVerify(h, s, f, g)
        BY <1>0, <1>2, <2>2 DEF OneInstance, TypeOK, Next, Tick, Client, Chain, Pay, Present,
             Throw, Process, Confirm, Drop, Restart, Challenge, Accept, RefuseProof, BeginVerify,
             Respond, Serve, Conflict, RefuseTx, vars, serverVars, clientVars
      <3>2. /\ handler'[h] = [server |-> s, fetch |-> f, payment |-> g,
                               expires |-> IssuedExpiry(s, f)]
            /\ g = f
            /\ expires[f] = IssuedExpiry(s, f)
            /\ pc[f] = "presented" /\ pc' = pc /\ expires' = expires
        BY <1>0, <3>1 DEF BeginVerify, TypeOK, PassesChecks, Receive, clientVars, OneInstance
      <3>3. QED
        BY <3>2
    <2>3. QED
      BY <2>1, <2>2
  <1>3. ASSUME NEW answer \in answers' PROVE nonce'[answer[1]] # None
    <2>1. CASE answer \in answers
      <3>1. answer[1] \in Fetches /\ nonce[answer[1]] # None
        BY <1>0, <2>1 DEF TypeOK, Presented
      <3>2. QED
        BY <3>1, ChallengesStay
    <2>2. CASE answer \notin answers
      <3>1. PICK f \in Fetches : answer[1] = f /\ nonce[f] # None /\ nonce' = nonce
        <4>1. ASSUME NEW s \in Servers, NEW f \in Fetches, RefuseProof(s, f)
              PROVE  answer[1] = f /\ nonce[f] # None /\ nonce' = nonce
          BY <1>0, <1>3, <2>2, <4>1 DEF RefuseProof, Receive, Bookkeeping, clientVars
        <4>2. ASSUME NEW h \in Handlers, Conflict(h) \/ RefuseTx(h)
              PROVE  /\ handler[h].fetch \in Fetches
                     /\ answer[1] = handler[h].fetch
                     /\ nonce[handler[h].fetch] # None /\ nonce' = nonce
          BY <1>0, <1>3, <2>2, <4>2
             DEF Conflict, RefuseTx, TypeOK, Invocation, Bookkeeping, Backed, clientVars
        <4>3. QED
          BY <1>3, <2>2, <4>1, <4>2 DEF Next, Tick, Client, Chain, Pay, Present, Throw, Process,
             Confirm, Drop, Restart, Challenge, Accept, BeginVerify, Respond, Serve,
             vars, serverVars, clientVars
      <3>2. QED
        BY <3>1
    <2>3. QED
      BY <2>1, <2>2
  <1>4. QED
    BY <1>1, <1>2, <1>3 DEF Presented

\* A refusal a step adds has one of the three causes.
LEMMA RefusalNext ==
    ASSUME OneInstance, IndInv, RefusalInv, [Next]_vars,
           NEW f \in Fetches, NEW status \in {NotFound, AlreadyUsed},
           <<f, status>> \in answers'
    PROVE  clock' >= expires'[f] \/ Served(f)' \/ f \in Versioned
  <1>0. TypeOK /\ Bookkeeping /\ IssuedUnserved /\ expires[f] \in Expiries
    BY DEF IndInv, TypeOK
  <1> DEFINE Cause == clock >= expires[f] \/ Served(f) \/ f \in Versioned
  <1>1. ASSUME nonce[f] # None
        PROVE  /\ clock \in Nat /\ clock' \in Nat /\ clock <= clock'
               /\ expires'[f] = expires[f]
               /\ Served(f) => Served(f)'
    BY <1>1, ChallengesStay
  <1>2. ASSUME nonce[f] # None, Cause PROVE clock' >= expires'[f] \/ Served(f)' \/ f \in Versioned
    <2>1. CASE Served(f)
      BY <1>1, <1>2, <2>1
    <2>2. CASE clock >= expires[f]
      BY <1>0, <1>1, <1>2, <2>2 DEF Expiries, Absent
    <2>3. QED
      BY <1>2, <2>1, <2>2 DEF Cause
  <1>3. ASSUME nonce[f] # None, ~Cause
        PROVE  /\ \A s \in Servers : cache[s].issued[nonce[f]] = expires[f]
               /\ expires[f] \in Nat /\ expires[f] > clock
    BY <1>0, <1>1, <1>3 DEF RefusalInv, Answerable, Expiries, Absent
  <1> HIDE DEF Cause
  <1>4. CASE <<f, status>> \in answers
    <2>1. nonce[f] # None
      <3>1. \A answer \in answers : nonce[answer[1]] # None
        BY DEF RefusalInv, Presented
      <3>2. QED
        BY <1>4, <3>1
    <2>2. Cause
      BY <1>4 DEF RefusalInv, RefusalHasCause, Cause
    <2>3. QED
      BY <1>2, <2>1, <2>2
  <1>5. ASSUME NEW s \in Servers, RefuseProof(s, f)
        PROVE  clock' >= expires'[f] \/ Served(f)' \/ f \in Versioned
    <2>1. nonce[f] # None /\ clock' \in Later /\ ~PassesChecks(s, f, clock')
      BY <1>0, <1>5 DEF RefuseProof, Receive, Bookkeeping
    <2>2. CASE Cause
      BY <1>2, <2>1, <2>2
    <2>3. CASE ~Cause
      <3>1. nonce[f] \in Nonces /\ clock \in Nat /\ clock' \in Nat
        BY <1>0, <1>1, <2>1 DEF TypeOK
      <3>2. /\ cache[s].issued[nonce[f]] = expires[f]
            /\ expires[f] \in Nat /\ expires[f] > clock
        BY <1>3, <2>1, <2>3
      <3>3. IssuedExpiry(s, f) = expires[f] /\ expires[f] # Absent
        BY <3>1, <3>2 DEF IssuedExpiry, GetIssuedNonceExpiry, Unexpired, Absent
      <3>4. ~(clock' < expires[f])
        BY <2>1, <3>3 DEF PassesChecks
      <3>5. QED
        BY <1>1, <2>1, <3>1, <3>2, <3>4
    <2>4. QED
      BY <2>2, <2>3
  <1>6. ASSUME NEW h \in Handlers, handler[h] # None
        PROVE  /\ handler[h].fetch \in Fetches /\ handler[h].server \in Servers
               /\ tx[handler[h].fetch] = "confirmed"
               /\ handler[h].payment = handler[h].fetch
               /\ handler[h].expires = expires[handler[h].fetch]
               /\ nonce[handler[h].fetch] # None
    BY <1>0, <1>6 DEF TypeOK, Invocation, RefusalInv, Presented, Bookkeeping, Backed
  <1>7. ASSUME NEW h \in Handlers, Conflict(h), handler[h].fetch = f
        PROVE  Cause
    <2>0. SUFFICES ASSUME ~Cause PROVE FALSE
      OBVIOUS
    <2>1. handler[h] # None /\ ~Consumable(h)
      BY <1>7 DEF Conflict
    <2>2. PICK s \in Servers : s = handler[h].server
      BY <1>6, <2>1
    <2>3. /\ nonce[f] \in Nonces /\ nonce[f] # None /\ clock \in Nat
          /\ handler[h].expires = expires[f]
      BY <1>0, <1>1, <1>6, <1>7, <2>1 DEF TypeOK
    <2>4. /\ cache[s].issued[nonce[f]] = expires[f]
          /\ expires[f] \in Nat /\ expires[f] > clock
      BY <1>3, <2>0, <2>3
    <2>5. Unexpired(cache[s].issued, clock)[nonce[f]] = expires[f]
      BY <2>3, <2>4 DEF Unexpired
    <2>6. Unexpired(cache[s].consumed, clock)[nonce[f]] # Absent
      BY <1>7, <2>1, <2>2, <2>3, <2>5 DEF Consumable, CanConsume
    <2>7. cache[s].consumed[nonce[f]] # Absent
      BY <2>3, <2>6 DEF Unexpired
    <2>8. Served(f)
      BY <1>0, <2>3, <2>7 DEF IssuedUnserved, Served
    <2>9. QED
      BY <2>0, <2>8 DEF Cause
  <1>8. ASSUME NEW h \in Handlers, RefuseTx(h), handler[h].fetch = f
        PROVE  Cause
    BY <1>6, <1>8 DEF RefuseTx, TxVerified, AccountKeysFound, OneInstance, Cause
  <1>9. CASE <<f, status>> \notin answers
    <2>1. ASSUME NEW s \in Servers, NEW g \in Fetches, RefuseProof(s, g) PROVE g = f
      BY <1>9, <2>1 DEF RefuseProof
    <2>2. ASSUME NEW h \in Handlers, Conflict(h) \/ RefuseTx(h)
          PROVE  handler[h] # None /\ handler[h].fetch = f
      BY <1>9, <2>2 DEF Conflict, RefuseTx
    <2>3. \/ \E s \in Servers : RefuseProof(s, f)
          \/ \E h \in Handlers : Conflict(h) \/ RefuseTx(h)
      BY <1>9, <2>1 DEF Next, Tick, Client, Chain, Pay, Present, Throw, Process,
         Confirm, Drop, Restart, Challenge, Accept, BeginVerify, Respond, Serve,
         vars, serverVars, clientVars
    <2>4. QED
      BY <1>2, <1>5, <1>6, <1>7, <1>8, <2>2, <2>3
  <1>10. QED
    BY <1>4, <1>9

\* With one instance that runs on, whose node and clock are sound, a proof of
\* a confirmed payment is refused only when the challenge has expired or the
\* resource already ran for it.
THEOREM RefusalsHaveCauses == OneInstance /\ Spec => []RefusalHasCause
  <1>1. Init => RefusalInv
    BY DEF Init, RefusalInv, Answerable, Presented, RefusalHasCause
  <1>2. OneInstance /\ IndInv /\ RefusalInv /\ [Next]_vars => RefusalInv'
    <2> SUFFICES ASSUME OneInstance, IndInv, RefusalInv, [Next]_vars PROVE RefusalInv'
      OBVIOUS
    <2>1. \A f \in Fetches : Answerable(f)'
      BY AnswerableNext DEF RefusalInv
    <2>2. Presented'
      BY PresentedNext DEF RefusalInv
    <2>3. RefusalHasCause'
      BY RefusalNext DEF RefusalHasCause
    <2>4. QED
      BY <2>1, <2>2, <2>3 DEF RefusalInv
  <1>3. OneInstance /\ [Next]_vars => OneInstance'
    BY DEF OneInstance
  <1>4. RefusalInv => RefusalHasCause
    BY DEF RefusalInv
  <1>5. QED
    BY <1>1, <1>2, <1>3, <1>4, Invariance, PTL DEF Spec
=============================================================================
