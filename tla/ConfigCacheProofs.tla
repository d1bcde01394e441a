-------------------------- MODULE ConfigCacheProofs --------------------------
(***************************************************************************)
(* Proofs about ConfigCache, for any set of calls and any number of        *)
(* changes of the config.                                                  *)
(*                                                                         *)
(* ConfigInv is inductive.  ConfigTypeOK is preserved on its own           *)
(* (NextType); each of the other parts is preserved by a step from         *)
(* ConfigInv (the lemmas named after the part); ConfigInvariance puts them *)
(* together.                                                               *)
(***************************************************************************)
EXTENDS ConfigCache, FiniteSetTheorems, TLAPS

\* Versions are compared as natural numbers.
LEMMA VersionsNat == Versions \subseteq Nat
BY ConfigCacheAssumption DEF Versions

\* Initially no call has begun and nothing is cached or promised.
LEMMA InitHolds == ConfigInit => ConfigInv
<1> SUFFICES ASSUME ConfigInit PROVE ConfigInv
  OBVIOUS
<1>1. ConfigTypeOK
  <2>1. 0 \in Versions
    BY ConfigCacheAssumption DEF Versions
  <2> QED
    BY <2>1 DEF ConfigInit, ConfigTypeOK
<1>2. RefreshIsFresh /\ StaleOnlyAfterOverlap
  BY DEF ConfigInit, RefreshIsFresh, StaleOnlyAfterOverlap
<1>3. Progress /\ PromiseUsable
  BY DEF ConfigInit, Progress, ProgressOf, PromiseUsable
<1>4. NewestWins
  BY DEF ConfigInit, NewestWins, InFlight
<1> QED
  BY <1>1, <1>2, <1>3, <1>4 DEF ConfigInv

\* What is remembered of refreshes that returned are versions.
LEMMA RefreshedVersions == ConfigTypeOK => Refreshed \subseteq Versions
BY DEF ConfigTypeOK, Refreshed

\* A call that begins, with either operation, leaves the state type correct.
LEMMA CallType ==
    ASSUME ConfigTypeOK, NEW k \in Calls, NEW what \in {"get", "refresh"},
           NEW cache \in Versions \cup {None}, NEW promise \in Calls \cup {None},
           Begin(k, what), GetProtocolConfigCached(k, cache, promise),
           overlapped' \in BOOLEAN
    PROVE  ConfigTypeOK'
<1>1. /\ version' \in Versions
      /\ op' \in [Calls -> {"get", "refresh"}]
      /\ since' \in [Calls -> Versions]
      /\ protocolConfigCache' \in Versions \cup {None}
  BY DEF ConfigTypeOK, Begin, GetProtocolConfigCached
<1>2. known' \in [Calls -> SUBSET Versions]
  BY RefreshedVersions DEF ConfigTypeOK, Begin
<1>3. pc[k] = "idle"
  BY DEF Begin
<1>4. CASE Cached(k, cache) /\ protocolConfigPromise' = promise
  BY <1>1, <1>2, <1>3, <1>4 DEF ConfigTypeOK, Cached
<1>5. CASE Join(k, cache, promise)
  BY <1>1, <1>2, <1>3, <1>5 DEF ConfigTypeOK, Join, Wait
<1>6. CASE StartLoad(k, cache, promise)
  BY <1>1, <1>2, <1>3, <1>6, ConfigCacheAssumption DEF ConfigTypeOK, StartLoad, Wait
<1> QED
  BY <1>4, <1>5, <1>6 DEF GetProtocolConfigCached

\* Every step leaves the state type correct.
LEMMA NextType == ConfigTypeOK /\ ConfigNext => ConfigTypeOK'
<1> SUFFICES ASSUME ConfigTypeOK, ConfigNext PROVE ConfigTypeOK'
  OBVIOUS
<1>1. CASE Update
  BY <1>1, ConfigCacheAssumption DEF Update, ConfigTypeOK, Versions, cacheVars, loadVars, history
<1>2. ASSUME NEW k \in Calls, Get(k) PROVE ConfigTypeOK'
  BY <1>2, CallType DEF Get, ConfigTypeOK
<1>3. ASSUME NEW k \in Calls, Refresh(k) PROVE ConfigTypeOK'
  BY <1>3, CallType DEF Refresh, ConfigTypeOK
<1>4. ASSUME NEW k \in Calls, Return(k) PROVE ConfigTypeOK'
  <2>1. waits[k] \in Calls
    BY <1>4 DEF Return, ConfigTypeOK
  <2> QED
    BY <1>4, <2>1 DEF Return, ConfigTypeOK, cacheVars, loadVars, history
<1>5. ASSUME NEW l \in Calls, NodeReads(l) PROVE ConfigTypeOK'
  BY <1>5 DEF NodeReads, ConfigTypeOK, cacheVars, history
<1>6. ASSUME NEW l \in Calls, LoadReturns(l) PROVE ConfigTypeOK'
  BY <1>6 DEF LoadReturns, ConfigTypeOK, history
<1>7. ASSUME NEW l \in Calls, LoadThrows(l) PROVE ConfigTypeOK'
  BY <1>7 DEF LoadThrows, ConfigTypeOK, cacheVars, history
<1>8. ASSUME NEW l \in Calls, CatchResets(l) PROVE ConfigTypeOK'
  BY <1>8 DEF CatchResets, ConfigTypeOK, history
<1> QED
  BY <1>1, <1>2, <1>3, <1>4, <1>5, <1>6, <1>7, <1>8 DEF ConfigNext, Load

-----------------------------------------------------------------------------
(* Where the calls and loads are                                           *)

\* A call that begins is the only one whose entries change.
LEMMA CallProgress ==
    ASSUME ConfigTypeOK, ConfigTypeOK', Progress, NEW k \in Calls, NEW what \in {"get", "refresh"},
           NEW cache \in Versions \cup {None}, NEW promise \in Calls \cup {None},
           Begin(k, what), GetProtocolConfigCached(k, cache, promise),
           what = "refresh" => cache = None /\ promise = None,
           promise # None => load[promise] # "none"
    PROVE  Progress'
<1>1. /\ pc[k] = "idle" /\ load[k] = "none" /\ op'[k] = what
      /\ version' = version /\ value' = value
      /\ \A j \in Calls \ {k} : /\ op'[j] = op[j] /\ since'[j] = since[j]
                               /\ known'[j] = known[j] /\ pc'[j] = pc[j]
                               /\ waits'[j] = waits[j] /\ load'[j] = load[j]
                               /\ result'[j] = result[j]
  BY DEF Begin, GetProtocolConfigCached, Cached, Join, StartLoad, Wait, ConfigTypeOK, Progress, ProgressOf
<1>2. since'[k] = version /\ \A v \in known'[k] : v <= version
  <2>1. \A v \in Refreshed : v <= version
    BY DEF Refreshed, Progress, ProgressOf, ConfigTypeOK
  <2> QED
    BY <2>1 DEF Begin, ConfigTypeOK
<1>3. /\ pc'[k] # "idle"
      /\ pc'[k] = "waiting" =>
            load'[waits'[k]] # "none" /\ (what = "refresh" => waits'[k] = k)
      /\ pc'[k] = "done" => what = "get"
      /\ load'[k] \in {"none", "reading"}
  <2>1. CASE Cached(k, cache)
    BY <1>1, <2>1 DEF Cached, ConfigTypeOK
  <2>2. CASE Join(k, cache, promise)
    BY <1>1, <2>2 DEF Join, Wait, ConfigTypeOK
  <2>3. CASE StartLoad(k, cache, promise)
    BY <1>1, <2>3 DEF StartLoad, Wait, ConfigTypeOK
  <2> QED
    BY <2>1, <2>2, <2>3 DEF GetProtocolConfigCached
<1>4. \A l \in Calls : load[l] # "none" => load'[l] # "none"
  BY <1>1
<1> QED
  <2>1. ProgressOf(k)'
    BY <1>1, <1>2, <1>3, VersionsNat DEF Progress, ProgressOf, ConfigTypeOK
  <2>2. ASSUME NEW j \in Calls \ {k} PROVE ProgressOf(j)'
    <3>1. pc[j] = "waiting" => load'[waits[j]] # "none"
      BY <1>4 DEF Progress, ProgressOf, ConfigTypeOK
    <3> QED
      BY <1>1, <3>1 DEF Progress, ProgressOf
  <2> QED
    BY <2>1, <2>2 DEF Progress

\* Every step keeps what is known of calls and loads.
LEMMA NextProgress == ConfigTypeOK /\ Progress /\ PromiseUsable /\ ConfigNext => Progress'
<1> SUFFICES ASSUME ConfigTypeOK, Progress, PromiseUsable, ConfigNext PROVE Progress'
  OBVIOUS
<1>0. ConfigTypeOK'
  BY NextType
<1>1. CASE Update
  <2>1. /\ version \in Nat /\ version' = version + 1
        /\ \A k \in Calls : /\ value[k] \in Nat /\ since[k] \in Nat
                            /\ known[k] \subseteq Nat
    BY <1>1, VersionsNat DEF Update, ConfigTypeOK
  <2> QED
    BY <1>1, <2>1 DEF Update, Progress, ProgressOf, cacheVars, loadVars, history
<1>2. ASSUME NEW k \in Calls, Get(k) PROVE Progress'
  <2>1. protocolConfigPromise # None => load[protocolConfigPromise] # "none"
    BY DEF PromiseUsable
  <2> QED
    BY <1>0, <1>2, <2>1, CallProgress DEF Get, ConfigTypeOK
<1>3. ASSUME NEW k \in Calls, Refresh(k) PROVE Progress'
  BY <1>0, <1>3, CallProgress DEF Refresh, ConfigTypeOK
<1>4. ASSUME NEW k \in Calls, Return(k) PROVE Progress'
  <2>1. waits[k] \in Calls
    BY <1>4 DEF Return, ConfigTypeOK
  <2> QED
    BY <1>4, <2>1 DEF Return, Progress, ProgressOf, ConfigTypeOK, cacheVars, loadVars, history
<1>5. ASSUME NEW l \in Calls, NodeReads(l) PROVE Progress'
  <2>1. /\ version \in Nat
        /\ since[l] <= version
    BY VersionsNat DEF ConfigTypeOK, Progress, ProgressOf
  <2> QED
    BY <1>5, <2>1 DEF NodeReads, Progress, ProgressOf, ConfigTypeOK, cacheVars, history
<1>6. ASSUME NEW l \in Calls, LoadReturns(l) PROVE Progress'
  BY <1>6 DEF LoadReturns, Progress, ProgressOf, ConfigTypeOK, history
<1>7. ASSUME NEW l \in Calls, LoadThrows(l) PROVE Progress'
  BY <1>7 DEF LoadThrows, Progress, ProgressOf, ConfigTypeOK, cacheVars, history
<1>8. ASSUME NEW l \in Calls, CatchResets(l) PROVE Progress'
  BY <1>8 DEF CatchResets, Progress, ProgressOf, ConfigTypeOK, history
<1> QED
  BY <1>1, <1>2, <1>3, <1>4, <1>5, <1>6, <1>7, <1>8 DEF ConfigNext, Load

-----------------------------------------------------------------------------
(* The promise variable                                                    *)

\* Every step keeps the promise variable free of rejected promises.
LEMMA NextPromise == ConfigTypeOK /\ Progress /\ PromiseUsable /\ ConfigNext => PromiseUsable'
<1> SUFFICES ASSUME ConfigTypeOK, Progress, PromiseUsable, ConfigNext PROVE PromiseUsable'
  OBVIOUS
<1>1. CASE Update
  BY <1>1 DEF Update, PromiseUsable, cacheVars, loadVars
<1>2. ASSUME NEW k \in Calls, NEW cache, NEW promise, pc[k] = "idle",
             promise \in {None, protocolConfigPromise},
             GetProtocolConfigCached(k, cache, promise)
      PROVE  PromiseUsable'
  <2>1. load[k] = "none"
    BY <1>2 DEF Progress, ProgressOf
  <2> QED
    BY <1>2, <2>1 DEF GetProtocolConfigCached, Cached, Join, StartLoad, Wait,
                      PromiseUsable, ConfigTypeOK
<1>3. ASSUME NEW k \in Calls, Get(k) \/ Refresh(k) PROVE PromiseUsable'
  BY <1>2, <1>3 DEF Get, Refresh, Begin
<1>4. ASSUME NEW k \in Calls, Return(k) PROVE PromiseUsable'
  BY <1>4 DEF Return, PromiseUsable, cacheVars, loadVars
<1>5. ASSUME NEW l \in Calls, Load(l) PROVE PromiseUsable'
  BY <1>5 DEF Load, NodeReads, LoadReturns, LoadThrows, CatchResets,
              PromiseUsable, ConfigTypeOK, cacheVars
<1> QED
  BY <1>1, <1>3, <1>4, <1>5 DEF ConfigNext

-----------------------------------------------------------------------------
(* Freshness                                                               *)

\* In every reachable state a refresh that is done has returned what its own
\* load was answered, which is no older than its call.
LEMMA RefreshOwnLoad == ConfigTypeOK /\ Progress => RefreshIsFresh
BY DEF Progress, ProgressOf, RefreshIsFresh, ConfigTypeOK

\* A call that begins keeps NewestWins: a get finds the newest value cached,
\* or joins or starts the one load in flight; a refresh that overlaps with
\* nothing finds no load in flight.
LEMMA CallNewest ==
    ASSUME ConfigTypeOK, ConfigTypeOK', Progress, NewestWins,
           NEW k \in Calls, Get(k) \/ Refresh(k)
    PROVE  NewestWins'
<1> SUFFICES ASSUME ~overlapped' PROVE NewestWins'
  BY DEF NewestWins
<1>1. PICK cache \in {None, protocolConfigCache},
           promise \in {None, protocolConfigPromise} :
         /\ GetProtocolConfigCached(k, cache, promise)
         /\ \/ cache = protocolConfigCache /\ promise = protocolConfigPromise
            \/ cache = None /\ promise = None /\ InFlight = {}
  BY DEF Get, Refresh
<1>2. /\ ~overlapped
      /\ pc[k] = "idle" /\ load[k] = "none" /\ value' = value
      /\ \A j \in Calls \ {k} : /\ op'[j] = op[j] /\ known'[j] = known[j]
                               /\ pc'[j] = pc[j] /\ waits'[j] = waits[j]
                               /\ load'[j] = load[j]
      /\ load'[k] \in {"none", "reading"}
  BY <1>1 DEF Get, Refresh, Begin, GetProtocolConfigCached, Cached, Join, StartLoad,
              Wait, ConfigTypeOK, Progress, ProgressOf
<1>3. /\ \A l \in InFlight' : protocolConfigPromise' = l /\ protocolConfigCache' = None
      /\ protocolConfigCache' = None /\ protocolConfigPromise' # None =>
            protocolConfigPromise' \in InFlight'
  <2>1. cache # None \/ promise = None => InFlight = {}
    BY <1>1, <1>2, ConfigCacheAssumption DEF NewestWins, InFlight
  <2>2. CASE Cached(k, cache) /\ protocolConfigPromise' = promise
    <3>1. InFlight' = {} /\ protocolConfigCache' # None
      BY <1>1, <2>1, <2>2 DEF GetProtocolConfigCached, Cached, InFlight
    <3> QED
      BY <3>1
  <2>3. CASE Join(k, cache, promise)
    <3>1. /\ protocolConfigCache' = None /\ protocolConfigPromise' = promise
          /\ promise # None /\ promise = protocolConfigPromise
          /\ cache = protocolConfigCache /\ cache = None
      BY <1>1, <2>3 DEF GetProtocolConfigCached, Join
    <3>2. InFlight' = InFlight
      BY <2>3 DEF Join, InFlight
    <3> QED
      BY <1>2, <3>1, <3>2 DEF NewestWins
  <2>4. CASE StartLoad(k, cache, promise)
    <3>1. InFlight' = {k}
      BY <1>2, <2>1, <2>4 DEF StartLoad, InFlight, ConfigTypeOK
    <3> QED
      BY <1>1, <2>4, <3>1 DEF GetProtocolConfigCached, StartLoad
  <2> QED
    BY <1>1, <2>2, <2>3, <2>4 DEF GetProtocolConfigCached
<1>4. ASSUME NEW r \in Calls, op'[r] = "refresh", load'[r] = "fulfilled"
      PROVE  /\ protocolConfigCache' # None => value'[r] <= protocolConfigCache'
             /\ \A l \in Calls : load'[l] = "read" => value'[r] <= value'[l]
  BY <1>1, <1>2, <1>4 DEF GetProtocolConfigCached, NewestWins
<1>5. \A v \in Refreshed :
        \E r \in Calls : /\ op[r] = "refresh" /\ load[r] = "fulfilled" /\ value[r] = v
  BY DEF Refreshed, Progress, ProgressOf
<1>6. ASSUME NEW j \in Calls, pc'[j] = "waiting", load'[waits'[j]] \in {"read", "fulfilled"},
             NEW v \in known'[j]
      PROVE  v <= value'[waits'[j]]
  <2>1. CASE j # k
    <3>1. waits[j] \in Calls \ {k}
      BY <1>2, <1>6, <2>1 DEF ConfigTypeOK
    <3> QED
      BY <1>2, <1>6, <2>1, <3>1 DEF NewestWins
  <2>2. CASE j = k
    <3>1. /\ promise # None /\ promise = protocolConfigPromise /\ cache = None
          /\ cache = protocolConfigCache
          /\ waits'[k] = promise /\ load' = load
      BY <1>1, <1>2, <1>6, <2>2 DEF GetProtocolConfigCached, Cached, Join, StartLoad,
                                    Wait, ConfigTypeOK
    <3>2. load[promise] = "read"
      BY <1>2, <1>6, <2>2, <3>1 DEF NewestWins, InFlight
    <3>3. v \in Refreshed
      BY <1>6, <2>2 DEF Get, Refresh, Begin, ConfigTypeOK
    <3>4. PICK r \in Calls : op[r] = "refresh" /\ load[r] = "fulfilled" /\ value[r] = v
      BY <1>5, <3>3
    <3>5. value[r] <= value[promise]
      BY <1>2, <3>1, <3>2, <3>4 DEF NewestWins, ConfigTypeOK
    <3> QED
      BY <1>2, <2>2, <3>1, <3>4, <3>5
  <2> QED
    BY <2>1, <2>2
<1> QED
  BY <1>3, <1>4, <1>6 DEF NewestWins

\* A step of a load keeps NewestWins: it is the only one in flight.
LEMMA LoadNewest ==
    ASSUME ConfigTypeOK, Progress, NewestWins, NEW l \in Calls, Load(l)
    PROVE  NewestWins'
<1> SUFFICES ASSUME ~overlapped' PROVE NewestWins'
  BY DEF NewestWins
<1>1. /\ ~overlapped
      /\ l \in InFlight /\ \A i \in InFlight : i = l
      /\ protocolConfigPromise = l /\ protocolConfigCache = None
      /\ op' = op /\ pc' = pc /\ waits' = waits /\ known' = known
      /\ \A i \in Calls \ {l} : load'[i] = load[i] /\ value'[i] = value[i]
      /\ \A i \in Calls \ {l} : load[i] # "read"
  BY DEF Load, NodeReads, LoadReturns, LoadThrows, CatchResets, InFlight, NewestWins,
         ConfigTypeOK, history, cacheVars
<1>2. CASE NodeReads(l)
  <2>1. /\ load'[l] = "read" /\ value'[l] = version
        /\ protocolConfigPromise' = l /\ protocolConfigCache' = None
        /\ load[l] = "reading"
    BY <1>1, <1>2 DEF NodeReads, ConfigTypeOK, cacheVars
  <2>2. InFlight' = {l}
    BY <1>1, <2>1 DEF InFlight
  <2>3. \A r \in Calls \ {l} : value[r] <= version
    BY DEF Progress, ProgressOf
  <2>4. ASSUME NEW k \in Calls, pc[k] = "waiting",
               load'[waits[k]] \in {"read", "fulfilled"}, NEW v \in known[k]
        PROVE  v <= value'[waits[k]]
    <3>1. CASE waits[k] = l
      BY <2>1, <2>4, <3>1 DEF Progress, ProgressOf
    <3>2. CASE waits[k] # l
      BY <1>1, <2>4, <3>2 DEF NewestWins, ConfigTypeOK
    <3> QED
      BY <3>1, <3>2
  <2> QED
    BY <1>1, <2>1, <2>2, <2>3, <2>4 DEF NewestWins
<1>3. CASE LoadReturns(l)
  <2>1. /\ load[l] = "read" /\ load'[l] = "fulfilled" /\ value' = value
        /\ protocolConfigCache' = value[l] /\ value[l] \in Nat
    BY <1>3, VersionsNat DEF LoadReturns, ConfigTypeOK
  <2>2. InFlight' = {} /\ protocolConfigCache' # None
    BY <1>1, <2>1, ConfigCacheAssumption DEF InFlight
  <2>3. \A r \in Calls : op[r] = "refresh" /\ load'[r] = "fulfilled" =>
            value[r] <= value[l]
    BY <1>1, <2>1 DEF NewestWins
  <2>4. ASSUME NEW k \in Calls, pc[k] = "waiting",
               load'[waits[k]] \in {"read", "fulfilled"}, NEW v \in known[k]
        PROVE  v <= value[waits[k]]
    BY <1>1, <2>1, <2>4 DEF NewestWins, ConfigTypeOK
  <2>5. \A i \in Calls : load'[i] # "read"
    BY <1>1, <2>1
  <2> QED
    BY <1>1, <2>1, <2>2, <2>3, <2>4, <2>5 DEF NewestWins
<1>4. CASE LoadThrows(l)
  <2>1. /\ load'[l] = "thrown" /\ value' = value
        /\ protocolConfigPromise' = l /\ protocolConfigCache' = None
    BY <1>1, <1>4 DEF LoadThrows, ConfigTypeOK, cacheVars
  <2>2. InFlight' = {l}
    BY <1>1, <2>1 DEF InFlight
  <2>3. ASSUME NEW k \in Calls, pc[k] = "waiting",
               load'[waits[k]] \in {"read", "fulfilled"}, NEW v \in known[k]
        PROVE  v <= value[waits[k]]
    BY <1>1, <2>1, <2>3 DEF NewestWins, ConfigTypeOK
  <2> QED
    BY <1>1, <2>1, <2>2, <2>3 DEF NewestWins
<1>5. CASE CatchResets(l)
  <2>1. /\ load'[l] = "rejected" /\ value' = value
        /\ protocolConfigPromise' = None /\ protocolConfigCache' = None
    BY <1>1, <1>5 DEF CatchResets, ConfigTypeOK
  <2>2. InFlight' = {}
    BY <1>1, <2>1 DEF InFlight
  <2>3. ASSUME NEW k \in Calls, pc[k] = "waiting",
               load'[waits[k]] \in {"read", "fulfilled"}, NEW v \in known[k]
        PROVE  v <= value[waits[k]]
    BY <1>1, <2>1, <2>3 DEF NewestWins, ConfigTypeOK
  <2> QED
    BY <1>1, <2>1, <2>2, <2>3 DEF NewestWins
<1> QED
  BY <1>2, <1>3, <1>4, <1>5 DEF Load

\* What is not changed keeps NewestWins.
LEMMA NextNewest ==
    ConfigTypeOK /\ ConfigTypeOK' /\ Progress /\ NewestWins /\ ConfigNext => NewestWins'
<1> SUFFICES ASSUME ConfigTypeOK, ConfigTypeOK', Progress, NewestWins, ConfigNext PROVE NewestWins'
  OBVIOUS
<1>1. CASE Update
  BY <1>1 DEF Update, NewestWins, InFlight, cacheVars, loadVars, history
<1>2. ASSUME NEW k \in Calls, Return(k) PROVE NewestWins'
  BY <1>2 DEF Return, NewestWins, InFlight, ConfigTypeOK, cacheVars, loadVars, history
<1> QED
  BY <1>1, <1>2, CallNewest, LoadNewest DEF ConfigNext

\* A call is handed out nothing older than it should be, while no refresh has
\* overlapped with a load.
LEMMA NextStale ==
    ConfigTypeOK /\ ConfigTypeOK' /\ Progress /\ NewestWins /\ StaleOnlyAfterOverlap /\ ConfigNext
        => StaleOnlyAfterOverlap'
<1> SUFFICES ASSUME ConfigTypeOK, ConfigTypeOK', Progress, NewestWins, StaleOnlyAfterOverlap, ConfigNext,
                    ~overlapped'
             PROVE  StaleOnlyAfterOverlap'
  BY DEF StaleOnlyAfterOverlap
<1>1. CASE Update
  BY <1>1 DEF Update, StaleOnlyAfterOverlap, history
<1>2. ASSUME NEW k \in Calls, Get(k) \/ Refresh(k) PROVE StaleOnlyAfterOverlap'
  <2>1. /\ ~overlapped
        /\ \A j \in Calls \ {k} : /\ known'[j] = known[j] /\ pc'[j] = pc[j]
                                 /\ result'[j] = result[j]
        /\ known'[k] = Refreshed
    BY <1>2 DEF Get, Refresh, Begin, GetProtocolConfigCached, Cached, Join, StartLoad,
                Wait, ConfigTypeOK
  <2>2. ASSUME pc'[k] = "done", NEW v \in Refreshed PROVE v <= result'[k]
    <3>1. protocolConfigCache # None /\ result'[k] = protocolConfigCache
      BY <1>2, <2>2 DEF Get, Refresh, GetProtocolConfigCached, Cached, Join, StartLoad,
                        Wait, ConfigTypeOK
    <3>2. PICK r \in Calls : op[r] = "refresh" /\ load[r] = "fulfilled" /\ value[r] = v
      BY <2>2 DEF Refreshed, Progress, ProgressOf
    <3> QED
      BY <2>1, <3>1, <3>2 DEF NewestWins
  <2>3. ASSUME NEW v \in Refreshed, pc'[k] = "done" PROVE result'[k] >= v
    BY <2>2, <2>3, RefreshedVersions, VersionsNat DEF ConfigTypeOK
  <2> QED
    BY <2>1, <2>3 DEF StaleOnlyAfterOverlap
<1>3. ASSUME NEW k \in Calls, Return(k) PROVE StaleOnlyAfterOverlap'
  <2>1. /\ ~overlapped /\ known' = known
        /\ \A j \in Calls \ {k} : pc'[j] = pc[j] /\ result'[j] = result[j]
        /\ pc[k] = "waiting" /\ waits[k] \in Calls
        /\ pc'[k] = "done" => /\ load[waits[k]] = "fulfilled"
                              /\ result'[k] = value[waits[k]]
    BY <1>3 DEF Return, ConfigTypeOK, history
  <2>2. ASSUME pc'[k] = "done", NEW v \in known[k] PROVE result'[k] >= v
    <3>1. v <= value[waits[k]]
      BY <2>1, <2>2 DEF NewestWins
    <3>2. v \in Nat /\ value[waits[k]] \in Nat
      BY <2>1, <2>2, VersionsNat DEF ConfigTypeOK
    <3> QED
      BY <2>1, <2>2, <3>1, <3>2
  <2> QED
    BY <2>1, <2>2 DEF StaleOnlyAfterOverlap
<1>4. ASSUME NEW l \in Calls, Load(l) PROVE StaleOnlyAfterOverlap'
  BY <1>4 DEF Load, NodeReads, LoadReturns, LoadThrows, CatchResets,
              StaleOnlyAfterOverlap, history
<1> QED
  BY <1>1, <1>2, <1>3, <1>4 DEF ConfigNext

-----------------------------------------------------------------------------
(* The theorems                                                            *)

\* The inductive invariant holds in every reachable state.
THEOREM ConfigInvariance == ConfigSpec => []ConfigInv
<1>1. ConfigInv /\ [ConfigNext]_configVars => ConfigInv'
  <2> SUFFICES ASSUME ConfigInv, [ConfigNext]_configVars PROVE ConfigInv'
    OBVIOUS
  <2>1. CASE ConfigNext
    <3>1. ConfigTypeOK' /\ Progress' /\ PromiseUsable'
      BY <2>1, NextType, NextProgress, NextPromise DEF ConfigInv
    <3>2. NewestWins' /\ StaleOnlyAfterOverlap'
      BY <2>1, <3>1, NextNewest, NextStale DEF ConfigInv
    <3>3. RefreshIsFresh'
      BY <3>1 DEF Progress, ProgressOf, RefreshIsFresh, ConfigTypeOK
    <3> QED
      BY <3>1, <3>2, <3>3 DEF ConfigInv
  <2>2. CASE UNCHANGED configVars
    BY <2>2 DEF configVars, cacheVars, loadVars, history, ConfigInv, ConfigTypeOK, RefreshIsFresh,
                StaleOnlyAfterOverlap, Progress, ProgressOf, PromiseUsable, NewestWins,
                InFlight
  <2> QED
    BY <2>1, <2>2
<1> QED
  BY InitHolds, <1>1, PTL DEF ConfigSpec

\* Every reachable state is type correct.
THEOREM ConfigTypeCorrect == ConfigSpec => []ConfigTypeOK
<1>1. ConfigInv => ConfigTypeOK
  BY DEF ConfigInv
<1> QED
  BY ConfigInvariance, <1>1, PTL

\* A refresh returns what was on the chain when it was called, or later.
THEOREM FreshRefresh == ConfigSpec => []RefreshIsFresh
<1>1. ConfigInv => RefreshIsFresh
  BY DEF ConfigInv
<1> QED
  BY ConfigInvariance, <1>1, PTL

\* A call is given nothing older than a refresh that returned before it,
\* unless a refresh overlapped with a load.
THEOREM NoStaleness == ConfigSpec => []StaleOnlyAfterOverlap
<1>1. ConfigInv => StaleOnlyAfterOverlap
  BY DEF ConfigInv
<1> QED
  BY ConfigInvariance, <1>1, PTL

\* A load that has failed never fails a call that begins afterwards.
THEOREM FailuresAreRetried == ConfigSpec => FailureIsNotCached
<1>1. ConfigInv /\ [ConfigNext]_configVars =>
        [\A k \in Calls :
            pc[k] = "idle" /\ pc'[k] = "waiting" => load'[waits'[k]] # "rejected"]_configVars
  <2> SUFFICES ASSUME ConfigInv, ConfigNext, NEW k \in Calls, pc[k] = "idle", pc'[k] = "waiting"
               PROVE  load'[waits'[k]] # "rejected"
    OBVIOUS
  <2>1. Get(k) \/ Refresh(k)
    BY DEF ConfigNext, Update, Get, Refresh, Begin, GetProtocolConfigCached, Cached, Join,
           StartLoad, Wait, Return, Load, NodeReads, LoadReturns, LoadThrows,
           CatchResets, ConfigInv, ConfigTypeOK
  <2>2. CASE Get(k)
    BY <2>2 DEF Get, GetProtocolConfigCached, Cached, Join, StartLoad, Wait, ConfigInv,
                ConfigTypeOK, PromiseUsable
  <2>3. CASE Refresh(k)
    BY <2>3 DEF Refresh, GetProtocolConfigCached, Cached, Join, StartLoad, Wait, ConfigInv,
                ConfigTypeOK, PromiseUsable
  <2> QED
    BY <2>1, <2>2, <2>3
<1> QED
  BY ConfigInvariance, <1>1, PTL DEF ConfigSpec, FailureIsNotCached

-----------------------------------------------------------------------------
(* Loads in flight                                                         *)

Refreshing == {k \in Calls : op[k] = "refresh"}

\* Beside the load whose promise the variable holds there is at most one in
\* flight for each refresh.
StraysCounted ==
    /\ \A k \in Calls : pc[k] = "idle" => op[k] = "get" /\ load[k] = "none"
    /\ Cardinality(InFlight \ {protocolConfigPromise}) <= Cardinality(Refreshing)

\* Parts of the calls are finite, and no larger than what contains them.
LEMMA CallsCounted ==
    ASSUME IsFiniteSet(Calls), NEW S \in SUBSET Calls, NEW T \in SUBSET S
    PROVE  /\ IsFiniteSet(S) /\ Cardinality(S) \in Nat
           /\ Cardinality(T) \in Nat /\ Cardinality(T) <= Cardinality(S)
<1>1. IsFiniteSet(S)
  BY FS_Subset
<1>2. IsFiniteSet(T) /\ Cardinality(T) <= Cardinality(S)
  BY <1>1, FS_Subset
<1> QED
  BY <1>1, <1>2, FS_CardinalityType

\* One element makes a difference of one.
LEMMA OneElement ==
    ASSUME NEW S, IsFiniteSet(S), NEW x
    PROVE  /\ Cardinality(S) \in Nat /\ IsFiniteSet(S \cup {x})
           /\ Cardinality(S \ {x}) \in Nat /\ Cardinality(S \ {x}) >= Cardinality(S) - 1
           /\ Cardinality(S \cup {x}) <= Cardinality(S) + 1
<1>1. Cardinality(S) \in Nat /\ IsFiniteSet(S \ {x}) /\ IsFiniteSet(S \cup {x})
  BY FS_CardinalityType, FS_AddElement, FS_RemoveElement
<1>2. Cardinality(S \ {x}) \in Nat
  BY <1>1, FS_CardinalityType
<1>3. CASE x \in S
  <2>1. Cardinality(S \ {x}) = Cardinality(S) - 1
    BY <1>3, FS_RemoveElement
  <2>2. Cardinality(S \cup {x}) = Cardinality(S)
    BY <1>3, FS_AddElement
  <2> QED
    BY <1>1, <1>2, <2>1, <2>2
<1>4. CASE x \notin S
  <2>1. Cardinality(S \ {x}) = Cardinality(S)
    BY <1>4, FS_RemoveElement
  <2>2. Cardinality(S \cup {x}) = Cardinality(S) + 1
    BY <1>4, FS_AddElement
  <2> QED
    BY <1>1, <1>2, <2>1, <2>2
<1> QED
  BY <1>3, <1>4

\* A call that begins is in flight only as the load the variable holds; a
\* refresh leaves behind one load at most.
LEMMA CallCounted ==
    ASSUME IsFiniteSet(Calls), ConfigTypeOK, StraysCounted, NEW k \in Calls, Get(k) \/ Refresh(k)
    PROVE  StraysCounted'
<1>1. PICK cache \in {None, protocolConfigCache}, promise \in {None, protocolConfigPromise} :
         /\ GetProtocolConfigCached(k, cache, promise)
         /\ \/ op' = [op EXCEPT ![k] = "get"] /\ promise = protocolConfigPromise
            \/ op' = [op EXCEPT ![k] = "refresh"]
  BY DEF Get, Refresh, Begin
<1>2. pc[k] = "idle" /\ op[k] = "get" /\ load[k] = "none"
  BY DEF Get, Refresh, Begin, StraysCounted
<1>3. /\ pc'[k] # "idle" /\ \A j \in Calls \ {k} : /\ pc'[j] = pc[j] /\ op'[j] = op[j]
                                                  /\ load'[j] = load[j]
  BY <1>1 DEF GetProtocolConfigCached, Cached, Join, StartLoad, Wait, ConfigTypeOK
<1>4. \A j \in Calls : pc'[j] = "idle" => op'[j] = "get" /\ load'[j] = "none"
  BY <1>3 DEF StraysCounted
<1>5. InFlight' \ {protocolConfigPromise'} \subseteq InFlight \ {promise}
  <2>1. k \notin InFlight
    BY <1>2 DEF InFlight
  <2>2. CASE protocolConfigPromise' = promise /\ load' = load
    BY <2>2 DEF InFlight
  <2>3. CASE promise = None /\ protocolConfigPromise' = k
    BY <1>3, <2>1, <2>3, ConfigCacheAssumption DEF InFlight
  <2> QED
    BY <1>1, <2>2, <2>3 DEF GetProtocolConfigCached, Cached, Join, StartLoad
<1>6. /\ InFlight \in SUBSET Calls /\ Refreshing \in SUBSET Calls
      /\ Refreshing' \in SUBSET Calls /\ k \notin Refreshing
  BY <1>2 DEF InFlight, Refreshing
<1> DEFINE before == InFlight \ {protocolConfigPromise}
           after == InFlight' \ {protocolConfigPromise'}
<1>7. Cardinality(before) <= Cardinality(Refreshing) /\ before \in SUBSET Calls
  BY <1>6 DEF StraysCounted
<1>8. CASE promise = protocolConfigPromise
  <2>1. after \subseteq before /\ after \in SUBSET Calls
    BY <1>5, <1>6, <1>8
  <2>2. Refreshing \subseteq Refreshing'
    BY <1>3, <1>6 DEF Refreshing
  <2> HIDE DEF before, after
  <2>3. Cardinality(after) <= Cardinality(before)
    BY <1>7, <2>1, CallsCounted
  <2>4. Cardinality(Refreshing) <= Cardinality(Refreshing')
    BY <1>6, <2>2, CallsCounted
  <2>5. /\ Cardinality(after) \in Nat /\ Cardinality(before) \in Nat
        /\ Cardinality(Refreshing) \in Nat /\ Cardinality(Refreshing') \in Nat
    BY <1>6, <1>7, <2>1, CallsCounted
  <2>6. Cardinality(after) <= Cardinality(Refreshing')
    BY <1>7, <2>3, <2>4, <2>5
  <2> QED
    BY <1>4, <2>6 DEF StraysCounted, after
<1>9. CASE promise # protocolConfigPromise
  <2>1. op' = [op EXCEPT ![k] = "refresh"]
    BY <1>1, <1>9
  <2>2. Refreshing' = Refreshing \cup {k}
    BY <1>6, <2>1 DEF Refreshing, ConfigTypeOK
  <2>3. after \subseteq before \cup {protocolConfigPromise}
    BY <1>5
  <2>4. IsFiniteSet(Refreshing) /\ IsFiniteSet(before)
        /\ Cardinality(Refreshing) \in Nat /\ Cardinality(before) \in Nat
    BY <1>6, <1>7, CallsCounted
  <2> HIDE DEF before, after
  <2>5. Cardinality(Refreshing') = Cardinality(Refreshing) + 1
    BY <1>6, <2>2, <2>4, FS_AddElement
  <2>6. /\ IsFiniteSet(before \cup {protocolConfigPromise})
        /\ Cardinality(before \cup {protocolConfigPromise}) <= Cardinality(before) + 1
    BY <2>4, OneElement
  <2>7. IsFiniteSet(after)
        /\ Cardinality(after) <= Cardinality(before \cup {protocolConfigPromise})
    BY <2>3, <2>6, FS_Subset
  <2>8. Cardinality(after) \in Nat /\ Cardinality(before \cup {protocolConfigPromise}) \in Nat
    BY <2>6, <2>7, FS_CardinalityType
  <2>9. Cardinality(after) <= Cardinality(Refreshing')
    BY <1>7, <2>4, <2>5, <2>6, <2>7, <2>8
  <2> QED
    BY <1>4, <2>9 DEF StraysCounted, after
<1> QED
  BY <1>8, <1>9

\* A load that goes on adds none; one that fails and drops the promise of another
\* has gone itself.
LEMMA LoadCounted ==
    ASSUME IsFiniteSet(Calls), ConfigTypeOK, StraysCounted, NEW l \in Calls, Load(l)
    PROVE  StraysCounted'
<1>1. /\ op' = op /\ pc' = pc /\ load[l] \in {"reading", "read", "thrown"}
      /\ \A i \in Calls \ {l} : load'[i] = load[i]
  BY DEF Load, NodeReads, LoadReturns, LoadThrows, CatchResets, history, cacheVars, ConfigTypeOK
<1>2. \A j \in Calls : pc'[j] = "idle" => op'[j] = "get" /\ load'[j] = "none"
  BY <1>1 DEF StraysCounted
<1>3. Refreshing' = Refreshing /\ InFlight \in SUBSET Calls /\ Refreshing \in SUBSET Calls
  BY <1>1 DEF Refreshing, InFlight
<1>4. InFlight' \subseteq InFlight /\ l \in InFlight
  BY <1>1 DEF InFlight
<1> DEFINE before == InFlight \ {protocolConfigPromise}
           after == InFlight' \ {protocolConfigPromise'}
<1>5. Cardinality(before) <= Cardinality(Refreshing) /\ before \in SUBSET Calls
  BY <1>3 DEF StraysCounted
<1>6. CASE protocolConfigPromise' = protocolConfigPromise
  <2>1. after \subseteq before
    BY <1>4, <1>6
  <2> HIDE DEF before, after
  <2>2. /\ Cardinality(after) <= Cardinality(before) /\ Cardinality(after) \in Nat
        /\ Cardinality(before) \in Nat /\ Cardinality(Refreshing) \in Nat
    BY <1>3, <1>5, <2>1, CallsCounted
  <2> QED
    BY <1>2, <1>3, <1>5, <2>2 DEF StraysCounted, after
<1>7. CASE CatchResets(l)
  <2>1. protocolConfigPromise' = None /\ l \notin InFlight'
    BY <1>7 DEF CatchResets, InFlight, ConfigTypeOK
  <2>2. after \subseteq InFlight \ {l} /\ InFlight \ {l} \in SUBSET Calls
    BY <1>3, <1>4, <2>1
  <2>3. /\ IsFiniteSet(InFlight) /\ Cardinality(InFlight) \in Nat
        /\ Cardinality(before) \in Nat /\ Cardinality(Refreshing) \in Nat
    BY <1>3, <1>5, CallsCounted
  <2>4. Cardinality(InFlight \ {l}) = Cardinality(InFlight) - 1
    BY <1>4, <2>3, FS_RemoveElement
  <2>5. Cardinality(before) >= Cardinality(InFlight) - 1
    BY <2>3, OneElement
  <2> HIDE DEF before, after
  <2>6. /\ Cardinality(after) <= Cardinality(InFlight \ {l}) /\ Cardinality(after) \in Nat
    BY <2>2, CallsCounted
  <2>7. Cardinality(after) <= Cardinality(Refreshing)
    BY <1>5, <2>3, <2>4, <2>5, <2>6
  <2> QED
    BY <1>2, <1>3, <2>7 DEF StraysCounted, after
<1> QED
  BY <1>6, <1>7 DEF Load, NodeReads, LoadReturns, LoadThrows, cacheVars

\* Calls share a load, however loads fail and refreshes overlap.
THEOREM SharedLoads == IsFiniteSet(Calls) /\ ConfigSpec => []LoadsShared
<1>1. ASSUME IsFiniteSet(Calls), ConfigInit PROVE StraysCounted
  <2>1. InFlight = {} /\ Refreshing = {}
    BY <1>1 DEF ConfigInit, InFlight, Refreshing
  <2>2. InFlight \ {protocolConfigPromise} = {}
    BY <2>1
  <2> QED
    BY <1>1, <2>1, <2>2, FS_EmptySet DEF ConfigInit, StraysCounted
<1>2. ASSUME IsFiniteSet(Calls), ConfigTypeOK, StraysCounted, [ConfigNext]_configVars PROVE StraysCounted'
  <2>1. CASE Update \/ (\E k \in Calls : Return(k)) \/ UNCHANGED configVars
    <3>1. /\ op' = op /\ load' = load /\ protocolConfigPromise' = protocolConfigPromise
          /\ \A j \in Calls : pc'[j] = "idle" => pc[j] = "idle"
      BY <1>2, <2>1 DEF Update, Return, configVars, cacheVars, loadVars, ConfigTypeOK
    <3>2. InFlight' = InFlight /\ Refreshing' = Refreshing
      BY <3>1 DEF InFlight, Refreshing
    <3> QED
      BY <1>2, <3>1, <3>2 DEF StraysCounted
  <2> QED
    BY <1>2, <2>1, CallCounted, LoadCounted DEF ConfigNext
<1>3. ASSUME IsFiniteSet(Calls), StraysCounted PROVE LoadsShared
  <2>1. InFlight \in SUBSET Calls /\ Refreshing \in SUBSET Calls
    BY DEF InFlight, Refreshing
  <2>2. /\ IsFiniteSet(InFlight) /\ Cardinality(InFlight) \in Nat
        /\ Cardinality(Refreshing) \in Nat
    BY <1>3, <2>1, CallsCounted
  <2>3. Cardinality(InFlight \ {protocolConfigPromise}) >= Cardinality(InFlight) - 1
    BY <2>2, OneElement
  <2>4. Cardinality(InFlight \ {protocolConfigPromise}) \in Nat
    BY <2>1, <1>3, CallsCounted
  <2>5. Cardinality(InFlight) <= 1 + Cardinality(Refreshing)
    BY <1>3, <2>2, <2>3, <2>4 DEF StraysCounted
  <2> QED
    BY <2>5 DEF LoadsShared, Refreshing
<1>4. /\ IsFiniteSet(Calls) /\ ConfigInit => StraysCounted
      /\ IsFiniteSet(Calls) /\ ConfigTypeOK /\ StraysCounted /\ [ConfigNext]_configVars => StraysCounted'
      /\ IsFiniteSet(Calls) /\ StraysCounted => LoadsShared
      /\ IsFiniteSet(Calls) /\ [ConfigNext]_configVars => IsFiniteSet(Calls)'
  BY <1>1, <1>2, <1>3
<1> QED
  BY <1>4, ConfigTypeCorrect, PTL DEF ConfigSpec
=============================================================================
