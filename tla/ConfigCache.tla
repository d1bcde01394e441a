----------------------------- MODULE ConfigCache -----------------------------
(***************************************************************************)
(* The protocol config cache of a client (src/src/client.ts:462-491): the  *)
(* value, the promise of the load in flight, and the calls that share it.  *)
(*                                                                         *)
(* JavaScript runs one turn at a time.  An action is the code between two  *)
(* awaits; between two actions of one call, other calls run, and the       *)
(* config changes on the chain.  A call starts at most one load, so a load *)
(* bears the name of the call that started it.                             *)
(***************************************************************************)
EXTENDS Naturals, FiniteSets

CONSTANTS
    Calls,       \* bound: calls that need the config
    MaxVersion,  \* bound: changes of the config on the chain
    None         \* null

ASSUME ConfigCacheAssumption ==
    /\ MaxVersion \in Nat
    /\ None \notin Calls
    /\ None \notin Nat

VARIABLES
    version,                \* the ProtocolConfig account: its latest version
    protocolConfigCache,
    protocolConfigPromise,  \* the load whose promise it is, or None
    load,                   \* load[l]: where loadProtocolConfig of call l is
    value,                  \* value[l]: the version load l was answered
    op,                     \* op[k]: what call k asked for
    pc,                     \* pc[k]: where call k is
    waits,                  \* waits[k]: the load whose promise k awaits
    result,                 \* result[k]: the version call k was given
    since,                  \* since[k]: the version on the chain when k began
    known,                  \* known[k]: what refreshes had returned by then
    overlapped              \* some refresh began while a load was in flight

cacheVars == <<protocolConfigCache, protocolConfigPromise>>
loadVars == <<load, value>>
history == <<since, known, overlapped>>
configVars == <<version, cacheVars, loadVars, op, pc, waits, result, history>>

Versions == 0..MaxVersion

ConfigTypeOK ==
    /\ version \in Versions
    /\ protocolConfigCache \in Versions \cup {None}
    /\ protocolConfigPromise \in Calls \cup {None}
    /\ load \in [Calls -> {"none", "reading", "read", "thrown", "fulfilled", "rejected"}]
    /\ value \in [Calls -> Versions]
    /\ op \in [Calls -> {"get", "refresh"}]
    /\ pc \in [Calls -> {"idle", "waiting", "done", "failed"}]
    /\ waits \in [Calls -> Calls \cup {None}]
    /\ \A k \in Calls : pc[k] = "waiting" => waits[k] # None
    /\ result \in [Calls -> Versions]
    /\ since \in [Calls -> Versions]
    /\ known \in [Calls -> SUBSET Versions]
    /\ overlapped \in BOOLEAN

ConfigInit ==
    /\ version = 0
    /\ protocolConfigCache = None
    /\ protocolConfigPromise = None
    /\ load = [l \in Calls |-> "none"]
    /\ value = [l \in Calls |-> 0]
    /\ op = [k \in Calls |-> "get"]
    /\ pc = [k \in Calls |-> "idle"]
    /\ waits = [k \in Calls |-> None]
    /\ result = [k \in Calls |-> 0]
    /\ since = [k \in Calls |-> 0]
    /\ known = [k \in Calls |-> {}]
    /\ overlapped = FALSE

InFlight == {l \in Calls : load[l] \in {"reading", "read", "thrown"}}

\* The admin changes the config (external).
Update ==
    /\ version < MaxVersion
    /\ version' = version + 1
    /\ UNCHANGED <<cacheVars, loadVars, op, pc, waits, result, history>>

-----------------------------------------------------------------------------
(* The calls                                                               *)

Refreshed == {result[r] : r \in {k \in Calls : op[k] = "refresh" /\ pc[k] = "done"}}

\* What the properties remember of the moment call k begins.
Begin(k, what) ==
    /\ pc[k] = "idle"
    /\ op' = [op EXCEPT ![k] = what]
    /\ since' = [since EXCEPT ![k] = version]
    /\ known' = [known EXCEPT ![k] = Refreshed]
    /\ UNCHANGED version

Cached(k, cache) ==
    /\ cache # None
    /\ pc' = [pc EXCEPT ![k] = "done"]
    /\ result' = [result EXCEPT ![k] = cache]
    /\ UNCHANGED <<load, value, waits>>

Wait(k, l) ==
    /\ pc' = [pc EXCEPT ![k] = "waiting"]
    /\ waits' = [waits EXCEPT ![k] = l]
    /\ UNCHANGED <<value, result>>

Join(k, cache, promise) ==
    /\ cache = None
    /\ promise # None
    /\ protocolConfigPromise' = promise
    /\ Wait(k, promise)
    /\ UNCHANGED load

\* Mutant: the promise is not kept.
StartLoad_Unshared(k, cache, promise) ==
    /\ cache = None
    /\ promise = None
    /\ protocolConfigPromise' = promise
    /\ load' = [load EXCEPT ![k] = "reading"]
    /\ Wait(k, k)

StartLoad(k, cache, promise) ==
    /\ cache = None
    /\ promise = None
    /\ protocolConfigPromise' = k
    /\ load' = [load EXCEPT ![k] = "reading"]
    /\ Wait(k, k)

\* getProtocolConfigCached, when the two variables hold cache and promise.
GetProtocolConfigCached(k, cache, promise) ==
    /\ protocolConfigCache' = cache
    /\ \/ Cached(k, cache) /\ protocolConfigPromise' = promise
       \/ Join(k, cache, promise)
       \/ StartLoad(k, cache, promise)

Get(k) ==
    /\ Begin(k, "get")
    /\ GetProtocolConfigCached(k, protocolConfigCache, protocolConfigPromise)
    /\ UNCHANGED overlapped

\* Mutant: only the value is dropped.
Refresh_KeepsPromise(k) ==
    /\ Begin(k, "refresh")
    /\ GetProtocolConfigCached(k, None, protocolConfigPromise)
    /\ overlapped' = (overlapped \/ InFlight # {})

\* refreshProtocolConfigCache drops both first.
Refresh(k) ==
    /\ Begin(k, "refresh")
    /\ GetProtocolConfigCached(k, None, None)
    /\ overlapped' = (overlapped \/ InFlight # {})

\* Mutant: the variable is awaited, not the promise it held.
Return_Reread(k) ==
    /\ pc[k] = "waiting"
    /\ protocolConfigPromise # None
    /\ LET l == protocolConfigPromise
       IN  \/ /\ load[l] = "fulfilled"
              /\ pc' = [pc EXCEPT ![k] = "done"]
              /\ result' = [result EXCEPT ![k] = value[l]]
           \/ /\ load[l] = "rejected"
              /\ pc' = [pc EXCEPT ![k] = "failed"]
              /\ UNCHANGED result
    /\ UNCHANGED <<version, cacheVars, loadVars, op, waits, history>>

\* Mutant: the value is cached by those who await it.
Return_Caches(k) ==
    /\ pc[k] = "waiting"
    /\ LET l == waits[k]
       IN  \/ /\ load[l] = "fulfilled"
              /\ pc' = [pc EXCEPT ![k] = "done"]
              /\ result' = [result EXCEPT ![k] = value[l]]
              /\ protocolConfigCache' = value[l]
           \/ /\ load[l] = "rejected"
              /\ pc' = [pc EXCEPT ![k] = "failed"]
              /\ UNCHANGED <<result, protocolConfigCache>>
    /\ UNCHANGED <<version, protocolConfigPromise, loadVars, op, waits, history>>

\* The promise call k awaits is settled, and so is k.
Return(k) ==
    /\ pc[k] = "waiting"
    /\ LET l == waits[k]
       IN  \/ /\ load[l] = "fulfilled"
              /\ pc' = [pc EXCEPT ![k] = "done"]
              /\ result' = [result EXCEPT ![k] = value[l]]
           \/ /\ load[l] = "rejected"
              /\ pc' = [pc EXCEPT ![k] = "failed"]
              /\ UNCHANGED result
    /\ UNCHANGED <<version, cacheVars, loadVars, op, waits, history>>

-----------------------------------------------------------------------------
(* loadProtocolConfig                                                      *)

\* The RPC node (external) reads the account for load l.
NodeReads(l) ==
    /\ load[l] = "reading"
    /\ load' = [load EXCEPT ![l] = "read"]
    /\ value' = [value EXCEPT ![l] = version]
    /\ UNCHANGED <<version, cacheVars, op, pc, waits, result, history>>

\* The answer arrives: it is cached, whatever happened since load l began.
LoadReturns(l) ==
    /\ load[l] = "read"
    /\ load' = [load EXCEPT ![l] = "fulfilled"]
    /\ protocolConfigCache' = value[l]
    /\ UNCHANGED <<version, protocolConfigPromise, value, op, pc, waits, result, history>>

\* The request fails, or its answer is lost.
LoadThrows(l) ==
    /\ load[l] \in {"reading", "read"}
    /\ load' = [load EXCEPT ![l] = "thrown"]
    /\ UNCHANGED <<version, cacheVars, value, op, pc, waits, result, history>>

\* Mutant: there is no catch handler.
CatchResets_Never(l) ==
    /\ load[l] = "thrown"
    /\ load' = [load EXCEPT ![l] = "rejected"]
    /\ UNCHANGED <<version, cacheVars, value, op, pc, waits, result, history>>

\* The catch handler of load l resets the variable, whose promise it may no
\* longer be.
CatchResets(l) ==
    /\ load[l] = "thrown"
    /\ load' = [load EXCEPT ![l] = "rejected"]
    /\ protocolConfigPromise' = None
    /\ UNCHANGED <<version, protocolConfigCache, value, op, pc, waits, result, history>>

-----------------------------------------------------------------------------
Load(l) == NodeReads(l) \/ LoadReturns(l) \/ LoadThrows(l) \/ CatchResets(l)

ConfigNext ==
    \/ Update
    \/ \E k \in Calls : Get(k) \/ Refresh(k) \/ Return(k) \/ Load(k)

ConfigSpec == ConfigInit /\ [][ConfigNext]_configVars

\* A request to the RPC node ends, and the runtime runs what is ready.
ConfigFairness == \A k \in Calls : WF_configVars(Return(k)) /\ WF_configVars(Load(k))

ConfigFairSpec == ConfigSpec /\ ConfigFairness

-----------------------------------------------------------------------------
(* Properties                                                              *)

\* Calls share a load: there are never more in flight than one and one for
\* each refresh, although a load that fails also drops the promise of the
\* load that has taken its place (client.ts:477-481).
LoadsShared ==
    Cardinality(InFlight) <= 1 + Cardinality({k \in Calls : op[k] = "refresh"})

\* What a refresh returns is no older than the chain was when it was called:
\* it never joins a load that began before it (client.ts:487-491).
RefreshIsFresh ==
    \A k \in Calls : op[k] = "refresh" /\ pc[k] = "done" => result[k] >= since[k]

\* No call is given what is older than a refresh had returned before it began,
\* unless some refresh overlapped with a load: then the older load may answer
\* last, and its value stays in the cache until the next refresh.
StaleOnlyAfterOverlap ==
    ~overlapped =>
        \A k \in Calls : pc[k] = "done" => \A v \in known[k] : result[k] >= v

\* What the proofs need: where a call is, and the versions that go with it.
ProgressOf(k) ==
    /\ pc[k] = "idle" => load[k] = "none"
    /\ pc[k] = "waiting" => load[waits[k]] # "none"
    /\ op[k] = "refresh" /\ pc[k] = "waiting" => waits[k] = k
    /\ op[k] = "refresh" /\ pc[k] = "done" =>
          load[k] = "fulfilled" /\ result[k] = value[k]
    /\ value[k] <= version /\ since[k] <= version
    /\ \A v \in known[k] : v <= version
    /\ load[k] \in {"read", "fulfilled"} => value[k] >= since[k]

Progress == \A k \in Calls : ProgressOf(k)

\* The promise variable never holds a promise that was rejected.
PromiseUsable ==
    protocolConfigPromise # None =>
        load[protocolConfigPromise] \notin {"none", "rejected"}

\* As long as no refresh has overlapped with a load, the one load in flight is
\* the one the variable holds, and whatever can still be handed out is at
\* least as new as every load of a refresh that was fulfilled.
NewestWins ==
    ~overlapped =>
        /\ \A l \in InFlight : /\ protocolConfigPromise = l
                               /\ protocolConfigCache = None
        /\ protocolConfigCache = None /\ protocolConfigPromise # None =>
              protocolConfigPromise \in InFlight
        /\ \A r \in Calls : op[r] = "refresh" /\ load[r] = "fulfilled" =>
              /\ protocolConfigCache # None => value[r] <= protocolConfigCache
              /\ \A l \in Calls : load[l] = "read" => value[r] <= value[l]
        /\ \A k \in Calls :
              pc[k] = "waiting" /\ load[waits[k]] \in {"read", "fulfilled"} =>
                 \A v \in known[k] : v <= value[waits[k]]

ConfigInv ==
    /\ ConfigTypeOK /\ RefreshIsFresh /\ StaleOnlyAfterOverlap
    /\ Progress /\ PromiseUsable /\ NewestWins

\* A failure is not cached: a call that begins after a load has failed never
\* awaits that load, and so is not failed by it.
FailureIsNotCached ==
    [][\A k \in Calls :
          pc[k] = "idle" /\ pc'[k] = "waiting" => load'[waits'[k]] # "rejected"]_configVars

\* No call awaits the config for ever: it is answered, whichever promise the
\* variable holds by then.
CallsReturn == \A k \in Calls : []<>(pc[k] # "waiting")
=============================================================================
