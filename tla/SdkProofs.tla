----------------------------- MODULE SdkProofs ------------------------------
(***************************************************************************)
(* Theorems about MCSdk, for any values of its constants: about            *)
(* UsageReporting, AgentWebhook, Instructions and AccountLayouts, each by  *)
(* an invariant of its own, and last about the six parts together.         *)
(***************************************************************************)
EXTENDS MCSdk, ChargesProofs, FiniteSetTheorems

\* How far a call is says what is known of its transaction and its attempts; a
\* transaction that landed is the report.
StageOf(c) ==
    LET u == usageCall[c] IN
    /\ u.at \in {"idle", "keyed"} => u.tx = "none"
    /\ u.at \in {"keyed", "sent", "posting"} => u.units \in Units
    /\ u.at \in {"idle", "keyed", "sent"} => u.attempt = 0
    /\ u.at = "posting" => u.tx = "landed"
    /\ u.tx # "none" => u.units \in Units
    /\ u.tx = "landed" => report = u.units
    /\ c \in keys => u.at \in {"keyed", "sent", "posting"}
    /\ At(c, "resolved") /\ u.attempt > 0 => row # NoUnits

UsageInv ==
    /\ UsageTypeOK
    /\ \A c \in UsageCalls : StageOf(c)
    /\ RowIsReported

-----------------------------------------------------------------------------
\* A number made of an integer is a natural number.
LEMMA ToNumberType ==
    ASSUME NEW units \in Nat, MaxSafeInteger \in Nat
    PROVE  ToNumber(units) \in Nat
  <1>1. units % 2 \in 0..1  OBVIOUS
  <1>2. units > MaxSafeInteger => units - (units % 2) \in Nat  BY <1>1
  <1>3. QED  BY <1>2 DEF ToNumber

\* The initial states satisfy the invariant.
LEMMA UsageInitially == UsageInit => UsageInv
  BY UsageAssumption
     DEF UsageInit, UsageInv, UsageTypeOK, StageOf, RowIsReported, At, Phases

\* A step of one call that writes neither the report nor the keeper's row.
LEMMA QuietStep ==
    ASSUME UsageInv, NEW c \in UsageCalls, NEW u,
           u \in [at : Phases, units : Units \cup {NoUnits}, attempt : 0..MaxAttempts,
                  tx : {"none", "flying", "landed", "failed"}],
           usageCall' = [usageCall EXCEPT ![c] = u],
           keys' \in {keys, keys \cup {c}, keys \ {c}},
           UNCHANGED <<report, row, tierCount, priced>>,
           StageOf(c)'
    PROVE  UsageInv'
  <1>1. UsageTypeOK'  BY DEF UsageInv, UsageTypeOK
  <1>2. ASSUME NEW d \in UsageCalls, d # c  PROVE StageOf(d)'
    <2>1. usageCall'[d] = usageCall[d] /\ (d \in keys' <=> d \in keys)
      BY <1>2 DEF UsageInv, UsageTypeOK
    <2>2. QED  BY <2>1 DEF UsageInv, StageOf, At
  <1>3. RowIsReported'  BY DEF UsageInv, RowIsReported
  <1>4. QED  BY <1>1, <1>2, <1>3 DEF UsageInv

\* Beginning, sending, refusing and giving up are quiet; so are the answers that
\* leave the keeper's row alone.
LEMMA QuietCallStep ==
    ASSUME UsageInv, NEW c \in UsageCalls,
           \/ \E units \in Units : BeginReport(c, units)
           \/ NoClusterKey(c) \/ SendReport(c) \/ RefuseReport(c)
           \/ \E endpoint \in BOOLEAN : ConfirmReport(c, endpoint)
           \/ RejectReport(c) \/ PostRefused(c) \/ DropReport(c)
           \/ PostFails(c, FALSE)
    PROVE  UsageInv'
  <1> USE UsageAssumption
  <1> DEFINE U == [at : Phases, units : Units \cup {NoUnits}, attempt : 0..MaxAttempts,
                   tx : {"none", "flying", "landed", "failed"}]
  <1>0. usageCall \in [UsageCalls -> U] /\ usageCall[c] \in U /\ StageOf(c)
    BY DEF UsageInv, UsageTypeOK
  <1>1. /\ usageCall' = [usageCall EXCEPT ![c] = usageCall'[c]]
        /\ usageCall'[c] \in U
        /\ keys' \in {keys, keys \cup {c}, keys \ {c}}
        /\ UNCHANGED <<report, row, tierCount, priced>>
        /\ StageOf(c)'
    <2>1. CASE \E units \in Units : BeginReport(c, units)
      <3>1. PICK units \in Units : BeginReport(c, units)  BY <2>1
      <3>2. usageCall[c].attempt = 0 /\ usageCall[c].tx = "none"
        BY <1>0, <3>1 DEF BeginReport, StageOf, At
      <3>3. usageCall'[c] = [at |-> "keyed", units |-> units, attempt |-> 0, tx |-> "none"]
        BY <1>0, <3>1, <3>2 DEF BeginReport
      <3>4. usageCall'[c] \in U  BY <3>3 DEF Phases
      <3>5. StageOf(c)'  BY <3>3 DEF StageOf, At
      <3>6. QED  BY <1>0, <3>1, <3>4, <3>5 DEF BeginReport
    <2>2. CASE NoClusterKey(c)
      BY <1>0, <2>2 DEF NoClusterKey, Move, StageOf, At, Phases
    <2>3. CASE SendReport(c)
      BY <1>0, <2>3 DEF SendReport, StageOf, At, Phases
    <2>4. CASE RefuseReport(c) \/ RejectReport(c)
      BY <1>0, <2>4 DEF RefuseReport, RejectReport, Settle, Move, StageOf, At, Phases
    <2>5. CASE \E endpoint \in BOOLEAN : ConfirmReport(c, endpoint)
      BY <1>0, <2>5 DEF ConfirmReport, Settle, Move, StageOf, At, Phases
    <2>6. CASE PostRefused(c)
      BY <1>0, <2>6 DEF PostRefused, GiveUp, Settle, Move, StageOf, At, Phases
    <2>7. CASE DropReport(c)
      BY <1>0, <2>7 DEF DropReport, StageOf, At, Phases
    <2>8. CASE PostFails(c, FALSE)
      BY <1>0, <2>8 DEF PostFails, GiveUp, NextAttempt, Settle, Move, StageOf, At, Phases
    <2>9. QED  BY <2>1, <2>2, <2>3, <2>4, <2>5, <2>6, <2>7, <2>8
  <1>2. QED  BY <1>1, QuietStep

\* The report is created once; the transaction that creates it is the one that
\* landed, and the keeper has no row yet.
LEMMA ReportLands ==
    ASSUME UsageInv, NEW c \in UsageCalls, LandReport(c)
    PROVE  UsageInv'
  <1> USE UsageAssumption
  <1>1. usageCall[c].units \in Units  BY DEF UsageInv, StageOf, LandReport
  <1>2. UsageTypeOK'
    BY <1>1 DEF UsageInv, UsageTypeOK, LandReport
  <1>3. RowIsReported'  BY DEF UsageInv, RowIsReported, LandReport
  <1>4. ASSUME NEW d \in UsageCalls  PROVE StageOf(d)'
    <2>1. StageOf(d) /\ StageOf(c)  BY DEF UsageInv
    <2>2. CASE report = NoUnits
      <3>1. usageCall[d].tx # "landed"  BY <1>1, <2>1, <2>2 DEF StageOf
      <3>2. QED
        BY <1>1, <2>1, <2>2, <3>1 DEF LandReport, StageOf, At, UsageInv, UsageTypeOK
    <2>3. CASE report # NoUnits
      BY <2>1, <2>3 DEF LandReport, StageOf, At, UsageInv, UsageTypeOK
    <2>4. QED  BY <2>2, <2>3
  <1>5. QED  BY <1>2, <1>3, <1>4 DEF UsageInv

\* The keeper writes its row only for a call whose transaction landed, so the row
\* is the report whoever writes it, and however often.
LEMMA PostStep ==
    ASSUME UsageInv, NEW c \in UsageCalls, PostOk(c) \/ PostFails(c, TRUE)
    PROVE  UsageInv'
  <1> USE UsageAssumption
  <1> DEFINE U == [at : Phases, units : Units \cup {NoUnits}, attempt : 0..MaxAttempts,
                   tx : {"none", "flying", "landed", "failed"}]
  <1>0. usageCall \in [UsageCalls -> U] /\ usageCall[c] \in U /\ StageOf(c)
    BY DEF UsageInv, UsageTypeOK
  <1>1. usageCall[c].units \in Nat /\ report = usageCall[c].units
    BY <1>0 DEF PostOk, PostFails, StageOf, At
  <1>2. row' = ToNumber(report) /\ row' \in Nat /\ row' # NoUnits /\ report' = report
    BY <1>1, ToNumberType DEF PostOk, PostFails, Post
  <1>3. RowIsReported'  BY <1>1, <1>2 DEF RowIsReported, ToNumber
  <1>4. /\ usageCall' = [usageCall EXCEPT ![c] = usageCall'[c]]
        /\ usageCall'[c] \in U
        /\ keys' \in {keys, keys \ {c}}
        /\ UNCHANGED <<report, tierCount, priced>>
        /\ StageOf(c)'
    <2>1. CASE PostOk(c)
      BY <1>0, <1>1, <1>2, <2>1 DEF PostOk, Settle, Move, StageOf, At, Phases
    <2>2. CASE PostFails(c, TRUE)
      BY <1>0, <1>1, <1>2, <2>2
         DEF PostFails, GiveUp, NextAttempt, Settle, Move, StageOf, At, Phases
    <2>3. QED  BY <2>1, <2>2
  <1>5. UsageTypeOK'  BY <1>0, <1>2, <1>4 DEF UsageInv, UsageTypeOK
  <1>6. ASSUME NEW d \in UsageCalls, d # c  PROVE StageOf(d)'
    <2>1. usageCall'[d] = usageCall[d] /\ (d \in keys' <=> d \in keys) /\ StageOf(d)
      BY <1>0, <1>4, <1>6 DEF UsageInv
    <2>2. QED  BY <1>2, <2>1 DEF StageOf, At
  <1>7. QED  BY <1>3, <1>4, <1>5, <1>6 DEF UsageInv

\* Every step keeps the invariant.
LEMMA UsageStep == UsageInv /\ [UsageNext]_usageVars => UsageInv'
  <1> SUFFICES ASSUME UsageInv, [UsageNext]_usageVars  PROVE UsageInv'
    OBVIOUS
  <1>1. ASSUME NEW c \in UsageCalls, CallStep(c) \/ DropReport(c)  PROVE UsageInv'
    <2>1. CASE \E written \in BOOLEAN : PostFails(c, written)
      BY <2>1, QuietCallStep, PostStep
    <2>2. CASE PostOk(c)  BY <2>2, PostStep
    <2>3. QED  BY <1>1, <2>1, <2>2, QuietCallStep DEF CallStep
  <1>2. ASSUME NEW c \in UsageCalls, LandReport(c)  PROVE UsageInv'
    BY <1>2, ReportLands
  <1>3. CASE PriceReport
    BY <1>3 DEF PriceReport, UsageInv, UsageTypeOK, StageOf, At, RowIsReported
  <1>4. CASE UNCHANGED usageVars
    BY <1>4 DEF usageVars, UsageInv, UsageTypeOK, StageOf, At, RowIsReported
  <1>5. QED  BY <1>1, <1>2, <1>3, <1>4 DEF UsageNext

-----------------------------------------------------------------------------
\* In such a state reporting is safe.
LEMMA InvariantReports == UsageInv => ReportingSafe
  BY DEF UsageInv, UsageTypeOK, StageOf, ReportingSafe, RowIsReported, KeysZeroed,
         SilenceMeansTold, At

\* The invariant holds in every reachable state.
THEOREM UsageInvariance == UsageSpec => []UsageInv
  BY UsageInitially, UsageStep, PTL DEF UsageSpec

\* Every variable of the reports keeps its type; the attempts are bounded.
THEOREM UsageTypeCorrect == UsageSpec => []UsageTypeOK
  <1>1. UsageInv => UsageTypeOK  BY DEF UsageInv
  <1>2. QED  BY <1>1, UsageInvariance, PTL

\* submitUsageReport and its bridge: the keeper's row is the report on the chain,
\* a call that resolves without a warning has told the keeper, and the ephemeral
\* keys are gone when a call has ended.
THEOREM ReportingIsSafe == UsageSpec => []ReportingSafe
  BY InvariantReports, UsageInvariance, PTL

-----------------------------------------------------------------------------
(* Webhooks                                                                *)

\* The webhooks are numbered as they are created; each but the first was created
\* by an answered request or by one whose answer was lost.
Numbered ==
    /\ IsFiniteSet(hooks)
    /\ Cardinality(hooks) \in 1..MaxHooks
    /\ \A h \in hooks : h.id <= Cardinality(hooks)
    /\ lostCreates < Cardinality(hooks)
    /\ \A k \in HookClients :
         /\ webhookId[k] # NoHook => webhookId[k] <= Cardinality(hooks)
         /\ registration[k].saw \subseteq 1..Cardinality(hooks)

\* A client that creates has seen no webhook that fits: one that fits now has come
\* since.
SawNoneFitting ==
    \A k \in HookClients : Creating(k) => \A h \in Fitting : h.id \notin registration[k].saw

RegistryInv ==
    Numbered /\ SawNoneFitting /\ DuplicateHasCause /\ KeptIdFits

\* In a payload that parses, an event has been handled as often as the next one,
\* or once more between their turns in a delivery.
HandledInTurn ==
    \A i, j \in AgentEvents : i < j =>
        handled[i] >= handled[j] + (IF i < next /\ next <= j THEN 1 ELSE 0)

\* An event is handled once a delivery; a delivery ends with a failure, or goes on.
HandledOncePerDelivery ==
    \A i \in DOMAIN payload : handled[i] <= hookFaults + (IF i < next THEN 1 ELSE 0)

DeliveryInv ==
    /\ HandledInTurn
    /\ HandledOncePerDelivery
    /\ ~Parses => next = 0 /\ \A i \in DOMAIN payload : handled[i] = 0

WebhookInv == WebhookTypeOK /\ RegistryInv /\ DeliveryInv

-----------------------------------------------------------------------------
\* What fits the configuration is what delivers it, in whatever order Helius lists
\* the types.
LEMMA FittingDelivers ==
    ASSUME WebhookTypeOK
    PROVE  Fitting = Delivering
  <1>1. (CHOOSE t \in TypeOrders : TRUE) \in TypeOrders  BY TypeOrdersAssumption
  <1>2. \A h \in hooks : h.types \in TypeOrders \cup {<<"Any">>}  BY DEF WebhookTypeOK, Hook
  <1>3. QED  BY <1>1, <1>2, TypeOrdersAssumption DEF Fitting, Delivering, SameTypes

\* The initial states satisfy the invariant.
LEMMA WebhookInitially == WebhookInit => WebhookInv
  <1> SUFFICES ASSUME WebhookInit  PROVE WebhookInv
    OBVIOUS
  <1> USE WebhookAssumption
  <1>1. PICK types \in TypeOrders \cup {<<"Any">>}, same \in BOOLEAN :
            hooks = {[id |-> 1, same |-> same, types |-> types]}
    BY DEF WebhookInit
  <1>2. IsFiniteSet(hooks) /\ Cardinality(hooks) = 1  BY <1>1, FS_Singleton
  <1>3. hooks \subseteq Hook /\ \A h \in hooks : h.id = 1  BY <1>1 DEF Hook
  <1>4. payload \in Seq({"agent", "other", "malformed"}) /\ Len(payload) \in Nat
    BY DEF WebhookInit
  <1>5. WebhookTypeOK
    <2>1. handled \in [1..Len(payload) -> 0..(MaxHookFaults + 1)] /\ next \in 0..(Len(payload) + 1)
      BY <1>4 DEF WebhookInit
    <2>2. registration \in [HookClients -> [at : {"none", "listing", "creating"},
                                            saw : SUBSET (1..MaxHooks)]]
      BY DEF WebhookInit, NotRegistering
    <2>3. webhookId \in [HookClients -> 1..MaxHooks \cup {NoHook}]  BY DEF WebhookInit
    <2>4. hookCall \in [HookCalls -> {"idle", "waiting", "resolved"}]  BY DEF WebhookInit
    <2>5. overlapped \in BOOLEAN  BY Zenon DEF WebhookInit
    <2>6. lostCreates \in 0..MaxHooks /\ payload \in Payloads /\ hookFaults \in 0..MaxHookFaults
      BY DEF WebhookInit
    <2>7. QED  BY <1>3, <2>1, <2>2, <2>3, <2>4, <2>5, <2>6 DEF WebhookTypeOK
  <1>6. Numbered  BY <1>2, <1>3 DEF Numbered, WebhookInit, NotRegistering
  <1>7. Cardinality(Delivering) <= 1
    <2>1. Delivering \in SUBSET hooks  BY DEF Delivering
    <2>2. QED  BY <1>2, <2>1, FS_Subset
  <1>8. SawNoneFitting /\ DuplicateHasCause /\ KeptIdFits
    <2>1. Cardinality(Delivering) \in Nat
      BY <1>2, FS_Subset, FS_CardinalityType DEF Delivering
    <2>2. DuplicateHasCause  BY <1>7, <2>1 DEF DuplicateHasCause
    <2>3. QED  BY <2>2 DEF SawNoneFitting, KeptIdFits, WebhookInit, NotRegistering, Creating
  <1>9. DeliveryInv
    <2>1. DOMAIN payload = 1..Len(payload)  BY <1>4
    <2>2. QED
      BY <1>4, <2>1 DEF DeliveryInv, HandledInTurn, HandledOncePerDelivery, WebhookInit,
                        AgentEvents
  <1>10. QED  BY <1>5, <1>6, <1>8, <1>9 DEF WebhookInv, RegistryInv

-----------------------------------------------------------------------------
(* Registration                                                            *)

\* A step that creates no webhook and leaves the deliveries alone: what has to be
\* said of it is whom it registers.
LEMMA NoNewHook ==
    ASSUME WebhookInv, WebhookTypeOK',
           UNCHANGED <<hooks, overlapped, lostCreates, deliveryVars>>,
           hookFaults' >= hookFaults,
           \A k \in HookClients :
              /\ webhookId'[k] \in {webhookId[k]} \cup {h.id : h \in Fitting}
              /\ \/ registration'[k].at = registration[k].at /\ registration'[k].saw = registration[k].saw
                 \/ registration'[k].at # "creating" /\ registration'[k].saw \in {{}, registration[k].saw}
                 \/ Fitting = {} /\ registration'[k].saw = {h.id : h \in hooks}
    PROVE  WebhookInv'
  <1>0. /\ WebhookTypeOK /\ Numbered /\ SawNoneFitting /\ DuplicateHasCause /\ KeptIdFits
        /\ DeliveryInv
    BY DEF WebhookInv, RegistryInv
  <1>1. Fitting' = Fitting /\ Delivering' = Delivering /\ Fitting = Delivering
    BY <1>0, FittingDelivers DEF Fitting, Delivering
  <1>2. \A h \in hooks : h.id \in 1..Cardinality(hooks)
    BY <1>0 DEF Numbered, WebhookTypeOK, Hook
  <1>3. Numbered'
    BY <1>0, <1>2 DEF Numbered, Fitting
  <1>4. SawNoneFitting'
    BY <1>0, <1>1 DEF SawNoneFitting, Creating
  <1>5. DuplicateHasCause'
    BY <1>0, <1>1 DEF DuplicateHasCause
  <1>6. KeptIdFits'
    BY <1>0, <1>1 DEF KeptIdFits
  <1>7. DeliveryInv'
    <2>1. \A i \in DOMAIN payload : handled[i] \in Nat
      BY <1>0, WebhookAssumption DEF WebhookTypeOK
    <2>2. hookFaults \in Nat /\ hookFaults' \in Nat  BY <1>0 DEF WebhookTypeOK
    <2>3. HandledOncePerDelivery'
      BY <1>0, <2>1, <2>2 DEF DeliveryInv, HandledOncePerDelivery, deliveryVars
    <2>4. QED
      BY <1>0, <2>3 DEF DeliveryInv, HandledInTurn, AgentEvents, Parses, deliveryVars
  <1>8. QED
    BY <1>3, <1>4, <1>5, <1>6, <1>7 DEF WebhookInv, RegistryInv

\* Waking calls keeps their type.
LEMMA WakeType ==
    ASSUME WebhookTypeOK, NEW k \in HookClients, Wake(k)
    PROVE  hookCall' \in [HookCalls -> {"idle", "waiting", "resolved"}]
  BY DEF WebhookTypeOK, Wake

\* A call joins the registration of its client, or finds that it has been made.
LEMMA EnsureStep ==
    ASSUME WebhookInv, NEW c \in HookCalls, EnsureAgentWebhookRegistered(c)
    PROVE  WebhookInv'
  <1> DEFINE k == ClientOf[c]
  <1>1. k \in HookClients  BY WebhookAssumption
  <1>2. registration' = registration \/ Begin(k)  BY DEF EnsureAgentWebhookRegistered
  <1> DEFINE Registrations == [at : {"none", "listing", "creating"}, saw : SUBSET (1..MaxHooks)]
  <1>3. WebhookTypeOK'
    <2>1. registration \in [HookClients -> Registrations]  BY DEF WebhookInv, WebhookTypeOK
    <2>2. registration' \in [HookClients -> Registrations]
      <3>1. registration[k] \in Registrations  BY <1>1, <2>1
      <3>2. [registration[k] EXCEPT !.at = "listing"] \in Registrations  BY <3>1
      <3>3. QED  BY <1>2, <2>1, <3>1, <3>2 DEF Begin
    <2>3. hookCall' \in [HookCalls -> {"idle", "waiting", "resolved"}]
      BY DEF WebhookInv, WebhookTypeOK, EnsureAgentWebhookRegistered
    <2>4. QED
      BY <2>2, <2>3 DEF WebhookInv, WebhookTypeOK, EnsureAgentWebhookRegistered, deliveryVars
  <1>4. \A d \in HookClients : \/ registration'[d] = registration[d]
                               \/ /\ registration'[d].at # "creating"
                                  /\ registration'[d].saw = registration[d].saw
    BY <1>1, <1>2 DEF WebhookInv, WebhookTypeOK, Begin
  <1>5. webhookId' = webhookId /\ hookFaults' = hookFaults /\ hookFaults \in Nat
    BY DEF EnsureAgentWebhookRegistered, WebhookInv, WebhookTypeOK
  <1>6. UNCHANGED <<hooks, overlapped, lostCreates, deliveryVars>>
    BY DEF EnsureAgentWebhookRegistered
  <1> HIDE DEF k
  <1>7. QED  BY <1>3, <1>4, <1>5, <1>6, NoNewHook

\* Listing keeps the id of a webhook that fits, or finds none.
LEMMA ListStep ==
    ASSUME WebhookInv, NEW k \in HookClients, ListWebhooks(k)
    PROVE  WebhookInv'
  <1>0. WebhookTypeOK  BY DEF WebhookInv
  <1>1. /\ hookFaults' = hookFaults /\ hookFaults \in Nat
        /\ UNCHANGED <<hooks, overlapped, lostCreates, deliveryVars>>
    BY <1>0 DEF ListWebhooks, WebhookTypeOK
  <1>2. \A h \in hooks : h.id \in 1..MaxHooks  BY <1>0 DEF WebhookTypeOK, Hook
  <1>3. CASE Fitting # {}
    <2>1. PICK h \in Fitting : Registered(k, h.id)  BY <1>3 DEF ListWebhooks
    <2>2. h \in hooks  BY DEF Fitting
    <2>3. WebhookTypeOK'
      BY <1>0, <1>1, <1>2, <2>1, <2>2, WakeType
         DEF Registered, WebhookTypeOK, NotRegistering, deliveryVars
    <2>4. \A d \in HookClients :
              /\ webhookId'[d] \in {webhookId[d], h.id}
              /\ registration'[d] \in {registration[d], NotRegistering}
      BY <1>0, <2>1 DEF Registered, WebhookTypeOK
    <2>5. QED  BY <1>1, <2>3, <2>4, NoNewHook DEF NotRegistering
  <1>4. CASE Fitting = {}
    <2>1. /\ registration' = [registration EXCEPT ![k] =
                                [at |-> "creating", saw |-> {h.id : h \in hooks}]]
          /\ UNCHANGED <<webhookId, hookCall>>
      BY <1>4 DEF ListWebhooks
    <2>2. {h.id : h \in hooks} \in SUBSET (1..MaxHooks)  BY <1>2
    <2>3. WebhookTypeOK'
      BY <1>0, <1>1, <2>1, <2>2 DEF WebhookTypeOK, deliveryVars
    <2>4. \A d \in HookClients :
              \/ registration'[d] = registration[d]
              \/ registration'[d].saw = {h.id : h \in hooks}
      BY <1>0, <2>1 DEF WebhookTypeOK
    <2>5. QED  BY <1>1, <1>4, <2>1, <2>3, <2>4, NoNewHook
  <1>5. QED  BY <1>3, <1>4

\* A failed request leaves the webhooks as they were.
LEMMA FailStep ==
    ASSUME WebhookInv, NEW k \in HookClients, RegistrationFails(k, FALSE)
    PROVE  WebhookInv'
  <1>0. WebhookTypeOK  BY DEF WebhookInv
  <1>1. /\ hookFaults' = hookFaults + 1 /\ hookFaults \in Nat /\ hookFaults' \in 0..MaxHookFaults
        /\ UNCHANGED <<hooks, overlapped, lostCreates, deliveryVars, webhookId>>
        /\ registration' = [registration EXCEPT ![k] = NotRegistering]
    BY <1>0, WebhookAssumption DEF RegistrationFails, Fault, WebhookTypeOK
  <1>2. WebhookTypeOK'
    BY <1>0, <1>1, WakeType
       DEF RegistrationFails, CatchFailure, WebhookTypeOK, NotRegistering, deliveryVars
  <1>3. \A d \in HookClients : registration'[d] \in {registration[d], NotRegistering}
    BY <1>0, <1>1 DEF WebhookTypeOK
  <1>4. QED  BY <1>1, <1>2, <1>3, NoNewHook DEF NotRegistering

\* Creating adds one webhook, with the next number, that delivers.
LEMMA NewHook ==
    ASSUME WebhookInv, NEW k \in HookClients, AddHook(k)
    PROVE  /\ \E h \in Hook : /\ h.id = Cardinality(hooks) + 1 /\ h \notin hooks
                              /\ h.same /\ h.types \in TypeOrders
                              /\ hooks' = hooks \cup {h}
                              /\ Fitting' = Fitting \cup {h}
                              /\ Delivering' = Delivering \cup {h}
           /\ IsFiniteSet(hooks') /\ Cardinality(hooks') = Cardinality(hooks) + 1
           /\ Cardinality(hooks') \in 1..MaxHooks
           /\ hooks' \subseteq Hook
  <1> USE WebhookAssumption
  <1>0. WebhookTypeOK /\ Numbered  BY DEF WebhookInv, RegistryInv
  <1>1. PICK types \in TypeOrders :
            hooks' = hooks \cup {[id |-> Cardinality(hooks) + 1, same |-> TRUE, types |-> types]}
    BY DEF AddHook
  <1> DEFINE h == [id |-> Cardinality(hooks) + 1, same |-> TRUE, types |-> types]
  <1>2. Cardinality(hooks) \in Nat /\ Cardinality(hooks) + 1 \in 1..MaxHooks
    BY <1>0 DEF AddHook, Numbered
  <1>3. h \in Hook /\ h.id = Cardinality(hooks) + 1 /\ h.same /\ h.types \in TypeOrders
    BY <1>2 DEF Hook
  <1>4. h \notin hooks  BY <1>0, <1>2, <1>3 DEF Numbered
  <1>5. hooks' = hooks \cup {h}  BY <1>1
  <1> HIDE DEF h
  <1>6. IsFiniteSet(hooks') /\ Cardinality(hooks') = Cardinality(hooks) + 1
    BY <1>0, <1>4, <1>5, FS_AddElement DEF Numbered
  <1>7. Delivering' = Delivering \cup {h}  BY <1>3, <1>5 DEF Delivering
  <1>8. SameTypes(h.types, CHOOSE t \in TypeOrders : TRUE)
    <2>1. (CHOOSE t \in TypeOrders : TRUE) \in TypeOrders  BY TypeOrdersAssumption
    <2>2. QED  BY <1>3, <2>1, TypeOrdersAssumption DEF SameTypes
  <1>9. Fitting' = Fitting \cup {h}  BY <1>3, <1>5, <1>8 DEF Fitting
  <1>10. hooks' \subseteq Hook  BY <1>0, <1>3, <1>5 DEF WebhookTypeOK
  <1>11. QED  BY <1>2, <1>3, <1>4, <1>5, <1>6, <1>7, <1>9, <1>10

\* A webhook is created, whether or not the client learns of it: if what fits was all
\* seen when the client listed, nothing fitted, and the new one is the only one.
LEMMA AddStep ==
    ASSUME WebhookInv, WebhookTypeOK', NEW k \in HookClients, Creating(k), AddHook(k),
           lostCreates' \in {lostCreates, lostCreates + 1},
           UNCHANGED deliveryVars, hookFaults' >= hookFaults,
           registration' = [registration EXCEPT ![k] = NotRegistering],
           \A d \in HookClients : webhookId'[d] \in {webhookId[d], Cardinality(hooks) + 1}
    PROVE  WebhookInv'
  <1>0. /\ WebhookTypeOK /\ Numbered /\ SawNoneFitting /\ DuplicateHasCause /\ KeptIdFits
        /\ DeliveryInv
    BY DEF WebhookInv, RegistryInv
  <1>1. PICK h \in Hook : /\ h.id = Cardinality(hooks) + 1 /\ h \notin hooks
                          /\ hooks' = hooks \cup {h}
                          /\ Fitting' = Fitting \cup {h}
                          /\ Delivering' = Delivering \cup {h}
    BY NewHook
  <1>2. /\ IsFiniteSet(hooks') /\ Cardinality(hooks') = Cardinality(hooks) + 1
        /\ Cardinality(hooks') \in 1..MaxHooks /\ Cardinality(hooks) \in Nat
    BY <1>0, NewHook DEF Numbered
  <1>3. \A d \in HookClients : registration'[d] \in {registration[d], NotRegistering}
    BY <1>0 DEF WebhookTypeOK
  <1>4. lostCreates \in Nat /\ \A d \in HookClients : webhookId[d] # NoHook => webhookId[d] \in Nat
    BY <1>0 DEF WebhookTypeOK
  <1>5. \A g \in hooks : g.id \in Nat  BY <1>0 DEF WebhookTypeOK, Hook
  <1>6. Numbered'
    <2>1. \A g \in hooks' : g.id <= Cardinality(hooks')
      BY <1>0, <1>1, <1>2, <1>5 DEF Numbered
    <2>2. \A d \in HookClients : webhookId'[d] # NoHook => webhookId'[d] <= Cardinality(hooks')
      BY <1>0, <1>2, <1>4 DEF Numbered
    <2>3. \A d \in HookClients : registration'[d].saw \subseteq 1..Cardinality(hooks')
      BY <1>0, <1>2, <1>3 DEF Numbered, NotRegistering
    <2>4. QED  BY <1>0, <1>2, <1>4, <2>1, <2>2, <2>3 DEF Numbered
  <1>7. SawNoneFitting'
    <2> SUFFICES ASSUME NEW d \in HookClients, Creating(d)', NEW g \in Fitting'
                 PROVE  g.id \notin registration'[d].saw
      BY DEF SawNoneFitting
    <2>1. registration'[d] = registration[d] /\ Creating(d)
      BY <1>3 DEF Creating, NotRegistering
    <2>2. registration[d].saw \subseteq 1..Cardinality(hooks)  BY <1>0 DEF Numbered
    <2>3. QED  BY <1>0, <1>1, <1>2, <2>1, <2>2 DEF SawNoneFitting
  <1>8. DuplicateHasCause'
    <2>1. CASE Fitting = {}
      <3>1. Delivering' = {h}  BY <1>0, <1>1, <2>1, FittingDelivers
      <3>2. Cardinality(Delivering') = 1  BY <3>1, FS_Singleton
      <3>3. QED  BY <3>2 DEF DuplicateHasCause
    <2>2. CASE Fitting # {}
      BY <1>0, <2>2 DEF SawNoneFitting, AddHook, DuplicateHasCause
    <2>3. QED  BY <2>1, <2>2
  <1>9. KeptIdFits'
    BY <1>0, <1>1 DEF KeptIdFits
  <1>10. DeliveryInv'
    <2>1. \A i \in DOMAIN payload : handled[i] \in Nat
      BY <1>0, WebhookAssumption DEF WebhookTypeOK
    <2>2. hookFaults \in Nat /\ hookFaults' \in Nat  BY <1>0 DEF WebhookTypeOK
    <2>3. HandledOncePerDelivery'
      BY <1>0, <2>1, <2>2 DEF DeliveryInv, HandledOncePerDelivery, deliveryVars
    <2>4. QED
      BY <1>0, <2>3 DEF DeliveryInv, HandledInTurn, AgentEvents, Parses, deliveryVars
  <1>11. QED
    BY <1>6, <1>7, <1>8, <1>9, <1>10 DEF WebhookInv, RegistryInv

\* Creating a webhook, the answer arriving or not.
LEMMA CreateStep ==
    ASSUME WebhookInv, NEW k \in HookClients, CreateWebhook(k) \/ RegistrationFails(k, TRUE)
    PROVE  WebhookInv'
  <1> USE WebhookAssumption
  <1>0. WebhookTypeOK /\ Numbered  BY DEF WebhookInv, RegistryInv
  <1>1. AddHook(k) /\ Creating(k) /\ Wake(k)
        /\ registration' = [registration EXCEPT ![k] = NotRegistering]
        /\ UNCHANGED deliveryVars
    BY DEF CreateWebhook, RegistrationFails, Registered, CatchFailure
  <1>2. hooks' \subseteq Hook /\ Cardinality(hooks) + 1 \in 1..MaxHooks /\ Cardinality(hooks) \in Nat
    BY <1>0, <1>1, NewHook DEF Numbered
  <1>3. hookCall' \in [HookCalls -> {"idle", "waiting", "resolved"}]
    BY <1>0, <1>1, WakeType
  <1>4. overlapped' \in BOOLEAN  BY <1>0, <1>1 DEF AddHook, WebhookTypeOK
  <1>5. registration' \in [HookClients -> [at : {"none", "listing", "creating"},
                                           saw : SUBSET (1..MaxHooks)]]
    BY <1>0, <1>1 DEF WebhookTypeOK, NotRegistering
  <1>6. /\ webhookId' \in [HookClients -> 1..MaxHooks \cup {NoHook}]
        /\ \A d \in HookClients : webhookId'[d] \in {webhookId[d], Cardinality(hooks) + 1}
    BY <1>0, <1>2 DEF WebhookTypeOK, CreateWebhook, RegistrationFails, Registered
  <1>7. /\ lostCreates' \in {lostCreates, lostCreates + 1} /\ lostCreates' \in 0..MaxHooks
        /\ hookFaults' \in 0..MaxHookFaults /\ hookFaults' >= hookFaults
    <2>1. lostCreates \in Nat /\ lostCreates < Cardinality(hooks) /\ hookFaults \in 0..MaxHookFaults
      BY <1>0 DEF Numbered, WebhookTypeOK
    <2>2. QED  BY <1>2, <2>1 DEF CreateWebhook, RegistrationFails, Fault
  <1>8. WebhookTypeOK'
    BY <1>0, <1>1, <1>2, <1>3, <1>4, <1>5, <1>6, <1>7 DEF WebhookTypeOK, deliveryVars
  <1>9. QED  BY <1>1, <1>6, <1>7, <1>8, AddStep

-----------------------------------------------------------------------------
(* Delivery                                                                *)

\* A step of a delivery leaves the webhooks alone.
LEMMA RegistryStays ==
    ASSUME RegistryInv, UNCHANGED registryVars
    PROVE  RegistryInv'
  BY DEF RegistryInv, registryVars, Numbered, SawNoneFitting, DuplicateHasCause, KeptIdFits,
         Delivering, Fitting, Creating

\* A payload is taken up, an event is handled, or the handler throws: the counts stay
\* in the order of the events.
LEMMA DeliveryStep ==
    ASSUME WebhookInv, DeliverPayload \/ HandleEvent \/ HandlerThrows
    PROVE  WebhookInv'
  <1>0. WebhookTypeOK /\ DeliveryInv /\ RegistryInv  BY DEF WebhookInv
  <1>1. /\ payload' = payload /\ UNCHANGED registryVars
        /\ Len(payload) \in Nat /\ DOMAIN payload = 1..Len(payload)
        /\ payload \in Payloads
    BY <1>0, WebhookAssumption DEF DeliverPayload, HandleEvent, HandlerThrows, WebhookTypeOK
  <1>2. /\ handled \in [DOMAIN payload -> Nat] /\ next \in Nat /\ next <= Len(payload) + 1
        /\ hookFaults \in Nat /\ hookFaults <= MaxHookFaults
        /\ AgentEvents \subseteq DOMAIN payload
        /\ AgentEvents' = AgentEvents /\ Parses' = Parses
    BY <1>0, <1>1, WebhookAssumption DEF WebhookTypeOK, AgentEvents, Parses
  <1>3. RegistryInv'  BY <1>0, <1>1, RegistryStays
  <1>4. /\ \A i \in DOMAIN payload : handled[i] <= hookFaults + (IF i < next THEN 1 ELSE 0)
        /\ \A i, j \in AgentEvents : i < j =>
               handled[i] >= handled[j] + (IF i < next /\ next <= j THEN 1 ELSE 0)
    BY <1>0 DEF DeliveryInv, HandledInTurn, HandledOncePerDelivery
  <1>5. /\ handled' \in [DOMAIN payload -> Nat]
        /\ next' \in 0..(Len(payload) + 1)
        /\ hookFaults' \in 0..MaxHookFaults
        /\ Parses
        /\ HandledOncePerDelivery' /\ HandledInTurn'
    <2>1. CASE DeliverPayload
      <3>1. next = 0 /\ next' = 1 /\ handled' = handled /\ hookFaults' = hookFaults /\ Parses
        BY <2>1 DEF DeliverPayload
      <3>2. HandledOncePerDelivery'
        BY <1>1, <1>2, <1>4, <3>1 DEF HandledOncePerDelivery
      <3>3. HandledInTurn'
        BY <1>1, <1>2, <1>4, <3>1 DEF HandledInTurn
      <3>4. QED  BY <1>1, <1>2, <3>1, <3>2, <3>3
    <2>2. CASE HandleEvent
      <3>1. /\ next \in DOMAIN payload /\ next' = next + 1 /\ hookFaults' = hookFaults
            /\ handled' = [handled EXCEPT ![next] = IF next \in AgentEvents THEN @ + 1 ELSE @]
        BY <2>2 DEF HandleEvent
      <3>2. Parses  BY <1>0, <1>1, <3>1 DEF DeliveryInv
      <3>3. handled' \in [DOMAIN payload -> Nat]  BY <1>2, <3>1
      <3>4. HandledOncePerDelivery'
        BY <1>1, <1>2, <1>4, <3>1 DEF HandledOncePerDelivery
      <3>5. HandledInTurn'
        BY <1>1, <1>2, <1>4, <3>1 DEF HandledInTurn
      <3>6. QED  BY <1>1, <1>2, <3>1, <3>2, <3>3, <3>4, <3>5
    <2>3. CASE HandlerThrows
      <3>1. /\ next \in AgentEvents /\ next' = 0 /\ hookFaults' = hookFaults + 1
            /\ hookFaults < MaxHookFaults /\ handled' = handled
        BY <2>3 DEF HandlerThrows, Fault, AfterFailure
      <3>2. Parses  BY <1>0, <1>1, <1>2, <3>1 DEF DeliveryInv
      <3>3. HandledOncePerDelivery'
        BY <1>1, <1>2, <1>4, <3>1 DEF HandledOncePerDelivery
      <3>4. HandledInTurn'
        BY <1>1, <1>2, <1>4, <3>1 DEF HandledInTurn
      <3>5. QED  BY <1>1, <1>2, <3>1, <3>2, <3>3, <3>4, WebhookAssumption
    <2>4. QED  BY <2>1, <2>2, <2>3
  <1>6. DeliveryInv'  BY <1>2, <1>5 DEF DeliveryInv
  <1>7. \A i \in DOMAIN payload : handled'[i] \in 0..(MaxHookFaults + 1)
    BY <1>1, <1>2, <1>5, WebhookAssumption DEF HandledOncePerDelivery
  <1>8. handled' \in [1..Len(payload') -> 0..(MaxHookFaults + 1)]
    BY <1>1, <1>5, <1>7
  <1>9. WebhookTypeOK'
    BY <1>0, <1>1, <1>5, <1>8 DEF WebhookTypeOK, registryVars
  <1>10. QED  BY <1>3, <1>6, <1>9 DEF WebhookInv

-----------------------------------------------------------------------------
\* Every step keeps the invariant.
LEMMA WebhookStep == WebhookInv /\ [WebhookNext]_webhookVars => WebhookInv'
  <1> SUFFICES ASSUME WebhookInv, [WebhookNext]_webhookVars  PROVE WebhookInv'
    OBVIOUS
  <1>1. ASSUME NEW c \in HookCalls, EnsureAgentWebhookRegistered(c)  PROVE WebhookInv'
    BY <1>1, EnsureStep
  <1>2. ASSUME NEW k \in HookClients, Registering(k)  PROVE WebhookInv'
    BY <1>2, ListStep, CreateStep DEF Registering
  <1>3. ASSUME NEW k \in HookClients, NEW created \in BOOLEAN, RegistrationFails(k, created)
        PROVE  WebhookInv'
    <2>1. CASE created = TRUE  BY <1>3, <2>1, CreateStep
    <2>2. CASE created = FALSE  BY <1>3, <2>2, FailStep
    <2>3. QED  BY <2>1, <2>2
  <1>4. CASE DeliverPayload \/ HandleEvent \/ HandlerThrows
    BY <1>4, DeliveryStep
  <1>5. CASE UNCHANGED webhookVars
    <2>1. RegistryInv'  BY <1>5, RegistryStays DEF WebhookInv, webhookVars
    <2>2. QED
      BY <1>5, <2>1 DEF webhookVars, registryVars, deliveryVars, WebhookInv, WebhookTypeOK,
                        DeliveryInv, HandledInTurn, HandledOncePerDelivery, AgentEvents, Parses
  <1>6. QED  BY <1>1, <1>2, <1>3, <1>4, <1>5 DEF WebhookNext

\* In such a state the webhooks are safe.
LEMMA InvariantDelivers == WebhookInv => WebhooksSafe
  <1>1. ASSUME WebhookInv  PROVE HandledInOrder
    <2>1. \A i \in AgentEvents : handled[i] \in Nat
      BY <1>1, WebhookAssumption DEF WebhookInv, WebhookTypeOK, AgentEvents
    <2>2. QED  BY <1>1, <2>1 DEF WebhookInv, DeliveryInv, HandledInTurn, HandledInOrder
  <1>2. ASSUME WebhookInv  PROVE RefusedAsAWhole
    BY <1>2 DEF WebhookInv, DeliveryInv, RefusedAsAWhole, Parses, AgentEvents
  <1>3. QED
    BY <1>1, <1>2 DEF WebhookInv, RegistryInv, WebhooksSafe

\* The invariant holds in every reachable state.
THEOREM WebhookInvariance == WebhookSpec => []WebhookInv
  BY WebhookInitially, WebhookStep, PTL DEF WebhookSpec

\* Every variable of the webhooks keeps its type; a handler is not called more often
\* than it failed, and once more.
THEOREM WebhookTypeCorrect == WebhookSpec => []WebhookTypeOK
  <1>1. WebhookInv => WebhookTypeOK  BY DEF WebhookInv
  <1>2. QED  BY <1>1, WebhookInvariance, PTL

\* ensureAgentWebhook and handleAgentWebhookPayload: webhooks are not duplicated
\* without a race or a lost answer, the one that is kept delivers, events are handled
\* in order, and a payload that does not parse is refused as a whole.
THEOREM WebhooksAreSafe == WebhookSpec => []WebhooksSafe
  BY InvariantDelivers, WebhookInvariance, PTL

-----------------------------------------------------------------------------
(* Instructions: addresses                                                 *)

\* The seeds follow in a derived address.
LEMMA PdaParts ==
    ASSUME NEW program, NEW S, NEW seeds \in Seq(S)
    PROVE  /\ Len(Pda(program, seeds)) = Len(seeds) + 2
           /\ \A k \in 3..Len(seeds) + 2 : Pda(program, seeds)[k] = seeds[k - 2]
  <1> DEFINE T == S \cup {"pda", program}
             front == <<"pda", program>>
  <1>1. front \in Seq(T) /\ Len(front) = 2  OBVIOUS
  <1>2. seeds \in Seq(T) /\ Len(seeds) \in Nat  OBVIOUS
  <1> HIDE DEF T, front
  <1>3. /\ Len(front \o seeds) = Len(front) + Len(seeds)
        /\ \A i \in 1..Len(front) + Len(seeds) : (front \o seeds)[i] =
               IF i <= Len(front) THEN front[i] ELSE seeds[i - Len(front)]
    BY <1>1, <1>2, ConcatProperties
  <1>4. Pda(program, seeds) = front \o seeds  BY DEF Pda, front
  <1>5. QED  BY <1>1, <1>2, <1>3, <1>4

\* Plans are told apart by their addresses.
LEMMA PlansHaveTheirAddresses == \A p, q : PlanAt(p) = PlanAt(q) => p = q
  <1>1. ASSUME NEW p  PROVE PlanAt(p)[5] = p
    <2> DEFINE seeds == <<"plan", Merchant, p>>
    <2>1. seeds \in Seq({"plan", Merchant, p}) /\ Len(seeds) = 3 /\ seeds[3] = p  OBVIOUS
    <2>2. PlanAt(p) = Pda(Vela, seeds)  BY DEF PlanAt, PlanAddress
    <2> HIDE DEF seeds
    <2>3. Pda(Vela, seeds)[5] = seeds[5 - 2]  BY <2>1, PdaParts
    <2>4. QED  BY <2>1, <2>2, <2>3
  <1>2. QED  BY <1>1

\* The plan at a plan's address is that plan.
LEMMA PlanIsNamed == \A p \in Plans : PlanNamed(PlanAt(p)) = p
  BY PlansHaveTheirAddresses DEF PlanNamed

\* Of an address of four seeds the first is the third part.
LEMMA PdaOfFour ==
    ASSUME NEW a, NEW b, NEW c, NEW d
    PROVE  Pda(Vela, <<a, b, c, d>>)[3] = a /\ Len(Pda(Vela, <<a, b, c, d>>)) = 6
  <1> DEFINE seeds == <<a, b, c, d>>
  <1>1. seeds \in Seq({a, b, c, d}) /\ Len(seeds) = 4 /\ seeds[1] = a  OBVIOUS
  <1> HIDE DEF seeds
  <1>2. Len(Pda(Vela, seeds)) = Len(seeds) + 2  BY <1>1, PdaParts
  <1>3. Pda(Vela, seeds)[3] = seeds[3 - 2]  BY <1>1, PdaParts
  <1>4. QED  BY <1>1, <1>2, <1>3 DEF seeds

\* A mandate and a stream of a subscriber have different addresses.
LEMMA MandatesAreNoStreams ==
    ASSUME NEW i, NEW j
    PROVE  /\ MandateAddress(Subscriber, Merchant, i) # StreamAddress(Subscriber, Merchant, j)
           /\ MandateAddress(Subscriber, Merchant, i) # None
           /\ StreamAddress(Subscriber, Merchant, j) # None
  <1>1. /\ MandateAddress(Subscriber, Merchant, i)[3] = "mandate"
        /\ Len(MandateAddress(Subscriber, Merchant, i)) = 6
    BY PdaOfFour DEF MandateAddress
  <1>2. /\ StreamAddress(Subscriber, Merchant, j)[3] = "stream"
        /\ Len(StreamAddress(Subscriber, Merchant, j)) = 6
    BY PdaOfFour DEF StreamAddress
  <1>3. Len(None) = 2  BY DEF None, Key
  <1>4. QED  BY <1>1, <1>2, <1>3

-----------------------------------------------------------------------------
(* Instructions: what is in flight                                         *)

\* The index an instruction takes is the counter that its builder read.
TakesCounters(i, counters) ==
    /\ i.op = "create_plan" => i.acc.plan = PlanAddress(Merchant, counters.plan)
    /\ i.op = "create_usage_plan" => i.arg = counters.plan
    /\ i.op = "subscribe" =>
           i.acc.mandate = MandateAddress(Subscriber, Merchant, counters.mandate)
    /\ i.op = "create_stream_mandate" =>
           i.acc.mandate = StreamAddress(Subscriber, Merchant, counters.stream)
    /\ i.op = "request_billing_record" => i.arg = counters.pulls

\* The cluster it names is the one its builder read.
TakesCluster(i, cluster) ==
    "mxe_account" \in DOMAIN i.acc =>
        /\ i.acc.mxe_account = MxeAccount(cluster.program)
        /\ i.acc.cluster_account = ClusterAddress("Cluster", cluster.cluster)

\* The mint a subscription names is its plan's, or the protocol's for want of it.
TakesMint(i, p) ==
    \/ i.acc.billing_mint = plan[p].mint
    \/ /\ \E q \in Plans : plan[q].mint # ProtocolMint
       /\ i.arg = TRUE \/ plan[p].kind = "usage"

\* The plan it names is the mandate's, when that was read, or one of the merchant's.
TakesPlan(i, current) ==
    /\ i.op = "subscribe" => \E p \in Plans :
           /\ i.acc.plan = PlanAt(p) /\ i.acc.credential_mint = CredentialOf(p)
           /\ TakesMint(i, p)
    /\ i.op \in {"cancel", "admin_cancel"} =>
           /\ HasMandate
           /\ i.acc.plan = PlanAt(current) /\ i.acc.credential_mint = CredentialOf(current)
    /\ i.op \in {"execute_pull", "request_validation", "request_billing_record"} =>
           HasMandate /\ i.acc.plan = PlanAt(current)
    /\ i.op = "execute_pull" => i.acc.wrapped_usdc_mint = plan[current].mint
    /\ i.op = "update_mandate_plan" =>
           /\ HasMandate /\ i.acc.wrapped_usdc_mint = ProtocolMint
           /\ \E p \in Plans : i.acc.new_plan = PlanAt(p)

\* The account it debits belongs to the mandate, or to the stream.
Debits(i) ==
    "subscriber_wrapped_account" \in DOMAIN i.acc =>
        \/ /\ HasMandate /\ i.op \in {"execute_pull", "update_mandate_plan"}
           /\ i.acc.mandate = mandate.at
           /\ i.acc.subscriber_wrapped_account = Ata(i.acc.wrapped_usdc_mint, mandate.at, Token2022)
        \/ /\ HasStream /\ i.acc.mandate = ixStream.at
           /\ i.acc.subscriber_wrapped_account = Ata(ixStream.mint, ixStream.at, Token2022)

\* The instruction after the first ones credits the account that is debited later.
Funds(i, credits) ==
    /\ i.op = "subscribe" => credits \in {None, Ata(ProtocolMint, i.acc.mandate, Token2022)}
    /\ i.op = "create_ata" =>
        \/ /\ HasMandate /\ i.acc.owner = mandate.at
           /\ credits = Ata(plan[mandate.plan].mint, mandate.at, Token2022)
        \/ /\ HasStream /\ i.acc.owner = ixStream.at
           /\ credits = Ata(ixStream.mint, ixStream.at, Token2022)

\* What is in flight was built from what was read, and that is still so but for
\* the counters, the cluster, and the mandate's plan, which stays one of its mint.
SentWasRead ==
    sent # NoSent =>
        /\ \A c \in DOMAIN count : sent.read.count[c] \in 0..MaxIndex
        /\ HasMandate => /\ sent.read.plan \in Plans
                         /\ plan[sent.read.plan].mint = plan[mandate.plan].mint
        /\ TakesCounters(First, sent.read.count)
        /\ TakesCluster(First, sent.read.mxe)
        /\ TakesPlan(First, sent.read.plan)
        /\ Debits(First)
        /\ Funds(First, Credits)

\* Only the first instruction asks more of the program than its seeds.
OthersFollow ==
    sent # NoSent =>
        /\ 1 \in DOMAIN sent.ixs
        /\ \A k \in DOMAIN sent.ixs \ {1} :
             /\ sent.ixs[k].op \in {"create_ata", "wrap", "transfer"}
             /\ "mxe_account" \notin DOMAIN sent.ixs[k].acc

MandateIsSubscribed ==
    /\ mandate = [at |-> mandate.at, plan |-> mandate.plan, minted |-> mandate.minted,
                  funded |-> mandate.funded]
    /\ HasMandate =>
        /\ \E i \in 0..MaxIndex : mandate.at = MandateAddress(Subscriber, Merchant, i)
        /\ \E p \in Plans : mandate.minted = CredentialOf(p)
        /\ plan[mandate.plan].mint = ProtocolMint =>
               mandate.funded \in {None, Ata(ProtocolMint, mandate.at, Token2022)}
    /\ ~HasMandate => mandate = NoMandate

StreamIsCreated ==
    /\ ixStream = [at |-> ixStream.at, mint |-> ixStream.mint, funded |-> ixStream.funded]
    /\ \/ ixStream = NoStream
       \/ /\ \E i \in 0..MaxIndex : ixStream.at = StreamAddress(Subscriber, Merchant, i)
          /\ ixStream.funded \in {None, Ata(ixStream.mint, ixStream.at, Token2022)}

IxInv ==
    /\ IxTypeOK
    /\ MandateIsSubscribed /\ StreamIsCreated
    /\ SeedsMatchIdl /\ OthersFollow /\ SentWasRead

\* What a builder prepares from the state it reads.
Built(i) ==
    /\ SeedsHold(i)
    /\ TakesCounters(i, count) /\ TakesCluster(i, mxe) /\ TakesPlan(i, mandate.plan)
    /\ Debits(i)

-----------------------------------------------------------------------------
(* Instructions: building                                                  *)

\* Instructions that are built so keep the invariant.
LEMMA PrepareStep ==
    ASSUME IxInv, NEW ixs, Prepare(ixs), 1 \in DOMAIN ixs, Built(ixs[1]),
           \A k \in DOMAIN ixs \ {1} :
              /\ SeedsHold(ixs[k]) /\ ixs[k].op \in {"create_ata", "wrap", "transfer"}
              /\ "mxe_account" \notin DOMAIN ixs[k].acc,
           Funds(ixs[1], Credits')
    PROVE  IxInv'
  <1>1. /\ sent' = [ixs |-> ixs, read |-> Read]
        /\ UNCHANGED <<plan, mxe, count, mandate, ixStream>>
    BY DEF Prepare
  <1>2. First' = ixs[1]  BY <1>1 DEF First
  <1>3. IxTypeOK' /\ MandateIsSubscribed' /\ StreamIsCreated'
    BY <1>1 DEF IxInv, IxTypeOK, MandateIsSubscribed, StreamIsCreated, HasMandate, HasStream,
                NoMandate, NoStream, CredentialOf, Plans
  <1>4. SeedsMatchIdl'
    BY <1>1 DEF SeedsMatchIdl, Built
  <1>5. OthersFollow'
    BY <1>1 DEF OthersFollow
  <1>6. SentWasRead'
    <2>1. (HasMandate' <=> HasMandate) /\ Plans' = Plans
      BY <1>1 DEF HasMandate, Plans
    <2>2. TakesPlan(ixs[1], mandate.plan)' /\ Debits(ixs[1])' /\ Funds(ixs[1], Credits)'
      BY <1>1 DEF Built, TakesPlan, TakesMint, CredentialOf, Debits, Funds, HasMandate, HasStream,
                  Plans
    <2>3. TakesCounters(ixs[1], count) /\ TakesCluster(ixs[1], mxe)
      BY DEF Built
    <2>4. QED
      BY <1>1, <1>2, <2>1, <2>2, <2>3 DEF SentWasRead, Read, IxInv, IxTypeOK, HasMandate
  <1>7. QED  BY <1>3, <1>4, <1>5, <1>6 DEF IxInv

\* One instruction, that neither subscribes nor funds.
LEMMA OneStep ==
    ASSUME IxInv, NEW op, NEW acc, NEW arg, Prepare(<<Ix(op, acc, arg)>>),
           Built(Ix(op, acc, arg)), op \notin {"subscribe", "create_ata"}
    PROVE  IxInv'
  <1> DEFINE ixs == <<Ix(op, acc, arg)>>
  <1>1. DOMAIN ixs = {1} /\ ixs[1] = Ix(op, acc, arg)  OBVIOUS
  <1>2. Funds(ixs[1], Credits')  BY <1>1 DEF Funds, Ix
  <1> HIDE DEF ixs
  <1>3. QED  BY <1>1, <1>2, PrepareStep DEF ixs

\* The instructions of the owner of an agent mandate, and the agent's pull.
LEMMA OwnersBuild ==
    /\ Built(Ix("create_agent_mandate", CreateAgentMandate, 0))
    /\ Built(Ix("adjust_agent_mandate", AdjustAgentMandate, 0))
    /\ Built(Ix("drain_agent_mandate", DrainAgentMandate, 0))
    /\ Built(Ix("revoke_agent_mandate", RevokeAgentMandate, 0))
    /\ Built(Ix("pause_agent_mandate", PauseAgentMandate, 0))
    /\ Built(Ix("resume_agent_mandate", ResumeAgentMandate, 0))
    /\ Built(Ix("agent_pull", AgentPull, 0))
  <1> USE DEF Built, SeedsHold, IdlAddress, Ix, TakesCounters, TakesCluster, TakesPlan,
              Debits, ++
  <1>1. Built(Ix("create_agent_mandate", CreateAgentMandate, 0))
    BY DEF CreateAgentMandate, AgentMandateWrappedAta, AgentAccounts, ReserveAccounts
  <1>2. Built(Ix("adjust_agent_mandate", AdjustAgentMandate, 0))
    BY DEF AdjustAgentMandate, AgentAccounts
  <1>3. Built(Ix("drain_agent_mandate", DrainAgentMandate, 0))
    BY DEF DrainAgentMandate, CreateAgentMandate, AgentAccounts, ReserveAccounts
  <1>4. Built(Ix("revoke_agent_mandate", RevokeAgentMandate, 0))
    BY DEF RevokeAgentMandate, CreateAgentMandate, AgentAccounts, ReserveAccounts
  <1>5. Built(Ix("pause_agent_mandate", PauseAgentMandate, 0))
    BY DEF PauseAgentMandate
  <1>6. Built(Ix("resume_agent_mandate", ResumeAgentMandate, 0))
    BY DEF ResumeAgentMandate, PauseAgentMandate
  <1>7. Built(Ix("agent_pull", AgentPull, 0))
    <2> USE DEF AgentPull, AgentAccounts, HookAccounts
    <2>1. SeedsHold(Ix("agent_pull", AgentPull, 0))  OBVIOUS
    <2>2. Debits(Ix("agent_pull", AgentPull, 0))  OBVIOUS
    <2>3. QED  BY <2>1, <2>2
  <1>8. QED  BY <1>1, <1>2, <1>3, <1>4, <1>5, <1>6, <1>7

\* The administrator's instructions.
LEMMA AdministratorBuilds ==
    ASSUME NEW mint
    PROVE  /\ Built(Ix("init_keeper_config", InitKeeperConfig, 0))
           /\ Built(Ix("update_keeper_config", UpdateKeeperConfig, 0))
           /\ Built(Ix("init_token_config", InitTokenConfig(mint), 0))
           /\ Built(Ix("update_token_config", UpdateTokenConfig(mint), 0))
           /\ Built(Ix("pause_protocol", PauseProtocol, 0))
           /\ Built(Ix("unpause_protocol", UnpauseProtocol, 0))
  <1> USE DEF Built, SeedsHold, IdlAddress, Ix, TakesCounters, TakesCluster, TakesPlan,
              Debits, ++
  <1>1. Built(Ix("init_keeper_config", InitKeeperConfig, 0))
    BY DEF InitKeeperConfig, AdminAccounts
  <1>2. Built(Ix("update_keeper_config", UpdateKeeperConfig, 0))
    BY DEF UpdateKeeperConfig, InitKeeperConfig, AdminAccounts
  <1>3. Built(Ix("init_token_config", InitTokenConfig(mint), 0))
    BY DEF InitTokenConfig, AdminAccounts
  <1>4. Built(Ix("update_token_config", UpdateTokenConfig(mint), 0))
    BY DEF UpdateTokenConfig, AdminAccounts
  <1>5. Built(Ix("pause_protocol", PauseProtocol, 0))
    BY DEF PauseProtocol, AdminAccounts
  <1>6. Built(Ix("unpause_protocol", UnpauseProtocol, 0))
    BY DEF UnpauseProtocol, PauseProtocol, AdminAccounts
  <1>7. QED  BY <1>1, <1>2, <1>3, <1>4, <1>5, <1>6

\* The keeper's instructions, and a cancellation.
LEMMA KeepersBuild ==
    ASSUME HasMandate, NEW tiers
    PROVE  /\ Built(Ix("execute_pull", ExecutePull(mandate.plan), 0))
           /\ Built(Ix("request_validation", RequestValidation(mandate.plan, 1), 1))
           /\ Built(Ix("request_billing_record", RequestBillingRecord(mandate.plan), count.pulls))
           /\ Built(Ix("request_usage_computation", RequestUsageComputation(mandate.plan, tiers, 1), 1))
           /\ Built(Ix("cancel", Cancel(mandate.plan), 0))
           /\ Built(Ix("admin_cancel", AdminCancel(mandate.plan), 0))
  <1> USE DEF Built, SeedsHold, IdlAddress, Ix, TakesCounters, TakesCluster, TakesPlan,
              Debits, ++
  <1>1. Built(Ix("execute_pull", ExecutePull(mandate.plan), 0))
    <2>1. SeedsHold(Ix("execute_pull", ExecutePull(mandate.plan), 0))
      BY DEF ExecutePull, BillingAccounts, HookAccounts
    <2>2. Debits(Ix("execute_pull", ExecutePull(mandate.plan), 0))
      BY DEF ExecutePull, BillingAccounts, HookAccounts
    <2>3. QED  BY <2>1, <2>2 DEF ExecutePull, BillingAccounts, HookAccounts
  <1>2. Built(Ix("request_validation", RequestValidation(mandate.plan, 1), 1))
    BY DEF RequestValidation, ClusterAccounts
  <1>3. Built(Ix("request_billing_record", RequestBillingRecord(mandate.plan), count.pulls))
    BY DEF RequestBillingRecord, ClusterAccounts
  <1>4. Built(Ix("request_usage_computation", RequestUsageComputation(mandate.plan, tiers, 1), 1))
    BY DEF RequestUsageComputation, ClusterAccounts
  <1>5. Built(Ix("cancel", Cancel(mandate.plan), 0))
    BY DEF Cancel, CancelAccounts
  <1>6. Built(Ix("admin_cancel", AdminCancel(mandate.plan), 0))
    BY DEF AdminCancel, CancelAccounts
  <1>7. QED  BY <1>1, <1>2, <1>3, <1>4, <1>5, <1>6

\* The merchant's instructions.
LEMMA MerchantsBuild ==
    ASSUME NEW mint, NEW p
    PROVE  /\ Built(Ix("create_plan", CreatePlan(mint), 0))
           /\ Built(Ix("create_usage_plan", CreateUsagePlan(mint), count.plan))
           /\ Built(Ix("init_merchant_credential", InitMerchantCredential, 0))
           /\ Built(Ix("submit_usage_report", SubmitUsageReport(p, 1), 1))
  <1> USE DEF Built, SeedsHold, IdlAddress, Ix, TakesCounters, TakesCluster, TakesPlan,
              Debits, ++
  <1>1. Built(Ix("create_plan", CreatePlan(mint), 0))
    BY DEF CreatePlan
  <1>2. Built(Ix("create_usage_plan", CreateUsagePlan(mint), count.plan))
    BY DEF CreateUsagePlan
  <1>3. Built(Ix("init_merchant_credential", InitMerchantCredential, 0))
    BY DEF InitMerchantCredential
  <1>4. Built(Ix("submit_usage_report", SubmitUsageReport(p, 1), 1))
    BY DEF SubmitUsageReport
  <1>5. QED  BY <1>1, <1>2, <1>3, <1>4

\* The subscriber's, but for what subscribes or funds.
LEMMA SubscribersBuild ==
    ASSUME HasMandate, NEW p \in Plans
    PROVE  /\ Built(Ix("update_mandate_plan", UpdateMandatePlan(p), 0))
           /\ Built(Ix("schedule_plan_change", SchedulePlanChange(p), 0))
           /\ Built(Ix("cancel_plan_change", CancelPlanChange, 0))
  <1> USE DEF Built, SeedsHold, IdlAddress, Ix, TakesCounters, TakesCluster, TakesPlan,
              Debits, ++
  <1>1. Built(Ix("update_mandate_plan", UpdateMandatePlan(p), 0))
    BY DEF UpdateMandatePlan, BillingAccounts, HookAccounts
  <1>2. Built(Ix("schedule_plan_change", SchedulePlanChange(p), 0))
    BY DEF SchedulePlanChange
  <1>3. Built(Ix("cancel_plan_change", CancelPlanChange, 0))
    BY DEF CancelPlanChange
  <1>4. QED  BY <1>1, <1>2, <1>3

\* Wrapping and unwrapping, for any owner of what is wrapped.
LEMMA WrappersBuild ==
    ASSUME NEW owner
    PROVE  /\ Built(Ix("wrap", Wrap(owner), 0))
           /\ Built(Ix("unwrap_tokens", Unwrap, 0))
  <1> USE DEF Built, SeedsHold, IdlAddress, Ix, TakesCounters, TakesCluster, TakesPlan,
              Debits, ++
  <1>1. Built(Ix("wrap", Wrap(owner), 0))
    BY DEF Wrap, ReserveAccounts
  <1>2. Built(Ix("unwrap_tokens", Unwrap, 0))
    BY DEF Unwrap, ReserveAccounts
  <1>3. QED  BY <1>1, <1>2

\* The instructions of a stream.
LEMMA StreamersBuild ==
    ASSUME HasStream, NEW mint
    PROVE  /\ Built(Ix("execute_stream", ExecuteStreamAccounts, 0))
           /\ Built(Ix("pause_stream", SettleStream, 0))
           /\ Built(Ix("cancel_stream", SettleStream, 0))
           /\ Built(Ix("update_stream_rate", SettleStream, 0))
           /\ Built(Ix("resume_stream", ResumeStreamAccounts, 0))
  <1> USE DEF Built, SeedsHold, IdlAddress, Ix, TakesCounters, TakesCluster, TakesPlan,
              Debits, ++
  <1>1. Built(Ix("execute_stream", ExecuteStreamAccounts, 0))
    BY DEF ExecuteStreamAccounts, BillingAccounts, HookAccounts
  <1>2. Built(Ix("pause_stream", SettleStream, 0))
    BY DEF SettleStream, BillingAccounts, HookAccounts
  <1>3. Built(Ix("cancel_stream", SettleStream, 0))
    BY DEF SettleStream, BillingAccounts, HookAccounts
  <1>4. Built(Ix("update_stream_rate", SettleStream, 0))
    BY DEF SettleStream, BillingAccounts, HookAccounts
  <1>5. Built(Ix("resume_stream", ResumeStreamAccounts, 0))
    BY DEF ResumeStreamAccounts
  <1>6. QED  BY <1>1, <1>2, <1>3, <1>4, <1>5

\* A stream is created at the address its counter gives.
LEMMA StreamsAreBuilt ==
    ASSUME NEW mint
    PROVE  /\ Built(Ix("create_stream_mandate", CreateStreamMandate(mint), 0))
  <1> USE DEF Built, SeedsHold, IdlAddress, Ix, TakesCounters, TakesCluster, TakesPlan,
              Debits, ++
  <1>1. Built(Ix("create_stream_mandate", CreateStreamMandate(mint), 0))
    BY DEF CreateStreamMandate
  <1>2. QED  BY <1>1

\* A subscription names its plan's mint, or the protocol's when it did not fetch a
\* flat plan and was given no other.
LEMMA SubscriptionIsBuilt ==
    ASSUME IxInv, NEW p \in Plans, NEW explicit \in BOOLEAN,
           NEW given \in {None, plan[p].mint, ProtocolMint}
    PROVE  Built(Ix("subscribe", Subscribe(p, explicit, given), explicit))
  <1> DEFINE i == Ix("subscribe", Subscribe(p, explicit, given), explicit)
  <1>1. SeedsHold(i) /\ TakesCounters(i, count) /\ TakesCluster(i, mxe) /\ Debits(i)
    BY DEF SeedsHold, IdlAddress, Ix, TakesCounters, TakesCluster, Debits, Subscribe
  <1>2. /\ i.op = "subscribe" /\ i.arg = explicit /\ i.acc.plan = PlanAt(p)
        /\ i.acc.credential_mint = CredentialOf(p)
        /\ i.acc.billing_mint = BillingMintOf(p, explicit, given)
    BY DEF Ix, Subscribe
  <1> HIDE DEF i
  <1>3. TakesMint(i, p)
    <2>1. plan[p].kind \in {"flat", "usage"}
      BY IxAssumption DEF IxInv, IxTypeOK, Plans
    <2>2. CASE explicit = FALSE /\ plan[p].kind = "flat"
      BY <1>2, <2>2 DEF BillingMintOf, TakesMint
    <2>3. CASE i.arg = TRUE \/ plan[p].kind = "usage"
      <3>1. i.acc.billing_mint \in {plan[p].mint, ProtocolMint}
        BY <1>2 DEF BillingMintOf
      <3>2. CASE plan[p].mint = ProtocolMint
        BY <3>1, <3>2 DEF TakesMint
      <3>3. CASE plan[p].mint # ProtocolMint
        BY <2>3, <3>3 DEF TakesMint
      <3>4. QED  BY <3>2, <3>3
    <2>4. QED  BY <1>2, <2>1, <2>2, <2>3
  <1>4. TakesPlan(i, mandate.plan)
    BY <1>2, <1>3 DEF TakesPlan
  <1>5. QED  BY <1>1, <1>4 DEF Built, i

\* Subscribing alone.
LEMMA SubscribeStep ==
    ASSUME IxInv, NEW p \in Plans, NEW explicit \in BOOLEAN, NEW given \in {None, plan[p].mint},
           Prepare(<<Ix("subscribe", Subscribe(p, explicit, given), explicit)>>)
    PROVE  IxInv'
  <1> DEFINE i == Ix("subscribe", Subscribe(p, explicit, given), explicit)
             ixs == <<i>>
  <1>1. DOMAIN ixs = {1} /\ ixs[1] = i /\ Len(ixs) = 1  OBVIOUS
  <1>2. Built(i)  BY SubscriptionIsBuilt
  <1>3. i.op = "subscribe"  BY DEF Ix
  <1> HIDE DEF i
  <1>4. Prepare(ixs)  BY DEF i
  <1> HIDE DEF ixs
  <1>5. Credits' = None  BY <1>1, <1>3, <1>4 DEF Prepare, Credits
  <1>6. Funds(i, Credits')  BY <1>3, <1>5 DEF Funds
  <1>7. QED  BY <1>1, <1>2, <1>4, <1>6, PrepareStep

\* wrapAndSubscribe credits the mandate's account of the protocol's mint.
LEMMA WrapAndSubscribeStep ==
    ASSUME IxInv, NEW p \in Plans, NEW explicit \in BOOLEAN,
           Prepare(WrapAndSubscribe(p, explicit))
    PROVE  IxInv'
  <1> DEFINE subscribe == Subscribe(p, explicit, ProtocolMint)
             i == Ix("subscribe", subscribe, explicit)
             ata == Ix("create_ata", CreateAta(subscribe.mandate, ProtocolMint), 0)
             wrap == Ix("wrap", Wrap(subscribe.mandate), 0)
             ixs == <<i, ata, wrap>>
  <1>1. Built(i)  BY SubscriptionIsBuilt
  <1>2. i.op = "subscribe" /\ i.acc = subscribe  BY DEF Ix
  <1>3. /\ SeedsHold(ata) /\ ata.op = "create_ata" /\ "mxe_account" \notin DOMAIN ata.acc
    BY DEF SeedsHold, IdlAddress, Ix, CreateAta
  <1>4. SeedsHold(wrap)  BY WrappersBuild DEF Built
  <1>5. /\ wrap.op = "wrap" /\ "mxe_account" \notin DOMAIN wrap.acc
        /\ wrap.acc.destination_wrapped_account
             = Ata(ProtocolMint, subscribe.mandate, Token2022)
    BY DEF Ix, Wrap, ReserveAccounts, ++
  <1>6. Prepare(ixs)  BY DEF WrapAndSubscribe
  <1> HIDE DEF i, ata, wrap, subscribe
  <1>7. DOMAIN ixs = {1, 2, 3} /\ Len(ixs) = 3 /\ ixs[1] = i /\ ixs[2] = ata /\ ixs[3] = wrap
    OBVIOUS
  <1> HIDE DEF ixs
  <1>8. Credits' = Ata(ProtocolMint, subscribe.mandate, Token2022)
    <2>1. sent'.ixs = ixs  BY <1>6 DEF Prepare
    <2>2. sent'.ixs[Len(sent'.ixs)] = wrap  BY <2>1, <1>7
    <2>3. QED  BY <1>5, <2>2 DEF Credits
  <1>9. Funds(i, Credits')  BY <1>2, <1>8 DEF Funds
  <1>10. \A k \in DOMAIN ixs \ {1} :
            /\ SeedsHold(ixs[k]) /\ ixs[k].op \in {"create_ata", "wrap", "transfer"}
            /\ "mxe_account" \notin DOMAIN ixs[k].acc
    BY <1>3, <1>4, <1>5, <1>7
  <1>11. QED  BY <1>1, <1>6, <1>7, <1>9, <1>10, PrepareStep

\* fundAuthority credits the account of the owner it is given.
LEMMA FundStep ==
    ASSUME IxInv, NEW owner, NEW mint, Prepare(FundAuthority(owner, mint)),
           \/ HasMandate /\ owner = mandate.at /\ mint = plan[mandate.plan].mint
           \/ HasStream /\ owner = ixStream.at /\ mint = ixStream.mint
    PROVE  IxInv'
  <1> DEFINE ata == Ix("create_ata", CreateAta(owner, mint), 0)
             transfer == Ix("transfer", FundTransfer(owner, mint), 0)
             ixs == <<ata, transfer>>
  <1>1. Built(ata)
    BY DEF Built, SeedsHold, IdlAddress, Ix, TakesCounters, TakesCluster, TakesPlan, Debits,
           CreateAta
  <1>2. ata.op = "create_ata" /\ ata.acc.owner = owner  BY DEF Ix, CreateAta
  <1>3. /\ SeedsHold(transfer) /\ transfer.op = "transfer"
        /\ "mxe_account" \notin DOMAIN transfer.acc
        /\ transfer.acc.destination = Ata(mint, owner, Token2022)
    BY DEF SeedsHold, IdlAddress, Ix, FundTransfer
  <1>4. Prepare(ixs)  BY DEF FundAuthority
  <1> HIDE DEF ata, transfer
  <1>5. DOMAIN ixs = {1, 2} /\ Len(ixs) = 2 /\ ixs[1] = ata /\ ixs[2] = transfer  OBVIOUS
  <1> HIDE DEF ixs
  <1>6. Credits' = Ata(mint, owner, Token2022)
    <2>1. sent'.ixs = ixs  BY <1>4 DEF Prepare
    <2>2. sent'.ixs[Len(sent'.ixs)] = transfer  BY <2>1, <1>5
    <2>3. QED  BY <1>3, <2>2 DEF Credits
  <1>7. Funds(ata, Credits')  BY <1>2, <1>6 DEF Funds
  <1>8. \A k \in DOMAIN ixs \ {1} :
           /\ SeedsHold(ixs[k]) /\ ixs[k].op \in {"create_ata", "wrap", "transfer"}
           /\ "mxe_account" \notin DOMAIN ixs[k].acc
    BY <1>3, <1>5
  <1>9. QED  BY <1>1, <1>4, <1>5, <1>7, <1>8, PrepareStep

\* Every builder keeps the invariant.
LEMMA BuildersStep ==
    ASSUME IxInv,
           \/ MerchantBuilds \/ SubscriberBuilds \/ StreamBuilds
           \/ OwnerBuilds \/ KeeperBuilds \/ AdminBuilds
    PROVE  IxInv'
  <1>1. CASE MerchantBuilds
    <2>1. ASSUME NEW t \in Plans, One("create_plan", CreatePlan(plan[t].mint))  PROVE IxInv'
      BY <2>1, MerchantsBuild, OneStep DEF One
    <2>2. ASSUME NEW t \in Plans,
                 Prepare(<<Ix("create_usage_plan", CreateUsagePlan(plan[t].mint), count.plan)>>)
          PROVE  IxInv'
      BY <2>2, MerchantsBuild, OneStep
    <2>3. CASE One("init_merchant_credential", InitMerchantCredential)
      BY <2>3, MerchantsBuild, OneStep DEF One
    <2>4. ASSUME NEW p \in Plans,
                 Prepare(<<Ix("submit_usage_report", SubmitUsageReport(p, 1), 1)>>)
          PROVE  IxInv'
      BY <2>4, MerchantsBuild, OneStep
    <2>5. QED  BY <1>1, <2>1, <2>2, <2>3, <2>4 DEF MerchantBuilds
  <1>2. CASE SubscriberBuilds
    <2>1. ASSUME NEW p \in Plans, NEW explicit \in BOOLEAN, NEW given \in {None, plan[p].mint},
                 Prepare(<<Ix("subscribe", Subscribe(p, explicit, given), explicit)>>)
          PROVE  IxInv'
      BY <2>1, SubscribeStep
    <2>2. ASSUME NEW p \in Plans, NEW explicit \in BOOLEAN, Prepare(WrapAndSubscribe(p, explicit))
          PROVE  IxInv'
      BY <2>2, WrapAndSubscribeStep
    <2>3. CASE HasMandate /\ Prepare(FundAuthority(mandate.at, plan[mandate.plan].mint))
      BY <2>3, FundStep
    <2>4. CASE HasMandate /\ One("cancel", Cancel(mandate.plan))
      BY <2>4, KeepersBuild, OneStep DEF One
    <2>5. ASSUME HasMandate, NEW p \in Plans,
                 \/ One("update_mandate_plan", UpdateMandatePlan(p))
                 \/ One("schedule_plan_change", SchedulePlanChange(p))
          PROVE  IxInv'
      BY <2>5, SubscribersBuild, OneStep DEF One
    <2>6. CASE HasMandate /\ One("cancel_plan_change", CancelPlanChange)
      <3>1. mandate.plan \in Plans  BY <2>6 DEF IxInv, IxTypeOK, HasMandate
      <3>2. QED  BY <2>6, <3>1, SubscribersBuild, OneStep DEF One
    <2>7. CASE One("wrap", Wrap(Subscriber)) \/ One("unwrap_tokens", Unwrap)
      BY <2>7, WrappersBuild, OneStep DEF One
    <2>8. QED  BY <1>2, <2>1, <2>2, <2>3, <2>4, <2>5, <2>6, <2>7 DEF SubscriberBuilds
  <1>3. CASE StreamBuilds
    <2>1. CASE HasStream /\ Prepare(FundAuthority(ixStream.at, ixStream.mint))
      BY <2>1, FundStep
    <2>2. ASSUME NEW p \in Plans, One("create_stream_mandate", CreateStreamMandate(plan[p].mint))
          PROVE  IxInv'
      BY <2>2, StreamsAreBuilt, OneStep DEF One
    <2>3. ASSUME HasStream,
                 \/ One("execute_stream", ExecuteStreamAccounts)
                 \/ One("pause_stream", SettleStream) \/ One("cancel_stream", SettleStream)
                 \/ One("update_stream_rate", SettleStream)
                 \/ One("resume_stream", ResumeStreamAccounts)
          PROVE  IxInv'
      BY <2>3, StreamersBuild, OneStep DEF One
    <2>4. QED  BY <1>3, <2>1, <2>2, <2>3 DEF StreamBuilds
  <1>4. CASE OwnerBuilds
    BY <1>4, OwnersBuild, OneStep DEF OwnerBuilds, One
  <1>5. CASE KeeperBuilds
    BY <1>5, KeepersBuild, OneStep DEF KeeperBuilds, One
  <1>6. CASE AdminBuilds
    <2>1. CASE HasMandate /\ One("admin_cancel", AdminCancel(mandate.plan))
      BY <2>1, KeepersBuild, OneStep DEF One
    <2>2. CASE \/ One("init_keeper_config", InitKeeperConfig)
               \/ One("update_keeper_config", UpdateKeeperConfig)
               \/ One("pause_protocol", PauseProtocol) \/ One("unpause_protocol", UnpauseProtocol)
      BY <2>2, AdministratorBuilds, OneStep DEF One
    <2>3. ASSUME NEW p \in Plans,
                 \/ One("init_token_config", InitTokenConfig(plan[p].mint))
                 \/ One("update_token_config", UpdateTokenConfig(plan[p].mint))
          PROVE  IxInv'
      BY <2>3, AdministratorBuilds, OneStep DEF One
    <2>4. QED  BY <1>6, <2>1, <2>2, <2>3 DEF AdminBuilds
  <1>7. QED  BY <1>1, <1>2, <1>3, <1>4, <1>5, <1>6

-----------------------------------------------------------------------------
(* Instructions: landing                                                   *)

\* The counters move within their bound.
LEMMA LandCounts ==
    ASSUME IxInv, Land
    PROVE  /\ DOMAIN count' = {"plan", "mandate", "stream", "pulls"}
           /\ \A c \in DOMAIN count' : count'[c] \in 0..MaxIndex
  <1>1. \A c \in DOMAIN count : Moves(c) => count[c] < MaxIndex  BY DEF Land
  <1>2. count' = [c \in DOMAIN count |-> IF Moves(c) THEN count[c] + 1 ELSE count[c]]  BY DEF Land
  <1>3. ASSUME NEW c \in DOMAIN count  PROVE count'[c] \in 0..MaxIndex
    BY <1>1, <1>2, <1>3, IxAssumption DEF IxInv, IxTypeOK
  <1>4. QED  BY <1>2, <1>3 DEF IxInv, IxTypeOK

\* A mandate that is created has the index that was read, and is funded, if at all,
\* at the account of the protocol's mint; a mandate that is funded, at its own.
LEMMA LandMandate ==
    ASSUME IxInv, Land
    PROVE  MandateIsSubscribed' /\ mandate'.plan \in Plans \cup {NoPlan}
  <1>1. /\ sent # NoSent /\ Accepted /\ mandate' = MandateAfter /\ UNCHANGED <<plan, mxe>>
    BY DEF Land
  <1>2. MandateIsSubscribed /\ SentWasRead /\ 1 \in DOMAIN sent.ixs
    BY <1>1 DEF IxInv, OthersFollow
  <1>3. NoPlan \notin Plans /\ mandate.plan \in Plans \cup {NoPlan}
    BY IxAssumption DEF IxInv, IxTypeOK, Plans
  <1>4. CASE mandate' = mandate
    BY <1>1, <1>2, <1>3, <1>4 DEF MandateIsSubscribed, HasMandate, NoMandate, CredentialOf, Plans
  <1>5. CASE First.op = "subscribe"
    <2>1. PICK p \in Plans :
             First.acc.plan = PlanAt(p) /\ First.acc.credential_mint = CredentialOf(p)
      BY <1>1, <1>2, <1>5 DEF SentWasRead, TakesPlan
    <2>2. mandate' = [at |-> First.acc.mandate, minted |-> First.acc.credential_mint,
                      plan |-> p, funded |-> Credits]
      BY <1>1, <1>5, <2>1, PlanIsNamed DEF MandateAfter
    <2>3. /\ sent.read.count["mandate"] \in 0..MaxIndex
          /\ First.acc.mandate = MandateAddress(Subscriber, Merchant, sent.read.count["mandate"])
          /\ Credits \in {None, Ata(ProtocolMint, First.acc.mandate, Token2022)}
      BY <1>1, <1>2, <1>5 DEF SentWasRead, TakesCounters, Funds, IxInv, IxTypeOK
    <2>4. HasMandate' /\ Plans' = Plans /\ CredentialOf(p)' = CredentialOf(p)
      BY <1>1, <1>3, <2>2 DEF HasMandate, Plans, CredentialOf
    <2>5. QED  BY <1>3, <2>1, <2>2, <2>3, <2>4 DEF MandateIsSubscribed
  <1>6. CASE First.op = "update_mandate_plan"
    <2>1. PICK p \in Plans : First.acc.new_plan = PlanAt(p)
      BY <1>1, <1>2, <1>6 DEF SentWasRead, TakesPlan
    <2>2. HasMandate /\ First.acc.wrapped_usdc_mint = ProtocolMint
      BY <1>1, <1>2, <1>6 DEF SentWasRead, TakesPlan
    <2>3. mandate' = [mandate EXCEPT !.plan = p]
      BY <1>1, <1>6, <2>1, PlanIsNamed DEF MandateAfter
    <2>4. plan[mandate.plan].mint = ProtocolMint
      BY <1>1, <1>2, <1>6, <2>2 DEF Accepted, Accepts, NamesPlan, First
    <2>5. /\ mandate'.at = mandate.at /\ mandate'.minted = mandate.minted
          /\ mandate'.funded = mandate.funded /\ mandate'.plan = p
          /\ mandate' = [at |-> mandate'.at, plan |-> mandate'.plan, minted |-> mandate'.minted,
                         funded |-> mandate'.funded]
      BY <1>2, <2>3 DEF MandateIsSubscribed
    <2>6. HasMandate' /\ Plans' = Plans /\ \A q : CredentialOf(q)' = CredentialOf(q)
      BY <1>1, <1>3, <2>5 DEF HasMandate, Plans, CredentialOf
    <2>7. QED  BY <1>1, <1>2, <2>2, <2>4, <2>5, <2>6 DEF MandateIsSubscribed
  <1>7. CASE First.op \in {"cancel", "admin_cancel"}
    <2>1. mandate' = NoMandate  BY <1>1, <1>7 DEF MandateAfter
    <2>2. QED  BY <2>1 DEF MandateIsSubscribed, HasMandate, NoMandate
  <1>8. CASE First.op = "create_ata" /\ First.acc.owner = mandate.at
    <2>1. mandate' = [mandate EXCEPT !.funded = Credits]  BY <1>1, <1>8 DEF MandateAfter
    <2>2. /\ mandate'.at = mandate.at /\ mandate'.minted = mandate.minted
          /\ mandate'.funded = Credits /\ mandate'.plan = mandate.plan
          /\ mandate' = [at |-> mandate'.at, plan |-> mandate'.plan, minted |-> mandate'.minted,
                         funded |-> mandate'.funded]
      BY <1>2, <2>1 DEF MandateIsSubscribed
    <2>3. HasMandate /\ Credits = Ata(plan[mandate.plan].mint, mandate.at, Token2022)
      <3>1. CASE HasStream /\ First.acc.owner = ixStream.at
        <4>1. PICK j \in 0..MaxIndex : ixStream.at = StreamAddress(Subscriber, Merchant, j)
          BY <3>1 DEF IxInv, StreamIsCreated, HasStream, NoStream
        <4>2. mandate.at = None \/ \E i \in 0..MaxIndex : mandate.at = MandateAddress(Subscriber, Merchant, i)
          BY <1>2 DEF MandateIsSubscribed, NoMandate
        <4>3. QED  BY <1>8, <3>1, <4>1, <4>2, MandatesAreNoStreams
      <3>2. QED  BY <1>1, <1>2, <1>8, <3>1 DEF SentWasRead, Funds
    <2>4. HasMandate' /\ Plans' = Plans /\ \A q : CredentialOf(q)' = CredentialOf(q)
      BY <1>1, <2>2, <2>3 DEF HasMandate, Plans, CredentialOf
    <2>5. QED  BY <1>1, <1>2, <1>3, <2>2, <2>3, <2>4 DEF MandateIsSubscribed
  <1>9. QED  BY <1>1, <1>4, <1>5, <1>6, <1>7, <1>8 DEF MandateAfter

\* So for a stream.
LEMMA LandStream ==
    ASSUME IxInv, Land
    PROVE  StreamIsCreated'
  <1>1. /\ sent # NoSent /\ ixStream' = StreamAfter
    BY DEF Land
  <1>2. StreamIsCreated /\ SentWasRead
    BY DEF IxInv
  <1>3. CASE ixStream' = ixStream
    BY <1>2, <1>3 DEF StreamIsCreated, NoStream
  <1>4. CASE First.op = "create_stream_mandate"
    <2>1. ixStream' = [at |-> First.acc.mandate, mint |-> First.acc.mint, funded |-> None]
      BY <1>1, <1>4 DEF StreamAfter
    <2>2. /\ sent.read.count["stream"] \in 0..MaxIndex
          /\ First.acc.mandate = StreamAddress(Subscriber, Merchant, sent.read.count["stream"])
      BY <1>1, <1>2, <1>4 DEF SentWasRead, TakesCounters, IxInv, IxTypeOK
    <2>3. QED  BY <2>1, <2>2 DEF StreamIsCreated
  <1>5. CASE First.op = "cancel_stream"
    <2>1. ixStream' = NoStream  BY <1>1, <1>5 DEF StreamAfter
    <2>2. QED  BY <2>1 DEF StreamIsCreated, NoStream
  <1>6. CASE First.op = "create_ata" /\ First.acc.owner = ixStream.at
    <2>1. ixStream' = [ixStream EXCEPT !.funded = Credits]  BY <1>1, <1>6 DEF StreamAfter
    <2>2. HasStream /\ Credits = Ata(ixStream.mint, ixStream.at, Token2022)
      <3>1. CASE HasMandate /\ First.acc.owner = mandate.at
        <4>1. PICK i \in 0..MaxIndex : mandate.at = MandateAddress(Subscriber, Merchant, i)
          BY <3>1 DEF IxInv, MandateIsSubscribed
        <4>2. ixStream.at = None \/ \E j \in 0..MaxIndex : ixStream.at = StreamAddress(Subscriber, Merchant, j)
          BY <1>2 DEF StreamIsCreated, NoStream
        <4>3. QED  BY <1>6, <3>1, <4>1, <4>2, MandatesAreNoStreams
      <3>2. QED  BY <1>1, <1>2, <1>6, <3>1 DEF SentWasRead, Funds
    <2>3. PICK j \in 0..MaxIndex : ixStream.at = StreamAddress(Subscriber, Merchant, j)
      BY <1>2, <2>2 DEF StreamIsCreated, HasStream, NoStream
    <2>4. QED  BY <1>2, <2>1, <2>2, <2>3 DEF StreamIsCreated
  <1>7. QED  BY <1>1, <1>3, <1>4, <1>5, <1>6 DEF StreamAfter

\* The initial states satisfy the invariant.
LEMMA IxInitially == IxInit => IxInv
  BY IxAssumption
     DEF IxInit, IxInv, IxTypeOK, MandateIsSubscribed, StreamIsCreated, SeedsMatchIdl, OthersFollow,
         SentWasRead, HasMandate, NoMandate, NoStream

\* While nothing of the subscriber changes, what was built is as it was.
LEMMA OthersStep ==
    ASSUME IxInv, UNCHANGED <<plan, mandate, ixStream, sent>>,
           mxe' \in Clusters,
           DOMAIN count' = DOMAIN count, \A c \in DOMAIN count' : count'[c] \in 0..MaxIndex
    PROVE  IxInv'
  <1>1. Plans' = Plans /\ (HasMandate' <=> HasMandate) /\ (HasStream' <=> HasStream)
    BY DEF Plans, HasMandate, HasStream
  <1>2. IxTypeOK' /\ MandateIsSubscribed' /\ StreamIsCreated'
    BY <1>1 DEF IxInv, IxTypeOK, MandateIsSubscribed, StreamIsCreated, HasMandate,
                NoMandate, NoStream, CredentialOf, Plans
  <1>3. SeedsMatchIdl' /\ OthersFollow'
    BY DEF IxInv, SeedsMatchIdl, OthersFollow
  <1>4. First' = First /\ Credits' = Credits
    BY DEF First, Credits
  <1>5. SentWasRead'
    <2>1. \A i, p : TakesPlan(i, p) => TakesPlan(i, p)'
      BY DEF TakesPlan, TakesMint, CredentialOf, Plans, HasMandate
    <2>2. \A i, c : Debits(i) => Debits(i)'
      BY DEF Debits, HasMandate, HasStream
    <2>3. \A i, c : Funds(i, c) => Funds(i, c)'
      BY DEF Funds, HasMandate, HasStream
    <2>4. QED
      BY <1>1, <1>4, <2>1, <2>2, <2>3 DEF IxInv, SentWasRead
  <1>6. QED  BY <1>2, <1>3, <1>5 DEF IxInv

\* A change of the mandate's plan, of the same mint, leaves what was built as it was.
LEMMA PlanMovesStep == ASSUME IxInv, PlanMoves  PROVE IxInv'
  <1>1. PICK p \in Plans :
           /\ plan[p].mint = plan[mandate.plan].mint
           /\ mandate' = [mandate EXCEPT !.plan = p]
    BY DEF PlanMoves
  <1>2. UNCHANGED <<plan, mxe, count, ixStream, sent>> /\ HasMandate
    BY DEF PlanMoves
  <1>3. NoPlan \notin Plans
    BY IxAssumption DEF IxInv, IxTypeOK, Plans
  <1>4. /\ mandate'.at = mandate.at /\ mandate'.minted = mandate.minted
        /\ mandate'.funded = mandate.funded /\ mandate'.plan = p
        /\ mandate' = [at |-> mandate'.at, plan |-> mandate'.plan, minted |-> mandate'.minted,
                       funded |-> mandate'.funded]
    BY <1>1 DEF IxInv, MandateIsSubscribed
  <1>5. HasMandate' /\ Plans' = Plans /\ (HasStream' <=> HasStream)
    BY <1>2, <1>3, <1>4 DEF HasMandate, HasStream, Plans
  <1>6. IxTypeOK' /\ StreamIsCreated' /\ SeedsMatchIdl' /\ OthersFollow'
    BY <1>2, <1>4, <1>5
       DEF IxInv, IxTypeOK, StreamIsCreated, NoStream, SeedsMatchIdl, OthersFollow
  <1>7. MandateIsSubscribed'
    BY <1>1, <1>2, <1>4, <1>5 DEF IxInv, MandateIsSubscribed, CredentialOf
  <1>8. First' = First /\ Credits' = Credits
    BY <1>2 DEF First, Credits
  <1>9. SentWasRead'
    <2>1. \A i, q : TakesPlan(i, q) => TakesPlan(i, q)'
      BY <1>2, <1>5 DEF TakesPlan, TakesMint, CredentialOf
    <2>2. \A i : Debits(i) => Debits(i)'
      BY <1>2, <1>4, <1>5 DEF Debits
    <2>3. \A i, c : Funds(i, c) => Funds(i, c)'
      BY <1>1, <1>2, <1>4, <1>5 DEF Funds
    <2>4. QED
      BY <1>1, <1>2, <1>4, <1>5, <1>8, <2>1, <2>2, <2>3 DEF IxInv, SentWasRead
  <1>10. QED  BY <1>6, <1>7, <1>9 DEF IxInv

\* Every step keeps the invariant.
LEMMA IxStep == IxInv /\ [IxNext]_ixVars => IxInv'
  <1> SUFFICES ASSUME IxInv, [IxNext]_ixVars  PROVE IxInv'
    OBVIOUS
  <1>1. CASE \/ MerchantBuilds \/ SubscriberBuilds \/ StreamBuilds
             \/ OwnerBuilds \/ KeeperBuilds \/ AdminBuilds
    BY <1>1, BuildersStep
  <1>2. CASE Land
    <2>1. sent' = NoSent /\ UNCHANGED <<plan, mxe>>  BY <1>2 DEF Land
    <2>2. MandateIsSubscribed' /\ StreamIsCreated' /\ mandate'.plan \in Plans \cup {NoPlan}
      BY <1>2, LandMandate, LandStream
    <2>3. SeedsMatchIdl' /\ OthersFollow' /\ SentWasRead'
      BY <2>1 DEF SeedsMatchIdl, OthersFollow, SentWasRead
    <2>4. IxTypeOK'
      BY <1>2, <2>1, <2>2, LandCounts DEF IxInv, IxTypeOK, Plans
    <2>5. QED  BY <2>2, <2>3, <2>4 DEF IxInv
  <1>3. CASE Refuse
    BY <1>3 DEF Refuse, IxInv, IxTypeOK, MandateIsSubscribed, StreamIsCreated, SeedsMatchIdl,
                OthersFollow, SentWasRead, HasMandate, NoMandate, NoStream, CredentialOf, Plans
  <1>4. CASE OthersCreate
    <2>1. PICK c \in DOMAIN count : count[c] < MaxIndex /\ count' = [count EXCEPT ![c] = @ + 1]
      BY <1>4 DEF OthersCreate
    <2>2. /\ DOMAIN count' = DOMAIN count
          /\ \A d \in DOMAIN count' : count'[d] \in 0..MaxIndex
      BY <2>1, IxAssumption DEF IxInv, IxTypeOK
    <2>3. UNCHANGED <<plan, mxe, mandate, ixStream, sent>>
      BY <1>4 DEF OthersCreate
    <2>4. QED  BY <2>2, <2>3, OthersStep DEF IxInv, IxTypeOK
  <1>5. CASE UpdateConfig
    BY <1>5, OthersStep DEF UpdateConfig, IxInv, IxTypeOK
  <1>6. CASE PlanMoves
    BY <1>6, PlanMovesStep
  <1>7. CASE UNCHANGED ixVars
    BY <1>7, OthersStep DEF ixVars, IxInv, IxTypeOK
  <1>8. QED
    BY <1>1, <1>2, <1>3, <1>4, <1>5, <1>6, <1>7 DEF IxNext

-----------------------------------------------------------------------------
(* Instructions: what builders and program agree on                        *)

\* An instruction that is not the first is accepted.
LEMMA OthersAreAccepted ==
    ASSUME IxInv, sent # NoSent, NEW k \in DOMAIN sent.ixs \ {1}
    PROVE  Accepts(sent.ixs[k])
  <1>1. /\ SeedsHold(sent.ixs[k])
        /\ sent.ixs[k].op \in {"create_ata", "wrap", "transfer"}
        /\ "mxe_account" \notin DOMAIN sent.ixs[k].acc
    BY DEF IxInv, SeedsMatchIdl, OthersFollow
  <1>2. QED  BY <1>1 DEF Accepts, CreatesNext, NamesCluster, NamesPlan

\* A transaction is refused only for what has changed since it was built, or in
\* the two cases in which the code assumes something of the plan.
LEMMA RefusalsAreExplained ==
    ASSUME IxInv, sent # NoSent, ~Stale, ~AssumesMint, ~AssumesCredential
    PROVE  Accepts(First)
  <1> DEFINE read == sent.read
  <1>1. /\ SeedsHold(First)
        /\ TakesCounters(First, read.count) /\ TakesCluster(First, read.mxe)
        /\ TakesPlan(First, read.plan)
    BY DEF IxInv, SeedsMatchIdl, OthersFollow, SentWasRead, First
  <1>2. \A c \in {"plan", "mandate", "stream", "pulls"} : Moves(c) => count[c] = read.count[c]
    BY DEF Stale, IxInv, IxTypeOK
  <1>3. CreatesNext(First)
    <2>1. First.op \in {"create_plan", "create_usage_plan"} => count.plan = read.count.plan
      BY <1>2 DEF Moves
    <2>2. First.op = "subscribe" => count.mandate = read.count.mandate
      BY <1>2 DEF Moves
    <2>3. First.op = "create_stream_mandate" => count.stream = read.count.stream
      BY <1>2 DEF Moves
    <2>4. First.op = "request_billing_record" => count.pulls = read.count.pulls
      BY DEF Stale, Ops, First, IxInv, OthersFollow
    <2>5. QED  BY <1>1, <2>1, <2>2, <2>3, <2>4 DEF CreatesNext, TakesCounters
  <1>4. NamesCluster(First)
    <2>1. "mxe_account" \in DOMAIN First.acc => mxe = read.mxe  BY DEF Stale
    <2>2. QED  BY <1>1, <2>1 DEF NamesCluster, TakesCluster
  <1>5. NamesPlan(First)
    <2>1. CASE First.op = "subscribe"
      <3>1. PICK p \in Plans :
               /\ First.acc.plan = PlanAt(p) /\ First.acc.credential_mint = CredentialOf(p)
               /\ TakesMint(First, p)
        BY <1>1, <2>1 DEF TakesPlan
      <3>2. First.acc.billing_mint = plan[p].mint
        <4>1. CASE First.arg = TRUE /\ \E q \in Plans : plan[q].mint # ProtocolMint
          BY <2>1, <4>1 DEF AssumesMint
        <4>2. CASE plan[p].kind = "usage" /\ \E q \in Plans : plan[q].mint # ProtocolMint
          BY <2>1, <3>1, <4>2, PlanIsNamed DEF AssumesMint
        <4>3. QED  BY <3>1, <4>1, <4>2 DEF TakesMint
      <3>3. QED  BY <2>1, <3>1, <3>2 DEF NamesPlan
    <2>2. CASE First.op \in {"cancel", "admin_cancel"}
      <3>1. mandate.plan = read.plan  BY <2>2 DEF Stale
      <3>2. \A p \in Plans : plan[p].credential = "merchant"
        BY <2>2 DEF AssumesCredential
      <3>3. \A p \in Plans : CredentialOf(p) = CredentialMint(Merchant)
        BY <3>2 DEF CredentialOf
      <3>4. /\ HasMandate /\ First.acc.plan = PlanAt(read.plan)
            /\ First.acc.credential_mint = CredentialOf(read.plan)
        BY <1>1, <2>2 DEF TakesPlan
      <3>5. mandate.plan \in Plans /\ \E p \in Plans : mandate.minted = CredentialOf(p)
        BY <3>4 DEF IxInv, IxTypeOK, MandateIsSubscribed, HasMandate
      <3>6. QED  BY <2>2, <3>1, <3>3, <3>4, <3>5 DEF NamesPlan
    <2>3. CASE First.op \in {"execute_pull", "request_validation", "request_billing_record"}
      <3>1. mandate.plan = read.plan  BY <2>3 DEF Stale
      <3>2. QED  BY <1>1, <2>3, <3>1 DEF NamesPlan, TakesPlan
    <2>4. CASE First.op = "update_mandate_plan"
      <3>1. HasMandate /\ First.acc.wrapped_usdc_mint = ProtocolMint
        BY <1>1, <2>4 DEF TakesPlan
      <3>2. mandate.plan \in Plans  BY <3>1 DEF IxInv, IxTypeOK, HasMandate
      <3>3. plan[mandate.plan].mint = ProtocolMint
        BY <2>4, <3>2 DEF AssumesMint
      <3>4. QED  BY <2>4, <3>1, <3>3 DEF NamesPlan
    <2>5. QED  BY <2>1, <2>2, <2>3, <2>4 DEF NamesPlan
  <1>6. QED  BY <1>1, <1>3, <1>4, <1>5 DEF Accepts

\* The account that is debited was the one credited, if any was.
LEMMA WhatIsFundedIsPulled == IxInv => FundedIsPulled
  <1> SUFFICES ASSUME IxInv, sent # NoSent, Accepted,
                      "subscriber_wrapped_account" \in DOMAIN First.acc
               PROVE  LET source == First.acc.subscriber_wrapped_account
                      IN /\ First.acc.mandate = ixStream.at => ixStream.funded \in {None, source}
                         /\ First.acc.mandate = mandate.at /\ plan[mandate.plan].mint = ProtocolMint =>
                                mandate.funded \in {None, source}
    BY DEF FundedIsPulled
  <1> DEFINE source == First.acc.subscriber_wrapped_account
  <1>1. Debits(First) /\ MandateIsSubscribed /\ StreamIsCreated
    BY DEF IxInv, SentWasRead
  <1>2. CASE /\ HasMandate /\ First.op \in {"execute_pull", "update_mandate_plan"}
             /\ First.acc.mandate = mandate.at
             /\ source = Ata(First.acc.wrapped_usdc_mint, mandate.at, Token2022)
    <2>1. First.acc.mandate # ixStream.at
      <3>1. PICK i \in 0..MaxIndex : mandate.at = MandateAddress(Subscriber, Merchant, i)
        BY <1>1, <1>2 DEF MandateIsSubscribed
      <3>2. ixStream.at = None \/ \E j \in 0..MaxIndex : ixStream.at = StreamAddress(Subscriber, Merchant, j)
        BY <1>1 DEF StreamIsCreated, NoStream
      <3>3. QED  BY <1>2, <3>1, <3>2, MandatesAreNoStreams
    <2>2. First.acc.wrapped_usdc_mint = plan[mandate.plan].mint
      BY <1>2 DEF Accepted, Accepts, NamesPlan, First, IxInv, OthersFollow
    <2>3. QED  BY <1>1, <1>2, <2>1, <2>2 DEF MandateIsSubscribed
  <1>3. CASE /\ HasStream /\ First.acc.mandate = ixStream.at
             /\ source = Ata(ixStream.mint, ixStream.at, Token2022)
    <2>1. PICK j \in 0..MaxIndex : ixStream.at = StreamAddress(Subscriber, Merchant, j)
      BY <1>1, <1>3 DEF StreamIsCreated, HasStream, NoStream
    <2>2. mandate.at = None \/ \E i \in 0..MaxIndex : mandate.at = MandateAddress(Subscriber, Merchant, i)
      BY <1>1 DEF MandateIsSubscribed, NoMandate
    <2>3. First.acc.mandate # mandate.at
      BY <1>3, <2>1, <2>2, MandatesAreNoStreams
    <2>4. ixStream.funded \in {None, source}
      BY <1>1, <1>3 DEF StreamIsCreated, HasStream, NoStream
    <2>5. QED  BY <2>3, <2>4
  <1>4. QED  BY <1>1, <1>2, <1>3 DEF Debits

\* Builders and program agree on the addresses in every state of the invariant.
LEMMA InvariantAgrees == IxInv => AddressesAgree
  <1> SUFFICES ASSUME IxInv  PROVE AddressesAgree
    OBVIOUS
  <1>1. SeedsMatchIdl /\ FundedIsPulled  BY WhatIsFundedIsPulled DEF IxInv
  <1>2. RefusalExplained
    <2> SUFFICES ASSUME sent # NoSent, ~Stale, ~AssumesMint, ~AssumesCredential  PROVE Accepted
      BY DEF RefusalExplained
    <2>1. Accepts(sent.ixs[1])  BY RefusalsAreExplained DEF First
    <2>2. QED  BY <2>1, OthersAreAccepted DEF Accepted
  <1>3. QED  BY <1>1, <1>2 DEF AddressesAgree

\* The invariant holds in every reachable state.
THEOREM IxInvariance == IxSpec => []IxInv
  BY IxInitially, IxStep, PTL DEF IxSpec

\* The plans, the cluster, the counters and the mandate's plan keep their types.
THEOREM IxTypeCorrect == IxSpec => []IxTypeOK
  <1>1. IxInv => IxTypeOK  BY DEF IxInv
  <1>2. QED  BY <1>1, IxInvariance, PTL

\* Every builder of an instruction: it names the addresses the interface file derives,
\* is refused for an account only if what it read has changed or in the two cases in
\* which it assumes something of the plan, and debits the account that was funded.
THEOREM AddressesAlwaysAgree == IxSpec => []AddressesAgree
  BY InvariantAgrees, IxInvariance, PTL

-----------------------------------------------------------------------------
(* Accounts                                                                *)

\* What satisfies the recurrence of the ends of fields is those ends.
Ends(layout, start, n, e) ==
    /\ e \in [0..n -> Int] /\ e[0] = start
    /\ \A k \in 1..n : e[k] = e[k - 1] + Width[layout[k][2]]

\* They are the only solution of their recurrence.
LEMMA EndsAre ==
    ASSUME NEW layout, NEW start, NEW n \in Nat, NEW e, Ends(layout, start, n, e)
    PROVE  EndOf(layout, start, n) = e[n]
  <1> USE DEF Ends
  <1> DEFINE end[k \in 0..n] == IF k = 0 THEN start ELSE end[k - 1] + Width[layout[k][2]]
  <1>1. e = [k \in 0..n |-> IF k = 0 THEN start ELSE e[k - 1] + Width[layout[k][2]]]
    OBVIOUS
  <1>2. end = [k \in 0..n |-> IF k = 0 THEN start ELSE end[k - 1] + Width[layout[k][2]]]
    BY <1>1
  <1>3. EndOf(layout, start, n) = end[n]
    BY DEF EndOf
  <1> HIDE DEF end
  <1>4. \A k \in 0..n : end[k] = e[k]
    <2> DEFINE T == {k \in 0..n : end[k] # e[k]}
    <2> SUFFICES ASSUME T # {}  PROVE FALSE
      OBVIOUS
    <2>0. T \in SUBSET Nat
      OBVIOUS
    <2>1. PICK m \in T : \A k \in T : m <= k
      <3> HIDE DEF T
      <3>1. QED  BY <2>0, LeastNumber
    <2>2. m \in 0..n /\ m # 0
      BY <1>2
    <2>3. m - 1 \in 0..n /\ m - 1 \notin T
      <3>1. m - 1 \in 0..n /\ ~(m <= m - 1)  BY <2>2
      <3> HIDE DEF T
      <3>2. QED  BY <2>1, <3>1
    <2>4. end[m - 1] = e[m - 1]
      BY <2>3
    <2>5. end[m] = end[m - 1] + Width[layout[m][2]]
      BY <1>2, <2>2
    <2>6. e[m] = e[m - 1] + Width[layout[m][2]]
      <3>1. m \in 1..n  BY <2>2
      <3>2. QED  BY <3>1
    <2>7. end[m] = e[m]
      BY <2>4, <2>5, <2>6
    <2>8. QED  BY <2>1, <2>7
  <1>5. QED  BY <1>3, <1>4

\* Where the fields of a layout begin, and the end of the last one; no two fields are
\* of the same name.
FieldsBegin(layout, n, ends) ==
    /\ n \in Nat /\ DOMAIN layout = 1..n /\ DOMAIN ends = 1..n + 1
    /\ \A k \in 1..n + 1 : ends[k] \in Int
    /\ \A k \in 1..n : ends[k + 1] = ends[k] + Width[layout[k][2]]
    /\ \A j, k \in 1..n : layout[j][1] = layout[k][1] => j = k

\* Where a field is.
LEMMA FieldBegins ==
    ASSUME NEW layout, NEW n, NEW ends, FieldsBegin(layout, n, ends), NEW k \in 1..n
    PROVE  EndOf(layout, ends[1], k - 1) = ends[k]
  <1> DEFINE e == [j \in 0..k - 1 |-> ends[j + 1]]
  <1>1. k - 1 \in Nat /\ \A j \in 0..k - 1 : j + 1 \in 1..n + 1
    BY DEF FieldsBegin
  <1>2. e \in [0..k - 1 -> Int]
    BY <1>1 DEF FieldsBegin
  <1>3. e[0] = ends[1] /\ e[k - 1] = ends[k]
    BY <1>1 DEF FieldsBegin
  <1>4. ASSUME NEW j \in 1..k - 1  PROVE e[j] = e[j - 1] + Width[layout[j][2]]
    <2>1. j \in 1..n /\ j \in 0..k - 1 /\ j - 1 \in 0..k - 1 /\ (j - 1) + 1 = j
      BY DEF FieldsBegin
    <2>2. e[j] = ends[j + 1] /\ e[j - 1] = ends[j]
      BY <2>1
    <2>3. QED  BY <2>1, <2>2 DEF FieldsBegin
  <1> HIDE DEF e
  <1>5. Ends(layout, ends[1], k - 1, e)
    BY <1>1, <1>2, <1>3, <1>4 DEF Ends
  <1>6. EndOf(layout, ends[1], k - 1) = e[k - 1]
    BY <1>1, <1>5, EndsAre
  <1>7. QED  BY <1>3, <1>6

\* What says where the fields of a layout begin, and how wide they are, is its places.
Written(layout, n, ends, written) ==
    /\ written = [name \in DOMAIN written |-> written[name]]
    /\ DOMAIN written = {layout[k][1] : k \in 1..n}
    /\ \A k \in 1..n : written[layout[k][1]] = <<ends[k], Width[layout[k][2]]>>

\* It is what Places makes of the layout.
LEMMA PlacesWritten ==
    ASSUME NEW layout, NEW n, NEW ends, FieldsBegin(layout, n, ends),
           NEW written, Written(layout, n, ends, written)
    PROVE  Places(layout, ends[1]) = written
  <1> DEFINE Index(name) == CHOOSE k \in DOMAIN layout : layout[k][1] = name
             Place(name) == <<EndOf(layout, ends[1], Index(name) - 1), Width[layout[Index(name)][2]]>>
  <1>1. Places(layout, ends[1]) = [name \in {layout[k][1] : k \in DOMAIN layout} |-> Place(name)]
    BY DEF Places
  <1>2. DOMAIN written = {layout[k][1] : k \in DOMAIN layout}
    BY DEF FieldsBegin, Written
  <1>3. ASSUME NEW k \in 1..n  PROVE Place(layout[k][1]) = written[layout[k][1]]
    <2>1. Index(layout[k][1]) = k
      BY DEF FieldsBegin
    <2> HIDE DEF Index
    <2>2. EndOf(layout, ends[1], k - 1) = ends[k]
      BY FieldBegins
    <2>3. QED  BY <2>1, <2>2 DEF Written
  <1> HIDE DEF Place
  <1>4. ASSUME NEW name \in DOMAIN written  PROVE Place(name) = written[name]
    <2>1. PICK k \in 1..n : name = layout[k][1]
      BY DEF Written
    <2>2. QED  BY <1>3, <2>1
  <1>5. written = [name \in DOMAIN written |-> Place(name)]
    BY <1>4 DEF Written
  <1>6. QED  BY <1>1, <1>2, <1>5

\* Where the fields of each account begin, and the last one ends.
ApprovalEnds == <<8, 40, 48, 56, 64, 65, 73, 81, 82>>
TokenConfigEnds == <<8, 40, 72, 73, 74, 75, 107, 139, 147, 148, 149, 213>>
MandateEnds == <<8, 40, 72, 104, 112, 120, 128, 136, 144, 152, 160, 168, 176, 184, 192, 193,
                 194, 195, 203, 204, 212, 244, 252, 253, 261, 268>>

\* A pull approval is read where it was written.
LEMMA ApprovalWhereWritten ==
    Places(ApprovalReads, 8) = IdlPlaces["PullApproval"] /\ FieldsBegin(ApprovalReads, 8, ApprovalEnds)
  <1> DEFINE written == [mandate |-> <<8, 32>>, periodStart |-> <<40, 8>>,
                        periodEnd |-> <<48, 8>>, validUntil |-> <<56, 8>>,
                        approved |-> <<64, 1>>, approvedAmount |-> <<65, 8>>,
                        createdAt |-> <<73, 8>>, bump |-> <<81, 1>>]
  <1>1. DOMAIN ApprovalReads = 1..8 /\ DOMAIN ApprovalEnds = 1..8 + 1 /\ ApprovalEnds[1] = 8
    BY DEF ApprovalReads, ApprovalEnds
  <1>2. \A k \in 1..8 + 1 : ApprovalEnds[k] \in Int
    BY DEF ApprovalEnds
  <1>3. \A k \in 1..8 : ApprovalEnds[k + 1] = ApprovalEnds[k] + Width[ApprovalReads[k][2]]
    BY DEF ApprovalReads, ApprovalEnds, Width
  <1>4. \A j, k \in 1..8 : ApprovalReads[j][1] = ApprovalReads[k][1] => j = k
    BY DEF ApprovalReads
  <1>5. written = [name \in DOMAIN written |-> written[name]]
    OBVIOUS
  <1>6. DOMAIN written = {ApprovalReads[k][1] : k \in 1..8}
    BY DEF ApprovalReads
  <1>7. \A k \in 1..8 :
          written[ApprovalReads[k][1]] = <<ApprovalEnds[k], Width[ApprovalReads[k][2]]>>
    BY DEF ApprovalReads, ApprovalEnds, Width
  <1>8. written = IdlPlaces["PullApproval"]
    BY DEF IdlPlaces
  <1>9. FieldsBegin(ApprovalReads, 8, ApprovalEnds)
    BY <1>1, <1>2, <1>3, <1>4 DEF FieldsBegin
  <1> HIDE DEF written
  <1>10. Written(ApprovalReads, 8, ApprovalEnds, written)
    BY <1>5, <1>6, <1>7 DEF Written
  <1>11. Places(ApprovalReads, 8) = written
    BY <1>1, <1>9, <1>10, PlacesWritten
  <1>12. QED  BY <1>8, <1>9, <1>11

\* A token's configuration is.
LEMMA TokenConfigWhereWritten ==
    Places(TokenConfigReads, 8) = IdlPlaces["TokenConfig"] /\ FieldsBegin(TokenConfigReads, 11, TokenConfigEnds)
  <1> DEFINE written == [mint |-> <<8, 32>>, tokenProgram |-> <<40, 32>>,
                        billingRail |-> <<72, 1>>, decimals |-> <<73, 1>>,
                        enabled |-> <<74, 1>>, oracleReference |-> <<75, 32>>,
                        admin |-> <<107, 32>>, createdAt |-> <<139, 8>>,
                        bump |-> <<147, 1>>, version |-> <<148, 1>>, reserved |-> <<149, 64>>]
  <1>1. DOMAIN TokenConfigReads = 1..11 /\ DOMAIN TokenConfigEnds = 1..11 + 1 /\ TokenConfigEnds[1] = 8
    BY DEF TokenConfigReads, TokenConfigEnds
  <1>2. \A k \in 1..11 + 1 : TokenConfigEnds[k] \in Int
    BY DEF TokenConfigEnds
  <1>3. \A k \in 1..11 : TokenConfigEnds[k + 1] = TokenConfigEnds[k] + Width[TokenConfigReads[k][2]]
    BY DEF TokenConfigReads, TokenConfigEnds, Width
  <1>4. \A j, k \in 1..11 : TokenConfigReads[j][1] = TokenConfigReads[k][1] => j = k
    BY DEF TokenConfigReads
  <1>5. written = [name \in DOMAIN written |-> written[name]]
    OBVIOUS
  <1>6. DOMAIN written = {TokenConfigReads[k][1] : k \in 1..11}
    BY DEF TokenConfigReads
  <1>7. \A k \in 1..11 :
          written[TokenConfigReads[k][1]] = <<TokenConfigEnds[k], Width[TokenConfigReads[k][2]]>>
    BY DEF TokenConfigReads, TokenConfigEnds, Width
  <1>8. written = IdlPlaces["TokenConfig"]
    BY DEF IdlPlaces
  <1>9. FieldsBegin(TokenConfigReads, 11, TokenConfigEnds)
    BY <1>1, <1>2, <1>3, <1>4 DEF FieldsBegin
  <1> HIDE DEF written
  <1>10. Written(TokenConfigReads, 11, TokenConfigEnds, written)
    BY <1>5, <1>6, <1>7 DEF Written
  <1>11. Places(TokenConfigReads, 8) = written
    BY <1>1, <1>9, <1>10, PlacesWritten
  <1>12. QED  BY <1>8, <1>9, <1>11

\* A mandate is.
LEMMA MandateWhereWritten ==
    Places(MandateReads, 8) = IdlPlaces["VelaMandate"] /\ FieldsBegin(MandateReads, 25, MandateEnds)
  <1> DEFINE written == [subscriber |-> <<8, 32>>, plan |-> <<40, 32>>,
                        merchant |-> <<72, 32>>, amount |-> <<104, 8>>,
                        frequency |-> <<112, 8>>, startDate |-> <<120, 8>>,
                        expiry |-> <<128, 8>>, maxPulls |-> <<136, 8>>,
                        pullsExecuted |-> <<144, 8>>, nextPaymentDue |-> <<152, 8>>,
                        lastPullAt |-> <<160, 8>>, lastBillingRecordedPull |-> <<168, 8>>,
                        validationRequestNonce |-> <<176, 8>>,
                        billingRequestNonce |-> <<184, 8>>, status |-> <<192, 1>>,
                        bump |-> <<193, 1>>, billingType |-> <<194, 1>>,
                        mandateIndex |-> <<195, 8>>, version |-> <<203, 1>>,
                        creditBalance |-> <<204, 8>>, pendingNewPlan |-> <<212, 32>>,
                        pendingEffectiveAt |-> <<244, 8>>, pendingChangeType |-> <<252, 1>>,
                        pendingNonceShort |-> <<253, 8>>, reserved |-> <<261, 7>>]
  <1>1. DOMAIN MandateReads = 1..25 /\ DOMAIN MandateEnds = 1..25 + 1 /\ MandateEnds[1] = 8
    BY DEF MandateReads, MandateEnds
  <1>2. \A k \in 1..25 + 1 : MandateEnds[k] \in Int
    BY DEF MandateEnds
  <1>3. \A k \in 1..25 : MandateEnds[k + 1] = MandateEnds[k] + Width[MandateReads[k][2]]
    BY DEF MandateReads, MandateEnds, Width
  <1>4. \A j, k \in 1..25 : MandateReads[j][1] = MandateReads[k][1] => j = k
    BY DEF MandateReads
  <1>5. written = [name \in DOMAIN written |-> written[name]]
    OBVIOUS
  <1>6. DOMAIN written = {MandateReads[k][1] : k \in 1..25}
    BY DEF MandateReads
  <1>7. \A k \in 1..25 :
          written[MandateReads[k][1]] = <<MandateEnds[k], Width[MandateReads[k][2]]>>
    BY DEF MandateReads, MandateEnds, Width
  <1>8. written = IdlPlaces["VelaMandate"]
    BY DEF IdlPlaces
  <1>9. FieldsBegin(MandateReads, 25, MandateEnds)
    BY <1>1, <1>2, <1>3, <1>4 DEF FieldsBegin
  <1> HIDE DEF written
  <1>10. Written(MandateReads, 25, MandateEnds, written)
    BY <1>5, <1>6, <1>7 DEF Written
  <1>11. Places(MandateReads, 8) = written
    BY <1>1, <1>9, <1>10, PlacesWritten
  <1>12. QED  BY <1>8, <1>9, <1>11

\* The streams of the two versions.
OldStreamEnds == <<9, 41, 73, 105, 113, 121, 129, 137, 146, 155, 159, 160, 168, 169>>
StreamEnds == <<9, 41, 73, 105, 113, 121, 129, 137, 146, 155, 159, 160, 168, 169,
                177, 185, 193, 194, 202>>

\* What a stream is read as, in each version.
LEMMA StreamFields ==
    /\ FieldsBegin(StreamReads(1), 13, OldStreamEnds) /\ OldStreamEnds[1] = 9
    /\ FieldsBegin(StreamReads(2), 18, StreamEnds) /\ StreamEnds[1] = 9
  <1> DEFINE first ==
        <<<<"subscriber", "key">>, <<"merchant", "key">>, <<"mint", "key">>,
          <<"ratePerSecond", "u64">>, <<"authorizedMaxRate", "u64">>, <<"lastSettledTs", "i64">>,
          <<"totalStreamed", "u64">>, <<"maxStreamed", "option">>, <<"pausedAt", "option">>,
          <<"minSettleInterval", "u32">>, <<"status", "u8">>, <<"mandateIndex", "u64">>,
          <<"bump", "u8">>>>
             pending ==
        <<<<"pendingNewRate", "u64">>, <<"pendingNewMaxRate", "u64">>,
          <<"pendingEffectiveAt", "i64">>, <<"pendingChangeType", "u8">>,
          <<"pendingNonceShort", "bytes8">>>>
  <1>1. StreamReads(1) = first \o <<>> /\ StreamReads(2) = first \o pending
    BY DEF StreamReads
  <1> DEFINE Fields == {first[k] : k \in 1..13} \cup {pending[k] : k \in 1..5}
  <1>2. /\ first \in Seq(Fields) /\ Len(first) = 13
        /\ pending \in Seq(Fields) /\ Len(pending) = 5
    <2>1. /\ first = [k \in 1..13 |-> first[k]] /\ Len(first) = 13
          /\ pending = [k \in 1..5 |-> pending[k]] /\ Len(pending) = 5
      OBVIOUS
    <2> HIDE DEF first, pending
    <2>2. first \in [1..13 -> Fields] /\ pending \in [1..5 -> Fields]
      BY <2>1
    <2>3. \A n \in Nat : [1..n -> Fields] \subseteq Seq(Fields)
      <3> HIDE DEF Fields
      <3>1. QED  BY SeqDef
    <2>4. 13 \in Nat /\ 5 \in Nat
      OBVIOUS
    <2> HIDE DEF Fields
    <2>5. QED  BY <2>1, <2>2, <2>3, <2>4
  <1>3. StreamReads(1) = first
    <2> HIDE DEF first, pending, Fields
    <2>1. QED  BY <1>1, <1>2, ConcatEmptySeq
  <1>4. FieldsBegin(first, 13, OldStreamEnds)
    <2>1. DOMAIN first = 1..13 /\ DOMAIN OldStreamEnds = 1..13 + 1
      BY DEF OldStreamEnds
    <2>2. \A k \in 1..13 + 1 : OldStreamEnds[k] \in Int
      BY DEF OldStreamEnds
    <2>3. \A k \in 1..13 : OldStreamEnds[k + 1] = OldStreamEnds[k] + Width[first[k][2]]
      BY DEF OldStreamEnds, Width
    <2>4. \A j, k \in 1..13 : first[j][1] = first[k][1] => j = k
      OBVIOUS
    <2> HIDE DEF first
    <2>5. QED  BY <2>1, <2>2, <2>3, <2>4 DEF FieldsBegin
  <1>5. /\ DOMAIN StreamReads(2) = 1..18
        /\ \A k \in 1..13 : StreamReads(2)[k] = first[k]
        /\ \A k \in 14..18 : StreamReads(2)[k] = pending[k - 13]
    <2> HIDE DEF first, pending, Fields
    <2>1. Len(first \o pending) = 18 /\ first \o pending \in Seq(Fields)
      <3>1. /\ first \o pending \in Seq(Fields)
            /\ Len(first \o pending) = Len(first) + Len(pending)
        BY <1>2, ConcatProperties, Zenon
      <3>2. QED  BY <1>2, <3>1
    <2>2. ASSUME NEW k \in 1..18
          PROVE  (first \o pending)[k] = IF k <= 13 THEN first[k] ELSE pending[k - 13]
      <3>1. k \in 1..Len(first) + Len(pending)  BY <1>2
      <3>2. (first \o pending)[k] = IF k <= Len(first) THEN first[k] ELSE pending[k - Len(first)]
        BY <1>2, <3>1, ConcatProperties, Zenon
      <3>3. QED  BY <1>2, <3>2
    <2>3. DOMAIN (first \o pending) = 1..18
      BY <2>1, LenProperties
    <2>4. \A k \in 1..13 : k \in 1..18 /\ k <= 13
      OBVIOUS
    <2>5. \A k \in 14..18 : k \in 1..18 /\ ~(k <= 13)
      OBVIOUS
    <2>6. /\ \A k \in 1..13 : (first \o pending)[k] = first[k]
          /\ \A k \in 14..18 : (first \o pending)[k] = pending[k - 13]
      BY <2>2, <2>4, <2>5
    <2>7. QED  BY <1>1, <2>3, <2>6
  <1>6. FieldsBegin(StreamReads(2), 18, StreamEnds)
    <2>1. DOMAIN StreamEnds = 1..18 + 1 /\ \A k \in 1..18 + 1 : StreamEnds[k] \in Int
      BY DEF StreamEnds
    <2>2. ASSUME NEW k \in 1..18
          PROVE  StreamEnds[k + 1] = StreamEnds[k] + Width[StreamReads(2)[k][2]]
      <3>1. CASE k \in 1..13
        <4>1. StreamEnds[k + 1] = StreamEnds[k] + Width[first[k][2]]
          BY <3>1 DEF StreamEnds, Width
        <4> HIDE DEF first
        <4>2. QED  BY <1>5, <3>1, <4>1
      <3>2. CASE k \in 14..18
        <4>1. StreamEnds[k + 1] = StreamEnds[k] + Width[pending[k - 13][2]]
          BY <3>2 DEF StreamEnds, Width
        <4> HIDE DEF pending
        <4>2. QED  BY <1>5, <3>2, <4>1
      <3>3. QED  BY <3>1, <3>2
    <2>3. ASSUME NEW j \in 1..18, NEW k \in 1..18, StreamReads(2)[j][1] = StreamReads(2)[k][1]
          PROVE  j = k
      <3>1. CASE j \in 1..13 /\ k \in 1..13
        <4>1. first[j][1] = first[k][1] => j = k  BY <3>1
        <4> HIDE DEF first
        <4>2. QED  BY <1>5, <2>3, <3>1, <4>1
      <3>2. CASE j \in 14..18 /\ k \in 14..18
        <4>1. pending[j - 13][1] = pending[k - 13][1] => j = k  BY <3>2
        <4> HIDE DEF pending
        <4>2. QED  BY <1>5, <2>3, <3>2, <4>1
      <3>3. CASE j \in 1..13 /\ k \in 14..18
        <4>1. first[j][1] # pending[k - 13][1]  BY <3>3
        <4> HIDE DEF first, pending
        <4>2. QED  BY <1>5, <2>3, <3>3, <4>1
      <3>4. CASE j \in 14..18 /\ k \in 1..13
        <4>1. pending[j - 13][1] # first[k][1]  BY <3>4
        <4> HIDE DEF first, pending
        <4>2. QED  BY <1>5, <2>3, <3>4, <4>1
      <3>5. QED  BY <3>1, <3>2, <3>3, <3>4
    <2> HIDE DEF first, pending
    <2>4. QED  BY <1>5, <2>1, <2>2, <2>3 DEF FieldsBegin
  <1>7. OldStreamEnds[1] = 9 /\ StreamEnds[1] = 9
    BY DEF OldStreamEnds, StreamEnds
  <1> HIDE DEF first
  <1>8. QED  BY <1>3, <1>4, <1>6, <1>7

\* A field ends where the next one begins.
LEMMA PlacesEnd ==
    ASSUME NEW layout, NEW n, NEW ends, FieldsBegin(layout, n, ends),
           NEW length, \A k \in 1..n : ends[k + 1] <= length,
           NEW name \in DOMAIN Places(layout, ends[1])
    PROVE  LET place == Places(layout, ends[1])[name] IN place[1] + place[2] <= length
  <1> DEFINE Index(field) == CHOOSE k \in DOMAIN layout : layout[k][1] = field
             Place(field) == <<EndOf(layout, ends[1], Index(field) - 1), Width[layout[Index(field)][2]]>>
  <1>1. Places(layout, ends[1]) = [field \in {layout[k][1] : k \in DOMAIN layout} |-> Place(field)]
    BY DEF Places
  <1>2. PICK k \in 1..n : name = layout[k][1]
    <2> HIDE DEF Place
    <2>1. QED  BY <1>1 DEF FieldsBegin
  <1>3. Index(name) = k
    BY <1>2 DEF FieldsBegin
  <1> HIDE DEF Index
  <1>4. EndOf(layout, ends[1], k - 1) = ends[k]
    BY FieldBegins
  <1>5. Place(name) = <<ends[k], Width[layout[k][2]]>>
    BY <1>3, <1>4
  <1>6. Places(layout, ends[1])[name] = Place(name)
    <2> HIDE DEF Place
    <2>1. QED  BY <1>1
  <1>7. ends[k + 1] = ends[k] + Width[layout[k][2]] /\ ends[k + 1] <= length
    BY DEF FieldsBegin
  <1>8. QED  BY <1>5, <1>6, <1>7

\* Whatever a reader reads of an account it takes is inside the account.
LEMMA EverythingInside ==
    ASSUME NEW wanted \in Raw, NEW a, a.length \in Int, a.length >= MinLength[wanted],
           wanted = "StreamMandate" => a.version \in {1, 2},
           NEW f \in DOMAIN Reads(wanted, a.version) \ {"hookProgramId"}
    PROVE  Reads(wanted, a.version)[f][1] + Reads(wanted, a.version)[f][2] <= a.length
  <1>1. CASE wanted = "VelaMandate"
    <2>1. Reads(wanted, a.version) = Places(MandateReads, 8)  BY <1>1 DEF Reads
    <2>2. a.length \in Int /\ a.length >= 268  BY <1>1 DEF MinLength
    <2>3. MandateEnds[1] = 8 /\ \A k \in 1..25 : MandateEnds[k + 1] <= a.length
      BY <2>2 DEF MandateEnds
    <2>4. QED  BY <2>1, <2>3, MandateWhereWritten, PlacesEnd
  <1>2. CASE wanted = "PullApproval"
    <2>1. Reads(wanted, a.version) = Places(ApprovalReads, 8)  BY <1>2 DEF Reads
    <2>2. a.length \in Int /\ a.length >= 82  BY <1>2 DEF MinLength
    <2>3. ApprovalEnds[1] = 8 /\ \A k \in 1..8 : ApprovalEnds[k + 1] <= a.length
      BY <2>2 DEF ApprovalEnds
    <2>4. QED  BY <2>1, <2>3, ApprovalWhereWritten, PlacesEnd
  <1>3. CASE wanted = "TokenConfig"
    <2>1. Reads(wanted, a.version) = Places(TokenConfigReads, 8)  BY <1>3 DEF Reads
    <2>2. a.length \in Int /\ a.length >= 213  BY <1>3 DEF MinLength
    <2>3. TokenConfigEnds[1] = 8 /\ \A k \in 1..11 : TokenConfigEnds[k + 1] <= a.length
      BY <2>2 DEF TokenConfigEnds
    <2>4. QED  BY <2>1, <2>3, TokenConfigWhereWritten, PlacesEnd
  <1>4. CASE wanted = "StreamMandate"
    <2>1. Reads(wanted, a.version) = Places(StreamReads(a.version), 9)  BY <1>4 DEF Reads
    <2>2. a.length \in Int /\ a.length >= 225  BY <1>4 DEF MinLength
    <2>3. CASE a.version = 1
      <3>1. \A k \in 1..13 : OldStreamEnds[k + 1] <= a.length
        BY <2>2 DEF OldStreamEnds
      <3>2. QED  BY <2>1, <2>3, <3>1, StreamFields, PlacesEnd
    <2>4. CASE a.version = 2
      <3>1. \A k \in 1..18 : StreamEnds[k + 1] <= a.length
        BY <2>2 DEF StreamEnds
      <3>2. QED  BY <2>1, <2>4, <3>1, StreamFields, PlacesEnd
    <2>5. QED  BY <1>4, <2>3, <2>4
  <1>5. CASE wanted = "MerchantState"
    <2>1. Reads(wanted, a.version) = [streamMandateCounter |-> <<89, 8>>]
      BY <1>5 DEF Reads, CounterRead
    <2>2. a.length \in Int /\ a.length >= 97  BY <1>5 DEF MinLength
    <2>3. QED  BY <2>1, <2>2
  <1>6. CASE wanted = "ProtocolConfig"
    <2>1. Reads(wanted, a.version) = [wrappingVault |-> <<113, 32>>, hookProgramId |-> <<154, 32>>]
      BY <1>6 DEF Reads, VaultRead, HookRead
    <2>2. a.length \in Int /\ a.length >= 154  BY <1>6 DEF MinLength
    <2>3. QED  BY <2>1, <2>2
  <1>7. QED  BY <1>1, <1>2, <1>3, <1>4, <1>5, <1>6 DEF Raw

\* Whatever a reader reads is where the program wrote it.
LEMMA EverythingWhereWritten ==
    ASSUME NEW wanted \in DOMAIN IdlPlaces, NEW version
    PROVE  Reads(wanted, version) = IdlPlaces[wanted]
  <1>1. wanted \in {"VelaMandate", "PullApproval", "TokenConfig", "MerchantState", "ProtocolConfig"}
    BY DEF IdlPlaces
  <1>2. CASE wanted = "VelaMandate"
    BY <1>2, MandateWhereWritten DEF Reads
  <1>3. CASE wanted = "PullApproval"
    BY <1>3, ApprovalWhereWritten DEF Reads
  <1>4. CASE wanted = "TokenConfig"
    BY <1>4, TokenConfigWhereWritten DEF Reads
  <1>5. CASE wanted = "MerchantState"
    BY <1>5 DEF Reads, IdlPlaces, CounterRead
  <1>6. CASE wanted = "ProtocolConfig"
    BY <1>6 DEF Reads, IdlPlaces, VaultRead, HookRead
  <1>7. QED  BY <1>1, <1>2, <1>3, <1>4, <1>5, <1>6

-----------------------------------------------------------------------------
(* Reading                                                                 *)

\* What was read is what the account, which is still the same, is decoded to.
ReadIsDecoded == WasRead => account.kind # "absent" /\ Decode(reading.wanted, account) = "read"

\* A usage plan is asked for when a flat one was not found.
UsageAfterFlat ==
    reading # NoReading /\ reading.step = "usage" /\ reading.there =>
        /\ reading.wanted = "plan"
        /\ reading.result = AnchorFetch("VelaPlan") /\ reading.result # "VelaPlan"

\* The invariant: a plan is found, and an account that is there stays as it is.
LayoutsInv ==
    /\ LayoutsTypeOK
    /\ account.status \in 0..3
    /\ account.kind = "absent" => account = Absent
    /\ reading # NoReading =>
          reading = [wanted |-> reading.wanted, step |-> reading.step,
                     result |-> reading.result, there |-> reading.there]
    /\ reading # NoReading /\ reading.step # "done" => reading.wanted = "plan"
    /\ ReadIsDecoded /\ UsageAfterFlat /\ PlanOfEitherKindFound

\* Lengths are of accounts of some kind, cut short or not.
LEMMA LengthsAreInBounds ==
    ASSUME NEW kind \in Kinds
    PROVE  {FullLength[kind], FullLength[kind] - 1, 154, 8, 7} \subseteq 0..316
  <1>1. FullLength[kind] \in 8..316
    BY DEF Kinds, Raw, FullLength
  <1>2. \A full \in 8..316 : {full, full - 1, 154, 8, 7} \subseteq 0..316
    OBVIOUS
  <1>3. QED  BY <1>1, <1>2

\* The initial states satisfy the invariant.
LEMMA LayoutsInitially == LayoutsInit => LayoutsInv
  <1> SUFFICES ASSUME LayoutsInit  PROVE LayoutsInv
    OBVIOUS
  <1>1. CASE account = Absent
    BY <1>1 DEF LayoutsInit, LayoutsInv, LayoutsTypeOK, Absent, ReadIsDecoded, WasRead,
                UsageAfterFlat, PlanOfEitherKindFound
  <1>2. ASSUME NEW kind \in Kinds, NEW version \in AccountVersions, NEW status \in 0..3,
               NEW itsPlan \in {"default", "a plan"}, NEW length \in 0..316,
               account = [kind |-> kind, length |-> length, version |-> version,
                          status |-> status, plan |-> itsPlan]
        PROVE  LayoutsInv
    <2>1. kind # "absent"  BY DEF Kinds, Raw
    <2>2. reading = NoReading  BY DEF LayoutsInit
    <2>3. QED
      BY <1>2, <2>1, <2>2 DEF LayoutsInv, LayoutsTypeOK, ReadIsDecoded, WasRead,
                              UsageAfterFlat, PlanOfEitherKindFound
  <1>3. QED
    <2>1. CASE account # Absent
      <3>1. PICK kind \in Kinds, version \in AccountVersions, status \in 0..3,
                 itsPlan \in {"default", "a plan"} :
                \E length \in {FullLength[kind], FullLength[kind] - 1, 154, 8, 7} :
                    account = [kind |-> kind, length |-> length, version |-> version,
                               status |-> status, plan |-> itsPlan]
        BY <2>1 DEF LayoutsInit
      <3>2. PICK length \in 0..316 :
                account = [kind |-> kind, length |-> length, version |-> version,
                           status |-> status, plan |-> itsPlan]
        <4>1. {FullLength[kind], FullLength[kind] - 1, 154, 8, 7} \subseteq 0..316
          BY LengthsAreInBounds
        <4>2. QED  BY <3>1, <4>1, Zenon
      <3>3. QED  BY <1>2, <3>2
    <2>2. QED  BY <1>1, <2>1

\* Every step keeps it.
LEMMA LayoutsStep == LayoutsInv /\ [LayoutsNext]_layoutVars => LayoutsInv'
  <1> SUFFICES ASSUME LayoutsInv, [LayoutsNext]_layoutVars  PROVE LayoutsInv'
    OBVIOUS
  <1>1. /\ account.kind \in Kinds \cup {"absent"} /\ account.length \in 0..316
        /\ account.status \in 0..3 /\ (account.kind = "absent" => account = Absent)
    BY DEF LayoutsInv, LayoutsTypeOK
  <1>2. ASSUME NEW wanted \in Raw, ReadAccount(wanted)  PROVE LayoutsInv'
    <2>1. wanted # "plan"  BY DEF Raw
    <2>2. /\ reading' = [wanted |-> wanted, step |-> "done", result |-> Fetch(wanted, account),
                         there |-> TRUE]
          /\ account' = account
      BY <1>2 DEF ReadAccount
    <2>3. Fetch(wanted, account) = "read" =>
              account.kind # "absent" /\ Decode(wanted, account) = "read"
      BY DEF Fetch
    <2>4. ReadIsDecoded'
      BY <2>2, <2>3 DEF ReadIsDecoded, WasRead
    <2>5. UsageAfterFlat' /\ PlanOfEitherKindFound'
      BY <2>1, <2>2 DEF UsageAfterFlat, PlanOfEitherKindFound
    <2>6. QED  BY <1>1, <2>1, <2>2, <2>4, <2>5 DEF LayoutsInv, LayoutsTypeOK
  <1>3. CASE GetSubscribablePlan
    <2>1. /\ reading' = [wanted |-> "plan", step |-> "flat", result |-> "none", there |-> TRUE]
          /\ account' = account
      BY <1>3 DEF GetSubscribablePlan
    <2>2. ReadIsDecoded' /\ UsageAfterFlat' /\ PlanOfEitherKindFound'
      BY <2>1 DEF ReadIsDecoded, WasRead, UsageAfterFlat, PlanOfEitherKindFound
    <2>3. QED  BY <1>1, <2>1, <2>2 DEF LayoutsInv, LayoutsTypeOK
  <1>4. CASE FetchFlat
    <2>1. PICK got \in {AnchorFetch("VelaPlan"), "fault"} :
             reading' = IF ShouldTryUsage(got)
                        THEN [reading EXCEPT !.step = "usage", !.result = got]
                        ELSE [reading EXCEPT !.step = "done", !.result = got]
      BY <1>4 DEF FetchFlat
    <2>2. PICK there, before : reading = [wanted |-> "plan", step |-> "flat",
                                          result |-> before, there |-> there]
      BY <1>4 DEF FetchFlat, LayoutsInv
    <2>6. account' = account
      BY <1>4 DEF FetchFlat
    <2>3. "plan" \notin Raw  BY DEF Raw
    <2>4. CASE ShouldTryUsage(got)
      <3>1. reading' = [wanted |-> "plan", step |-> "usage", result |-> got,
                        there |-> there]
        <4>1. reading' = [reading EXCEPT !.step = "usage", !.result = got]  BY <2>1, <2>4
        <4>2. QED  BY <2>2, <4>1
      <3>2. got = AnchorFetch("VelaPlan") /\ got # "VelaPlan"
        BY <2>4 DEF ShouldTryUsage
      <3>3. UsageAfterFlat'
        BY <2>6, <3>1, <3>2 DEF UsageAfterFlat, AnchorFetch
      <3>4. ReadIsDecoded' /\ PlanOfEitherKindFound'
        BY <2>3, <3>1 DEF ReadIsDecoded, WasRead, PlanOfEitherKindFound
      <3>5. QED  BY <1>1, <2>6, <3>1, <3>3, <3>4 DEF LayoutsInv, LayoutsTypeOK
    <2>5. CASE ~ShouldTryUsage(got)
      <3>1. reading' = [wanted |-> "plan", step |-> "done", result |-> got,
                        there |-> there]
        <4>1. reading' = [reading EXCEPT !.step = "done", !.result = got]  BY <2>1, <2>5
        <4>2. QED  BY <2>2, <4>1
      <3>2. got = "fault" \/ (got = "VelaPlan" /\ account.kind = "VelaPlan")
        BY <2>5 DEF ShouldTryUsage, AnchorFetch
      <3>3. PlanOfEitherKindFound'
        BY <2>6, <3>1, <3>2 DEF PlanOfEitherKindFound
      <3>4. ReadIsDecoded' /\ UsageAfterFlat'
        BY <2>3, <3>1 DEF ReadIsDecoded, WasRead, UsageAfterFlat
      <3>5. QED  BY <1>1, <2>6, <3>1, <3>3, <3>4 DEF LayoutsInv, LayoutsTypeOK
    <2>7. QED  BY <2>4, <2>5
  <1>5. CASE FetchUsage
    <2>1. PICK got \in {AnchorFetch("UsagePlan"), "fault"} :
             reading' = [reading EXCEPT !.step = "done",
                           !.result = IF got = "missing" /\ reading.result = "missing"
                                      THEN "unsupported or missing plan" ELSE got]
      BY <1>5 DEF FetchUsage
    <2>2. PICK there, before : reading = [wanted |-> "plan", step |-> "usage",
                                          result |-> before, there |-> there]
      BY <1>5 DEF FetchUsage, LayoutsInv
    <2> DEFINE result == IF got = "missing" /\ before = "missing"
                         THEN "unsupported or missing plan" ELSE got
    <2>3. reading' = [wanted |-> "plan", step |-> "done", result |-> result, there |-> there]
      BY <2>1, <2>2
    <2>4. account' = account
      BY <1>5 DEF FetchUsage
    <2>5. "plan" \notin Raw  BY DEF Raw
    <2>6. there /\ account.kind \in {"VelaPlan", "UsagePlan"} =>
              result \in {account.kind, "fault"}
      <3> SUFFICES ASSUME there, account.kind \in {"VelaPlan", "UsagePlan"}
                   PROVE  result \in {account.kind, "fault"}
        OBVIOUS
      <3>1. AnchorFetch("VelaPlan") # "VelaPlan"
        BY <1>5, <2>2 DEF FetchUsage, LayoutsInv, UsageAfterFlat
      <3>2. account.kind = "UsagePlan"
        BY <3>1 DEF AnchorFetch
      <3>3. QED  BY <3>2 DEF AnchorFetch
    <2>7. result = "unsupported or missing plan" => account.kind = "absent"
      BY <1>1 DEF AnchorFetch, Kinds, Raw
    <2> HIDE DEF result
    <2>8. PlanOfEitherKindFound'
      BY <2>3, <2>4, <2>6, <2>7 DEF PlanOfEitherKindFound
    <2>9. ReadIsDecoded' /\ UsageAfterFlat'
      BY <2>3, <2>5 DEF ReadIsDecoded, WasRead, UsageAfterFlat
    <2>10. QED  BY <1>1, <2>3, <2>4, <2>8, <2>9 DEF LayoutsInv, LayoutsTypeOK
  <1>6. CASE PlanCreated
    <2>1. PICK kind \in {"VelaPlan", "UsagePlan"} :
             account' = [kind |-> kind, length |-> FullLength[kind], version |-> 0, status |-> 0,
                         plan |-> "default"]
      BY <1>6 DEF PlanCreated, Absent
    <2>2. kind \in Kinds /\ kind # "absent"
      BY DEF Kinds
    <2>3. FullLength[kind] \in 0..316
      BY <2>2, LengthsAreInBounds
    <2>4. /\ account'.kind = kind /\ account'.length = FullLength[kind] /\ account'.status = 0
      BY <2>1
    <2>5. account.kind = "absent" /\ ~WasRead
      BY <1>6 DEF PlanCreated, LayoutsInv, ReadIsDecoded
    <2>6. CASE reading = NoReading
      <3>1. reading' = NoReading  BY <1>6, <2>6 DEF PlanCreated
      <3>2. QED
        <4>1. ReadIsDecoded' /\ UsageAfterFlat' /\ PlanOfEitherKindFound'
          BY <3>1 DEF ReadIsDecoded, WasRead, UsageAfterFlat, PlanOfEitherKindFound
        <4>2. QED  BY <2>2, <2>3, <2>4, <3>1, <4>1 DEF LayoutsInv, LayoutsTypeOK
    <2>7. CASE reading # NoReading
      <3>1. reading = [wanted |-> reading.wanted, step |-> reading.step,
                       result |-> reading.result, there |-> reading.there]
        BY <2>7 DEF LayoutsInv
      <3>2. reading' = [wanted |-> reading.wanted, step |-> reading.step,
                        result |-> reading.result, there |-> FALSE]
        BY <1>6, <2>7, <3>1 DEF PlanCreated
      <3>3. ReadIsDecoded' /\ UsageAfterFlat' /\ PlanOfEitherKindFound'
        BY <2>5, <2>7, <3>2 DEF ReadIsDecoded, WasRead, UsageAfterFlat, PlanOfEitherKindFound
      <3>4. /\ reading.wanted \in Raw \cup {"plan"} /\ reading.step \in {"flat", "usage", "done"}
            /\ reading.step # "done" => reading.wanted = "plan"
        BY <2>7 DEF LayoutsInv, LayoutsTypeOK
      <3>5. QED  BY <2>2, <2>3, <2>4, <3>2, <3>3, <3>4 DEF LayoutsInv, LayoutsTypeOK
    <2>8. QED  BY <2>6, <2>7
  <1>7. CASE UNCHANGED layoutVars
    <2>1. reading' = reading /\ account' = account  BY <1>7 DEF layoutVars
    <2>2. ReadIsDecoded' /\ UsageAfterFlat' /\ PlanOfEitherKindFound'
      BY <2>1 DEF LayoutsInv, ReadIsDecoded, WasRead, UsageAfterFlat, PlanOfEitherKindFound,
                  AnchorFetch
    <2>3. QED  BY <2>1, <2>2 DEF LayoutsInv, LayoutsTypeOK
  <1>8. QED  BY <1>2, <1>3, <1>4, <1>5, <1>6, <1>7 DEF LayoutsNext

\* In such a state what was written is what is read.
LEMMA InvariantAgreesOnLayouts == LayoutsInv => LayoutsAgree
  <1> SUFFICES ASSUME LayoutsInv  PROVE LayoutsAgree
    OBVIOUS
  <1>1. PlanOfEitherKindFound
    BY DEF LayoutsInv
  <1>2. ReadsWhereWritten
    BY EverythingWhereWritten DEF ReadsWhereWritten
  <1>3. ASSUME WasRead
        PROVE  /\ reading.wanted \in Raw /\ account.length \in Int
               /\ account.length >= MinLength[reading.wanted]
               /\ reading.wanted = "StreamMandate" => account.version \in {1, 2}
    <2>1. MinLength[reading.wanted] \in Int
      BY <1>3 DEF WasRead, MinLength, Raw
    <2>2. QED  BY <1>3, <2>1 DEF LayoutsInv, LayoutsTypeOK, ReadIsDecoded, WasRead, Decode
  <1>4. ReadsInside
    BY <1>3, EverythingInside DEF ReadsInside
  <1>5. DecodersAgree
    <2> SUFFICES ASSUME WasRead, reading.wanted = "VelaMandate", account.version >= 1,
                        account.plan # "default"
                 PROVE  FromBytes(account) = FromAnchor(account)
      BY DEF DecodersAgree
    <2>1. DOMAIN Variants["VelaMandate"] = 1..3 /\ "VelaMandate" \in DOMAIN Variants
      BY DEF Variants
    <2>2. account.status \in 0..3 /\ account.status + 1 \in 1..3
      BY <2>1 DEF LayoutsInv, ReadIsDecoded, Decode
    <2> DEFINE status == Variants["VelaMandate"][account.status + 1]
               sameStatus == CASE account.status = 0 -> "active" [] account.status = 1 -> "cancelled"
                               [] account.status = 2 -> "expired"
               indexed == account.version >= 1
    <2>3. status = sameStatus
      <3>1. Variants["VelaMandate"] = <<"active", "cancelled", "expired">>
        BY DEF Variants
      <3>2. CASE account.status = 0  BY <3>1, <3>2
      <3>3. CASE account.status = 1  BY <3>1, <3>3
      <3>4. CASE account.status = 2  BY <3>1, <3>4
      <3>5. QED  BY <2>2, <3>2, <3>3, <3>4
    <2>4. indexed = TRUE
      OBVIOUS
    <2>5. FromAnchor(account) = [plan |-> account.plan, mandateIndex |-> indexed,
                                 status |-> sameStatus]
      BY Zenon DEF FromAnchor
    <2>6. FromBytes(account) = [plan |-> IF account.plan = "default" THEN "none" ELSE account.plan,
                                mandateIndex |-> TRUE, status |-> status]
      BY Zenon DEF FromBytes
    <2>7. (IF account.plan = "default" THEN "none" ELSE account.plan) = account.plan
      OBVIOUS
    <2> HIDE DEF status, sameStatus, indexed
    <2>8. QED  BY <2>3, <2>4, <2>5, <2>6, <2>7, Zenon
  <1>6. QED  BY <1>1, <1>2, <1>4, <1>5 DEF LayoutsAgree

\* The invariant holds in every reachable state.
THEOREM LayoutsInvariance == LayoutsSpec => []LayoutsInv
  BY LayoutsInitially, LayoutsStep, PTL DEF LayoutsSpec

\* accounts/deserialize.ts and subscribable-plan.ts: an account that is taken is read
\* inside its bytes and where the program wrote it, both decoders of a mandate agree, and
\* a plan of either kind is found, whatever is at an address and however reads and the
\* creation of a plan interleave.
THEOREM WrittenIsRead == LayoutsSpec => []LayoutsAgree
  BY InvariantAgreesOnLayouts, LayoutsInvariance, PTL

-----------------------------------------------------------------------------
(* The six parts together                                                  *)

\* Every part begins in one of its initial states.
LEMMA PartsInitially ==
    Init => /\ UsageInit /\ WebhookInit /\ StreamsInit
            /\ IxInit /\ LayoutsInit /\ ChangesInit
  BY DEF Init

\* Every step is one of each part, or leaves that part alone.
LEMMA PartsStep ==
    [Next]_vars => /\ [UsageNext]_usageVars /\ [WebhookNext]_webhookVars
                   /\ [StreamsNext]_streamVars /\ [IxNext]_ixVars
                   /\ [LayoutsNext]_layoutVars /\ [ChangesNext]_changeVars
  <1> SUFFICES ASSUME [Next]_vars
               PROVE  /\ [UsageNext]_usageVars /\ [WebhookNext]_webhookVars
                      /\ [StreamsNext]_streamVars /\ [IxNext]_ixVars
                      /\ [LayoutsNext]_layoutVars /\ [ChangesNext]_changeVars
    OBVIOUS
  <1>1. CASE UsagePart         BY <1>1 DEF UsagePart
  <1>2. CASE WebhookPart       BY <1>2 DEF WebhookPart
  <1>3. CASE StreamsPart       BY <1>3 DEF StreamsPart
  <1>4. CASE InstructionsPart  BY <1>4 DEF InstructionsPart
  <1>5. CASE LayoutsPart       BY <1>5 DEF LayoutsPart
  <1>6. CASE ChangesPart       BY <1>6 DEF ChangesPart
  <1>7. CASE UNCHANGED vars    BY <1>7 DEF vars
  <1>8. QED  BY <1>1, <1>2, <1>3, <1>4, <1>5, <1>6, <1>7 DEF Next

\* The invariants of the parts.
SdkInv ==
    /\ UsageInv /\ WebhookInv /\ StreamsInv
    /\ IxInv /\ LayoutsInv /\ ChangesInv

\* They hold together in every reachable state.
THEOREM SdkInvariance == Spec => []SdkInv
  <1>1. Init => SdkInv
    BY PartsInitially, UsageInitially, WebhookInitially, StreamsInitially, IxInitially,
       LayoutsInitially, ChangesInitially DEF SdkInv
  <1>2. SdkInv /\ [Next]_vars => SdkInv'
    BY PartsStep, UsageStep, WebhookStep, StreamsStep, IxStep, LayoutsStep, ChangesStep
       DEF SdkInv
  <1>3. QED  BY <1>1, <1>2, PTL DEF Spec

\* Every variable of every part keeps its type.
THEOREM SdkTypeCorrect == Spec => []TypeOK
  <1>1. SdkInv => TypeOK
    BY DEF SdkInv, UsageInv, WebhookInv, StreamsInv, IxInv, LayoutsInv, ChangesInv, TypeOK
  <1>2. QED  BY <1>1, SdkInvariance, PTL

\* Reports, webhooks, addresses, accounts and amounts are right in every state that the
\* parts reach together.
THEOREM SdkIsSafe == Spec => [](ReportingSafe /\ WebhooksSafe /\ AddressesAgree)
  <1>1. SdkInv => ReportingSafe /\ WebhooksSafe /\ AddressesAgree
    BY InvariantReports, InvariantDelivers, InvariantAgrees DEF SdkInv
  <1>2. QED  BY <1>1, SdkInvariance, PTL

\* The decoders and the decimal strings: what the program wrote, and what the SDK showed,
\* is read back as what it was.
THEOREM SdkReadsBack == Spec => []WrittenReadsBack
  <1>1. SdkInv => WrittenReadsBack
    BY InvariantAgreesOnLayouts, InvariantReadsBack DEF SdkInv, WrittenReadsBack
  <1>2. QED  BY <1>1, SdkInvariance, PTL

\* The four parts that assume no fairness behave as they do alone, so that what holds of
\* their behaviours holds here: streams lose nothing and keep to their caps, and a change
\* of plan costs what was shown.
THEOREM SdkCharges == Spec => StreamsSafe /\ ChangesAsShown
  <1>1. Spec => StreamsSpec /\ IxSpec /\ LayoutsSpec /\ ChangesSpec
    BY PartsInitially, PartsStep, PTL
       DEF Spec, StreamsSpec, IxSpec, LayoutsSpec, ChangesSpec
  <1>2. QED  BY <1>1, StreamsAreSafe, ChangesCostWhatWasShown, PTL
=============================================================================
