---------------------------- MODULE AgentWebhook ----------------------------
(***************************************************************************)
(* The webhook for the events of agent mandates: how clients register it   *)
(* at Helius (ensureAgentWebhookRegistered of src/src/client.ts and        *)
(* ensureAgentWebhook of src/src/helius/webhooks.ts), and how a payload is *)
(* parsed and handled when it is delivered (parseAgentWebhookPayload and   *)
(* handleAgentWebhookPayload).                                             *)
(*                                                                         *)
(* Registration lists the webhooks and creates one when none fits, in two  *)
(* requests; calls of one client share it, clients do not.  Delivery is    *)
(* repeated until the application's handler has taken every event.         *)
(***************************************************************************)
EXTENDS Naturals, Sequences, FiniteSets

CONSTANTS
    HookClients,
    HookCalls,      \* bound: createAgentMandate calls, each made once
    ClientOf,       \* ClientOf[c]: the client of call c
    TypeOrders,     \* the configured transaction types, in every order
    MaxHooks,       \* bound: webhooks at Helius
    MaxHookFaults,  \* bound: failed requests and failed handlers
    Payloads,       \* the payloads that may be delivered
    NoHook          \* no value

ASSUME WebhookAssumption ==
    /\ ClientOf \in [HookCalls -> HookClients]
    /\ MaxHooks \in Nat \ {0} /\ MaxHookFaults \in Nat
    /\ \A p \in Payloads : p \in Seq({"agent", "other", "malformed"})
    /\ NoHook \notin Nat

VARIABLES
    hooks,        \* the webhooks at Helius
    webhookId,    \* webhookId[k]: agentWebhookId of client k, or NoHook
    registration, \* registration[k]: where ensureAgentWebhook of client k is,
                  \*   and the webhooks it saw
    hookCall,     \* hookCall[c]: where call c is
    overlapped,   \* history: a client created what another one had created
                  \*   since it had listed
    lostCreates,  \* history: webhooks that were created, the answer being lost
    payload,      \* the payload that is delivered
    next,         \* the next event to handle, 0 between two deliveries
    handled,      \* handled[i]: how often event i of the payload was handled
    hookFaults

registryVars == <<hooks, webhookId, registration, hookCall, overlapped, lostCreates>>
deliveryVars == <<payload, next, handled>>
webhookVars == <<registryVars, deliveryVars, hookFaults>>

\* same: URL, program, webhook type and authorization header are those of the
\* configuration; types: the transaction types, as Helius lists them.
Hook == [id : 1..MaxHooks, same : BOOLEAN, types : TypeOrders \cup {<<"Any">>}]

WebhookTypeOK ==
    /\ hooks \subseteq Hook
    /\ webhookId \in [HookClients -> 1..MaxHooks \cup {NoHook}]
    /\ registration \in [HookClients -> [at : {"none", "listing", "creating"},
                                         saw : SUBSET (1..MaxHooks)]]
    /\ hookCall \in [HookCalls -> {"idle", "waiting", "resolved"}]
    /\ overlapped \in BOOLEAN
    /\ lostCreates \in 0..MaxHooks
    /\ payload \in Payloads
    /\ next \in 0..(Len(payload) + 1)
    /\ handled \in [1..Len(payload) -> 0..(MaxHookFaults + 1)]
    /\ hookFaults \in 0..MaxHookFaults

NotRegistering == [at |-> "none", saw |-> {}]

WebhookInit ==
    /\ \E types \in TypeOrders \cup {<<"Any">>}, same \in BOOLEAN :
         hooks = {[id |-> 1, same |-> same, types |-> types]}
    /\ webhookId = [k \in HookClients |-> NoHook]
    /\ registration = [k \in HookClients |-> NotRegistering]
    /\ hookCall = [c \in HookCalls |-> "idle"]
    /\ overlapped = FALSE
    /\ lostCreates = 0
    /\ payload \in Payloads
    /\ next = 0
    /\ handled = [i \in 1..Len(payload) |-> 0]
    /\ hookFaults = 0

-----------------------------------------------------------------------------
(* Registration                                                            *)

\* Mutant: the lists are compared as they come.
SameTypes_Unsorted(left, right) == left = right

Times(type, list) == Cardinality({i \in DOMAIN list : list[i] = type})

\* sameWebhookTypes of two lists that normalizeWebhookTypes sorted.
SameTypes(left, right) ==
    /\ Len(left) = Len(right)
    /\ \A i \in DOMAIN left : Times(left[i], left) = Times(left[i], right)

\* TypeOrders is one list in orders it can be in, and <<"Any">> is another list.
ASSUME TypeOrdersAssumption ==
    /\ TypeOrders # {}
    /\ \A left \in TypeOrders \cup {<<"Any">>}, right \in TypeOrders :
         left \in TypeOrders <=>
            /\ Len(left) = Len(right)
            /\ \A i \in DOMAIN left : Times(left[i], left) = Times(left[i], right)

\* The configuration is the same for all clients; its types are in some order.
Fitting ==
    {h \in hooks : h.same /\ SameTypes(h.types, CHOOSE t \in TypeOrders : TRUE)}

Fault == hookFaults < MaxHookFaults /\ hookFaults' = hookFaults + 1

\* A registration under way is joined.
Begin(k) ==
    registration' = [registration EXCEPT ![k].at = IF @ = "none" THEN "listing" ELSE @]

\* A mandate was created; the call makes sure of the webhook.  With an id kept
\* there is nothing to do.
EnsureAgentWebhookRegistered(c) ==
    LET k == ClientOf[c] IN
    /\ hookCall[c] = "idle"
    /\ IF webhookId[k] # NoHook
       THEN /\ hookCall' = [hookCall EXCEPT ![c] = "resolved"]
            /\ UNCHANGED registration
       ELSE /\ hookCall' = [hookCall EXCEPT ![c] = "waiting"]
            /\ Begin(k)
    /\ UNCHANGED <<hooks, webhookId, overlapped, lostCreates, deliveryVars, hookFaults>>

\* The calls that await the registration of client k go on; they resolve even if
\* it failed.
Wake(k) ==
    hookCall' = [c \in HookCalls |->
                   IF ClientOf[c] = k /\ hookCall[c] = "waiting"
                   THEN "resolved" ELSE hookCall[c]]

\* The client keeps the id; its promise stays, and is never used again.
Registered(k, id) ==
    /\ webhookId' = [webhookId EXCEPT ![k] = id]
    /\ registration' = [registration EXCEPT ![k] = NotRegistering]
    /\ Wake(k)

\* webhooks.getAll answers: one that fits is reused.
ListWebhooks(k) ==
    /\ registration[k].at = "listing"
    /\ IF Fitting # {}
       THEN \E h \in Fitting : Registered(k, h.id)
       ELSE /\ registration' = [registration EXCEPT ![k] =
                                  [at |-> "creating", saw |-> {h.id : h \in hooks}]]
            /\ UNCHANGED <<webhookId, hookCall>>
    /\ UNCHANGED <<hooks, overlapped, lostCreates, deliveryVars, hookFaults>>

Creating(k) == registration[k].at = "creating"

\* webhooks.create takes effect: Helius keeps the types in an order of its own.
AddHook(k) ==
    /\ Cardinality(hooks) < MaxHooks
    /\ \E types \in TypeOrders :
         hooks' = hooks \cup {[id |-> Cardinality(hooks) + 1, same |-> TRUE,
                               types |-> types]}
    /\ overlapped' = (overlapped \/ \E h \in Fitting : h.id \notin registration[k].saw)

CreateWebhook(k) ==
    /\ Creating(k)
    /\ AddHook(k)
    /\ Registered(k, Cardinality(hooks) + 1)
    /\ UNCHANGED <<lostCreates, deliveryVars, hookFaults>>

\* Mutant: the failure is not caught, the calls do not resolve.
CatchFailure_Not(k) == UNCHANGED hookCall

\* The calls that await the registration warn, and resolve.
CatchFailure(k) == Wake(k)

\* A request fails, or the answer to create is lost after it took effect.  The
\* promise is dropped, so that a later call tries again.
RegistrationFails(k, created) ==
    /\ registration[k].at # "none"
    /\ created => Creating(k)
    /\ Fault
    /\ IF created THEN AddHook(k) /\ lostCreates' = lostCreates + 1
       ELSE UNCHANGED <<hooks, overlapped, lostCreates>>
    /\ registration' = [registration EXCEPT ![k] = NotRegistering]
    /\ CatchFailure(k)
    /\ UNCHANGED <<webhookId, deliveryVars>>

-----------------------------------------------------------------------------
(* Delivery                                                                *)

\* parseAgentWebhookPayload decodes every transaction before any event is
\* handled; an agent event without one of its fields throws.  The payloads are
\* abstract: which of them parse depends on how the decoder names the fields
\* (webhooks.ts:260), and what is said of handling is said of those that do.
Parses == \A i \in DOMAIN payload : payload[i] # "malformed"

\* The events of the payload that are agent events, by their places.
AgentEvents == {i \in DOMAIN payload : payload[i] = "agent"}

\* Helius delivers the payload, until handleAgentWebhookPayload takes it all.
DeliverPayload ==
    /\ next = 0
    /\ Parses
    /\ next' = 1
    /\ UNCHANGED <<payload, handled, registryVars, hookFaults>>

\* onAgentEvent is awaited; other events are skipped.
HandleEvent ==
    /\ next \in DOMAIN payload
    /\ handled' = [handled EXCEPT ![next] = IF next \in AgentEvents THEN @ + 1 ELSE @]
    /\ next' = next + 1
    /\ UNCHANGED <<payload, registryVars, hookFaults>>

AfterFailure == next' = 0

\* The application's handler throws: so does handleAgentWebhookPayload, and
\* Helius delivers the payload again.
HandlerThrows ==
    /\ next \in AgentEvents
    /\ Fault
    /\ AfterFailure
    /\ UNCHANGED <<payload, handled, registryVars>>

Registering(k) == ListWebhooks(k) \/ CreateWebhook(k)

WebhookNext ==
    \/ \E c \in HookCalls : EnsureAgentWebhookRegistered(c)
    \/ \E k \in HookClients :
         \/ Registering(k)
         \/ \E created \in BOOLEAN : RegistrationFails(k, created)
    \/ DeliverPayload \/ HandleEvent \/ HandlerThrows

\* Helius answers, and delivers again until the payload is taken.
WebhookFairness ==
    /\ \A k \in HookClients : WF_webhookVars(Registering(k))
    /\ WF_webhookVars(DeliverPayload \/ HandleEvent)

WebhookSpec == WebhookInit /\ [][WebhookNext]_webhookVars /\ WebhookFairness

-----------------------------------------------------------------------------
(* Properties                                                              *)

\* The webhooks that deliver what is configured.
Delivering == {h \in hooks : h.same /\ h.types \in TypeOrders}

\* A second webhook for the same events exists only because two clients created
\* one at the same time, or the answer to a create was lost: one client, however
\* many calls it makes, and clients one after the other never do it.
DuplicateHasCause ==
    Cardinality(Delivering) > 1 => overlapped \/ lostCreates > 0

\* The id a client keeps is of a webhook that delivers what it configured.
KeptIdFits ==
    \A k \in HookClients : webhookId[k] # NoHook => \E h \in Delivering : h.id = webhookId[k]

\* An event is never handled more often than one before it: handlers run in the
\* order of the payload, and a failure stops the later ones.
HandledInOrder == \A i, j \in AgentEvents : i < j => handled[i] >= handled[j]

\* A payload with an event that cannot be decoded is refused as a whole.
RefusedAsAWhole ==
    (\E i \in DOMAIN payload : payload[i] = "malformed") =>
      \A i \in AgentEvents : handled[i] = 0

\* Together: webhooks are not duplicated without a cause, the one that is kept
\* delivers, and what it delivers is handled in order or not at all.
WebhooksSafe == DuplicateHasCause /\ KeptIdFits /\ HandledInOrder /\ RefusedAsAWhole

\* createAgentMandate ends although registering the webhook may fail.
HookCallsEnd == \A c \in HookCalls : hookCall[c] = "waiting" ~> hookCall[c] = "resolved"

\* Every event of a payload that parses is handled in the end.
EventsHandled == (next = 1) ~> (\A i \in AgentEvents : handled[i] > 0)
=============================================================================
