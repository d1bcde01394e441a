------------------------------- MODULE MCSdk -------------------------------
(***************************************************************************)
(* Six parts of the SDK that share no state with one another, on small     *)
(* instances, in one run: a behaviour is of one part, the others rest at   *)
(* one of their initial states.                                            *)
(***************************************************************************)
EXTENDS UsageReporting, AgentWebhook, Streams, Instructions, AccountLayouts, PlanChanges

VARIABLE part

vars == <<part, usageVars, webhookVars, streamVars, ixVars, layoutVars, changeVars>>

Parts == {"usage", "webhook", "streams", "instructions", "layouts", "changes"}

-----------------------------------------------------------------------------
(* The instances                                                           *)

MCClientOf == [c \in HookCalls |-> IF c = "h3" THEN "k2" ELSE "k1"]
MCTypeOrders == {<<"TRANSFER", "UNKNOWN">>, <<"UNKNOWN", "TRANSFER">>}
MCPayloads == {<<"agent", "malformed">>, <<"other", "agent", "agent">>, <<"agent", "other">>}

\* The prices differ by 2 and 13, neither a multiple of the period.
MCPlanAmounts == [p \in {"small", "middle", "big"} |->
    CASE p = "small" -> 5 [] p = "middle" -> 7 [] p = "big" -> 20]

\* Both plans of a merchant are alike, so that a mandate can change between them.
Table(mint, kind, credential) ==
    [p \in {1, 2} |-> [mint |-> mint, kind |-> kind, credential |-> credential]]
Euro == Key("wrapped euro")
MCPlanTables ==
    {Table(ProtocolMint, "flat", "plan"), Table(ProtocolMint, "usage", "plan"),
     Table(Euro, "flat", "merchant"), Table(Euro, "usage", "plan")}
MCClusters == {[program |-> DefaultKey, cluster |-> 1], [program |-> Key("mxe"), cluster |-> 2]}

-----------------------------------------------------------------------------
(* One part at a time                                                      *)

Some(S) == CHOOSE x \in S : TRUE

Init ==
    /\ part \in Parts
    /\ UsageInit /\ (part = "usage" \/ tierCount = Some(TierCounts))
    /\ WebhookInit
    /\ \/ part = "webhook"
       \/ /\ payload = Some(Payloads)
          /\ hooks = {[id |-> 1, same |-> TRUE, types |-> Some(TypeOrders)]}
    /\ StreamsInit
    /\ IxInit
    /\ part = "instructions" \/ (plan = Some(PlanTables) /\ mxe = Some(Clusters))
    /\ LayoutsInit /\ (part = "layouts" \/ account = Absent)
    /\ ChangesInit /\ (part = "changes" \/ billed.plan = Some(DOMAIN PlanAmounts))

UsagePart ==
    /\ part = "usage" /\ UsageNext
    /\ UNCHANGED <<part, webhookVars, streamVars, ixVars, layoutVars, changeVars>>
WebhookPart ==
    /\ part = "webhook" /\ WebhookNext
    /\ UNCHANGED <<part, usageVars, streamVars, ixVars, layoutVars, changeVars>>
StreamsPart ==
    /\ part = "streams" /\ StreamsNext
    /\ UNCHANGED <<part, usageVars, webhookVars, ixVars, layoutVars, changeVars>>
InstructionsPart ==
    /\ part = "instructions" /\ IxNext
    /\ UNCHANGED <<part, usageVars, webhookVars, streamVars, layoutVars, changeVars>>
LayoutsPart ==
    /\ part = "layouts" /\ LayoutsNext
    /\ UNCHANGED <<part, usageVars, webhookVars, streamVars, ixVars, changeVars>>
ChangesPart ==
    /\ part = "changes" /\ ChangesNext
    /\ UNCHANGED <<part, usageVars, webhookVars, streamVars, ixVars, layoutVars>>

Next == \/ UsagePart \/ WebhookPart \/ StreamsPart
        \/ InstructionsPart \/ LayoutsPart \/ ChangesPart

\* UsageFairness and WebhookFairness, when it is their part that runs.
Fairness ==
    /\ \A c \in UsageCalls :
         /\ WF_usageVars(part = "usage" /\ CallStep(c))
         /\ WF_usageVars(part = "usage" /\ LandReport(c))
    /\ \A k \in HookClients : WF_webhookVars(part = "webhook" /\ Registering(k))
    /\ WF_webhookVars(part = "webhook" /\ (DeliverPayload \/ HandleEvent))

Spec == Init /\ [][Next]_vars /\ Fairness

\* The type invariant of every part.
TypeOK ==
    /\ UsageTypeOK /\ WebhookTypeOK /\ StreamsTypeOK
    /\ IxTypeOK /\ LayoutsTypeOK /\ ChangesTypeOK

\* Accounts the program wrote, and amounts the SDK showed, are read back as
\* what they were.
WrittenReadsBack == LayoutsAgree /\ ShownReadsBack

\* Every call that begins ends, and every event that is delivered is handled,
\* although requests fail and answers are lost.
PartsFinish == UsageCallsEnd /\ HookCallsEnd /\ EventsHandled
=============================================================================
