---------------------------- MODULE Instructions ----------------------------
(***************************************************************************)
(* The instruction builders (src/src/instructions/): what they read, the   *)
(* accounts they name, and what becomes of the transaction.                *)
(*                                                                         *)
(* One caller builds instructions from what the chain holds at that time   *)
(* and sends them as one transaction; before it lands others create plans, *)
(* mandates and streams of the same merchant, a keeper pulls, a plan       *)
(* change takes effect, and the administrator moves the protocol to        *)
(* another cluster.  The program accepts an instruction whose accounts are *)
(* those the interface file derives and those its state calls for.         *)
(*                                                                         *)
(* Programs at fixed addresses, sysvars, signatures and amounts are left   *)
(* out.  The mints and the hook never change (no instruction changes them).*)
(***************************************************************************)
EXTENDS Addresses, Integers

CONSTANTS
    PlanTables,     \* the merchant's plans, from which one table is chosen
    Clusters,       \* the clusters the protocol may be on: [program, cluster]
    MaxIndex,       \* how far a counter of the chain may go (a bound)
    NoPlan, NoSent  \* no mandate's plan; nothing in flight

ASSUME IxAssumption ==
    /\ MaxIndex \in Nat
    /\ \A t \in PlanTables :
         NoPlan \notin DOMAIN t /\ \A p \in DOMAIN t : t[p].kind \in {"flat", "usage"}

VARIABLES
    plan,           \* plan -> [mint, kind, credential]
    mxe,            \* ProtocolConfig.mxeProgramId and clusterOffset
    count,          \* the chain's counters: plans, mandates, streams, pulls
    mandate,        \* the subscriber's mandate: address, plan, what was minted, and
                    \* the token account last funded for it
    ixStream,       \* the subscriber's stream: address, mint, and account funded
    sent            \* the instructions in flight, and what they were built from

ixVars == <<plan, mxe, count, mandate, ixStream, sent>>

ProtocolMint == Key("wrapped usdc")
Vault == Key("wrapping vault")
HookProgram == Key("transfer hook program")
Usdc == Key("usdc")
Subscriber == Key("subscriber")
Merchant == Key("merchant")
Owner == Key("authority of the agent mandate")
Agent == Key("agent")
Payer == Key("payer")
None == Key("none")

Plans == DOMAIN plan
\* A plan's number is the count of plans when it was created.
PlanAt(p) == PlanAddress(Merchant, p)

-----------------------------------------------------------------------------
(* Groups of accounts several builders name alike                          *)

\* The accounts of both.
f ++ g == [role \in DOMAIN f \cup DOMAIN g |-> IF role \in DOMAIN f THEN f[role] ELSE g[role]]

\* What a transfer through the hook needs.
HookAccounts(mint) ==
    [wrapped_usdc_mint |-> mint, token_config |-> TokenConfigAddress(mint),
     protocol_config |-> ConfigAddress, wrapping_vault |-> Vault,
     hook_program |-> HookProgram, extra_account_meta_list |-> ExtraAccountMetas(mint, HookProgram)]

\* From the token account of a mandate to the merchant's.
BillingAccounts(at, mint) ==
    [mandate |-> at, pull_approval |-> ApprovalAddress(at),
     subscriber_wrapped_account |-> Ata(mint, at, Token2022),
     merchant_wrapped_account |-> Ata(mint, Merchant, Token2022)]

AgentAccounts ==
    LET at == AgentMandateAddress(Owner, Agent)
    IN [authority |-> Owner, agent |-> Agent, agent_mandate |-> at,
        mandate_wrapped_account |-> AgentMandateWrappedAta(at, ProtocolMint),
        wrapped_usdc_mint |-> ProtocolMint, protocol_config |-> ConfigAddress]

\* Between the protocol's mint and plain USDC.
ReserveAccounts ==
    [spl_usdc_mint |-> Usdc, wrapping_vault |-> Vault, mint_authority |-> MintAuthority]

ClusterAccounts(circuit, offset) ==
    [payer |-> Payer, config |-> ConfigAddress, mxe_account |-> MxeAccount(mxe.program),
     sign_pda_account |-> SignAddress,
     mempool_account |-> ClusterAddress("Mempool", mxe.cluster),
     executing_pool |-> ClusterAddress("Execpool", mxe.cluster),
     computation_account |-> ComputationAddress(mxe.cluster, offset),
     comp_def_account |-> ComputationDefinition(mxe.program, circuit),
     cluster_account |-> ClusterAddress("Cluster", mxe.cluster),
     pool_account |-> FeePool, clock_account |-> ArciumClock]

-----------------------------------------------------------------------------
(* The builders                                                            *)

CreatePlan(mint) ==
    [merchant |-> Merchant, merchant_state |-> MerchantStateAddress(Merchant),
     plan |-> PlanAddress(Merchant, count.plan),
     credential_mint |-> CredentialMintV1(Merchant, count.plan),
     billing_mint |-> mint, token_config |-> TokenConfigAddress(mint)]

\* merchant_state is left to Anchor, which derives it.
CreateUsagePlan(mint) ==
    [merchant |-> Merchant, usage_plan |-> UsagePlanAddress(Merchant, count.plan),
     credential_mint |-> UsageCredentialMint(Merchant, count.plan),
     billing_mint |-> mint, token_config |-> TokenConfigAddress(mint)]

InitMerchantCredential ==
    [merchant |-> Merchant, merchant_state |-> MerchantStateAddress(Merchant),
     credential_mint |-> CredentialMint(Merchant)]

\* resolvePlanContext: every plan names the mint of its credential.
CredentialOf(p) ==
    IF plan[p].credential = "merchant" THEN CredentialMint(Merchant)
    ELSE IF plan[p].kind = "usage" THEN UsageCredentialMint(Merchant, p)
    ELSE CredentialMintV1(Merchant, p)

\* A credential the caller names spares the reading of the plan; the mint of
\* a usage plan is never taken from it.
BillingMintOf(p, explicit, given) ==
    IF ~explicit /\ plan[p].kind = "flat" THEN plan[p].mint
    ELSE IF given # None THEN given
    ELSE ProtocolMint

Subscribe(p, explicit, given) ==
    LET mint == BillingMintOf(p, explicit, given)
    IN [subscriber |-> Subscriber, merchant |-> Merchant,
        merchant_state |-> MerchantStateAddress(Merchant), plan |-> PlanAt(p),
        mandate |-> MandateAddress(Subscriber, Merchant, count.mandate),
        credential_mint |-> CredentialOf(p), billing_mint |-> mint,
        token_config |-> TokenConfigAddress(mint),
        subscriber_credential_account |-> Ata(CredentialOf(p), Subscriber, Token2022)]

Wrap(owner) ==
    [subscriber |-> Subscriber, config |-> ConfigAddress,
     wrapped_usdc_mint |-> ProtocolMint, destination_authority |-> owner,
     subscriber_usdc_account |-> Ata(Usdc, Subscriber, Token),
     destination_wrapped_account |-> Ata(ProtocolMint, owner, Token2022)] ++ ReserveAccounts

Unwrap ==
    [user |-> Subscriber, config |-> ConfigAddress, wrapped_usdc_mint |-> ProtocolMint,
     user_wrapped_account |-> Ata(ProtocolMint, Subscriber, Token2022),
     user_usdc_account |-> Ata(Usdc, Subscriber, Token)] ++ ReserveAccounts

\* createAssociatedTokenAccountIdempotent, and the transfer into it.
CreateAta(owner, mint) == [owner |-> owner, mint |-> mint, ata |-> Ata(mint, owner, Token2022)]
FundTransfer(owner, mint) ==
    [source |-> Ata(mint, Subscriber, Token2022), mint |-> mint, funds |-> owner,
     destination |-> Ata(mint, owner, Token2022)]

CancelAccounts(p) ==
    [merchant |-> Merchant, merchant_state |-> MerchantStateAddress(Merchant),
     subscriber |-> Subscriber, plan |-> PlanAt(p), mandate |-> mandate.at,
     credential_mint |-> CredentialOf(p),
     subscriber_credential_account |-> Ata(CredentialOf(p), Subscriber, Token2022)]
Cancel(p) ==
    CancelAccounts(p) ++ [authority |-> Subscriber,
                          subscriber_token_account |-> Ata(Usdc, Subscriber, Token)]
AdminCancel(p) == CancelAccounts(p) ++ [admin |-> Payer, protocol_config |-> ConfigAddress]

ExecutePull(p) ==
    [payer |-> Payer, subscriber |-> Subscriber, merchant |-> Merchant,
     keeper_config |-> KeeperConfigAddress, plan |-> PlanAt(p)]
        ++ BillingAccounts(mandate.at, plan[p].mint) ++ HookAccounts(plan[p].mint)

UpdateMandatePlan(p) ==
    [authority |-> Subscriber, new_plan |-> PlanAt(p)]
        ++ BillingAccounts(mandate.at, ProtocolMint) ++ HookAccounts(ProtocolMint)
SchedulePlanChange(p) ==
    [authority |-> Subscriber, new_plan |-> PlanAt(p), mandate |-> mandate.at,
     protocol_config |-> ConfigAddress]
CancelPlanChange ==
    [authority |-> Subscriber, mandate |-> mandate.at, protocol_config |-> ConfigAddress]

\* Mutant: the counter of the subscriptions is read.
CreateStreamMandate_MandateCounter(mint) ==
    [subscriber |-> Subscriber, merchant_state |-> MerchantStateAddress(Merchant),
     mandate |-> StreamAddress(Subscriber, Merchant, count.mandate),
     mint |-> mint, token_config |-> TokenConfigAddress(mint)]

CreateStreamMandate(mint) ==
    [subscriber |-> Subscriber, merchant_state |-> MerchantStateAddress(Merchant),
     mandate |-> StreamAddress(Subscriber, Merchant, count.stream),
     mint |-> mint, token_config |-> TokenConfigAddress(mint)]
\* pause, cancel and the change of the rate settle first: the same accounts.
SettleStream ==
    [authority |-> Subscriber]
        ++ BillingAccounts(ixStream.at, ixStream.mint) ++ HookAccounts(ixStream.mint)
ExecuteStreamAccounts ==
    [payer |-> Payer, subscriber |-> Subscriber, merchant |-> Merchant,
     keeper_config |-> KeeperConfigAddress]
        ++ BillingAccounts(ixStream.at, ixStream.mint) ++ HookAccounts(ixStream.mint)
ResumeStreamAccounts == [authority |-> Subscriber, mandate |-> ixStream.at]

CreateAgentMandate ==
    [authority_usdc_account |-> Ata(Usdc, Owner, Token)] ++ AgentAccounts ++ ReserveAccounts
AdjustAgentMandate == AgentAccounts
\* drain and revoke: what is left goes back to the authority.
DrainAgentMandate == CreateAgentMandate
RevokeAgentMandate == CreateAgentMandate
PauseAgentMandate ==
    [authority |-> Owner, agent |-> Agent, agent_mandate |-> AgentMandateAddress(Owner, Agent)]
ResumeAgentMandate == PauseAgentMandate
AgentPull ==
    [payer |-> Payer, service_wrapped_account |-> Key("service"),
     pull_approval |-> ApprovalAddress(AgentMandateAddress(Owner, Agent))]
        ++ AgentAccounts ++ HookAccounts(ProtocolMint)

\* The period and the offset are the caller's; the flow and the circuit differ.
RequestValidation(p, due) ==
    [plan |-> PlanAt(p), mandate |-> mandate.at, pull_approval |-> ApprovalAddress(mandate.at),
     request_state |-> RequestAddress("validation", mandate.at, due)]
        ++ ClusterAccounts("validate_mandate_v2", due)
RequestBillingRecord(p) ==
    [plan |-> PlanAt(p), mandate |-> mandate.at,
     billing_event |-> BillingAddress(mandate.at, count.pulls),
     request_state |-> RequestAddress("billing", mandate.at, count.pulls)]
        ++ ClusterAccounts("record_billing_event_v2", count.pulls)
RequestUsageComputation(p, tiers, start) ==
    [usage_plan |-> UsagePlanAddress(Merchant, p), mandate |-> mandate.at,
     usage_report |-> UsageReportAddress(mandate.at, start),
     pull_approval |-> ApprovalAddress(mandate.at),
     request_state |-> RequestAddress("usage", mandate.at, start)]
        ++ ClusterAccounts(IF tiers = 1 THEN "usage_charge_v2" ELSE "tiered_pricing_v2", start)
SubmitUsageReport(p, start) ==
    [merchant |-> Merchant, mandate |-> mandate.at,
     usage_plan |-> UsagePlanAddress(Merchant, p),
     usage_report |-> UsageReportAddress(mandate.at, start)]

\* The administrator's: the singletons, and a mint's configuration.
AdminAccounts(role) == [r \in {role} |-> ConfigAddress] ++ [admin |-> Payer]
InitKeeperConfig == [keeper_config |-> KeeperConfigAddress] ++ AdminAccounts("protocol_config")
UpdateKeeperConfig == InitKeeperConfig
InitTokenConfig(mint) ==
    [mint |-> mint, token_config |-> TokenConfigAddress(mint)] ++ AdminAccounts("protocol_config")
UpdateTokenConfig(mint) ==
    [token_config |-> TokenConfigAddress(mint)] ++ AdminAccounts("protocol_config")
PauseProtocol == AdminAccounts("config")
UnpauseProtocol == PauseProtocol

-----------------------------------------------------------------------------
(* The interface file (src/idl/vela_protocol.json)                         *)

Ix(op, acc, arg) == [op |-> op, acc |-> acc, arg |-> arg]

\* The address it derives for a role from the other accounts and the arguments;
\* a role it does not derive is what was given.
IdlAddress(i, role) ==
    LET a == i.acc
    IN CASE role \in {"config", "protocol_config"} -> ConfigAddress
         [] role = "keeper_config" -> KeeperConfigAddress
         [] role = "mint_authority" -> MintAuthority
         [] role = "sign_pda_account" -> SignAddress
         [] role = "agent_mandate" -> AgentMandateAddress(a.authority, a.agent)
         [] role = "extra_account_meta_list" ->
                ExtraAccountMetas(a.wrapped_usdc_mint, a.hook_program)
         [] role = "merchant_state" /\ i.op # "create_stream_mandate" ->
                MerchantStateAddress(a.merchant)
         [] role = "token_config" /\ "billing_mint" \in DOMAIN a ->
                TokenConfigAddress(a.billing_mint)
         [] role = "token_config" /\ i.op \in {"create_stream_mandate", "init_token_config"} ->
                TokenConfigAddress(a.mint)
         [] role = "token_config" /\ i.op \in {"execute_pull", "update_mandate_plan"} ->
                TokenConfigAddress(a.wrapped_usdc_mint)
         [] role = "pull_approval" /\ i.op = "agent_pull" -> ApprovalAddress(a.agent_mandate)
         [] role = "pull_approval"
            /\ i.op \in {"request_validation", "request_usage_computation"} ->
                ApprovalAddress(a.mandate)
         [] role = "mandate_wrapped_account" /\ i.op = "create_agent_mandate" ->
                Ata(a.wrapped_usdc_mint, a.agent_mandate, Token2022)
         [] role = "usage_plan" /\ i.op = "create_usage_plan" ->
                UsagePlanAddress(a.merchant, i.arg)
         [] role = "credential_mint" /\ i.op = "create_usage_plan" ->
                UsageCredentialMint(a.merchant, i.arg)
         [] role = "usage_report" -> UsageReportAddress(a.mandate, i.arg)
         [] role = "billing_event" -> BillingAddress(a.mandate, i.arg)
         [] role = "request_state" /\ i.op = "request_validation" ->
                RequestAddress("validation", a.mandate, i.arg)
         [] role = "request_state" /\ i.op = "request_billing_record" ->
                RequestAddress("billing", a.mandate, i.arg)
         [] role = "request_state" /\ i.op = "request_usage_computation" ->
                RequestAddress("usage", a.mandate, i.arg)
         [] OTHER -> a[role]

SeedsHold(i) == \A role \in DOMAIN i.acc : i.acc[role] = IdlAddress(i, role)

-----------------------------------------------------------------------------
(* The program: what it asks of the accounts when the transaction lands    *)

\* The account an operation creates is the one the counter points to.
CreatesNext(i) ==
    /\ i.op = "create_plan" => i.acc.plan = PlanAddress(Merchant, count.plan)
    /\ i.op = "create_usage_plan" => i.arg = count.plan
    /\ i.op = "subscribe" => i.acc.mandate = MandateAddress(Subscriber, Merchant, count.mandate)
    /\ i.op = "create_stream_mandate" =>
           i.acc.mandate = StreamAddress(Subscriber, Merchant, count.stream)
    /\ i.op = "request_billing_record" => i.arg = count.pulls

\* The accounts of the cluster are those of the configuration.
NamesCluster(i) ==
    "mxe_account" \in DOMAIN i.acc =>
        /\ i.acc.mxe_account = MxeAccount(mxe.program)
        /\ i.acc.cluster_account = ClusterAddress("Cluster", mxe.cluster)

\* The plan is the mandate's, its mint the one billed in, and the credential
\* the one the subscriber was given.
NamesPlan(i) ==
    /\ i.op = "subscribe" => \E p \in Plans :
           /\ i.acc.plan = PlanAt(p)
           /\ i.acc.billing_mint = plan[p].mint
           /\ i.acc.credential_mint = CredentialOf(p)
    /\ i.op \in {"cancel", "admin_cancel"} =>
           /\ i.acc.plan = PlanAt(mandate.plan)
           /\ i.acc.credential_mint = mandate.minted
    /\ i.op \in {"execute_pull", "request_validation", "request_billing_record"} =>
           i.acc.plan = PlanAt(mandate.plan)
    /\ i.op \in {"execute_pull", "update_mandate_plan"} =>
           i.acc.wrapped_usdc_mint = plan[mandate.plan].mint

Accepts(i) == SeedsHold(i) /\ CreatesNext(i) /\ NamesCluster(i) /\ NamesPlan(i)

-----------------------------------------------------------------------------
(* Building, landing, and what happens in between                          *)

NoMandate == [at |-> None, plan |-> NoPlan, minted |-> None, funded |-> None]
NoStream == [at |-> None, mint |-> None, funded |-> None]
HasMandate == mandate.plan # NoPlan
HasStream == ixStream.mint # None

\* What a builder may have read of the chain.
Read == [count |-> count, mxe |-> mxe, plan |-> mandate.plan]

Prepare(ixs) ==
    /\ sent = NoSent
    /\ sent' = [ixs |-> ixs, read |-> Read]
    /\ UNCHANGED <<plan, mxe, count, mandate, ixStream>>

One(op, acc) == Prepare(<<Ix(op, acc, 0)>>)

MerchantBuilds ==
    \/ \E t \in Plans : One("create_plan", CreatePlan(plan[t].mint))
    \/ \E t \in Plans :
          Prepare(<<Ix("create_usage_plan", CreateUsagePlan(plan[t].mint), count.plan)>>)
    \/ One("init_merchant_credential", InitMerchantCredential)
    \/ \E p \in Plans :
          HasMandate /\ Prepare(<<Ix("submit_usage_report", SubmitUsageReport(p, 1), 1)>>)

\* The caller of wrapAndSubscribe wraps into the protocol's mint.
WrapAndSubscribe(p, explicit) ==
    LET subscribe == Subscribe(p, explicit, ProtocolMint)
    IN <<Ix("subscribe", subscribe, explicit),
         Ix("create_ata", CreateAta(subscribe.mandate, ProtocolMint), 0),
         Ix("wrap", Wrap(subscribe.mandate), 0)>>

FundAuthority(owner, mint) ==
    <<Ix("create_ata", CreateAta(owner, mint), 0), Ix("transfer", FundTransfer(owner, mint), 0)>>

SubscriberBuilds ==
    \/ \E p \in Plans, explicit \in BOOLEAN :
          \E given \in {None, plan[p].mint} :
             ~HasMandate /\ Prepare(<<Ix("subscribe", Subscribe(p, explicit, given), explicit)>>)
    \/ \E p \in Plans, explicit \in BOOLEAN :
          ~HasMandate /\ Prepare(WrapAndSubscribe(p, explicit))
    \/ HasMandate /\ Prepare(FundAuthority(mandate.at, plan[mandate.plan].mint))
    \/ HasMandate /\ One("cancel", Cancel(mandate.plan))
    \/ HasMandate /\ \E p \in Plans : One("update_mandate_plan", UpdateMandatePlan(p))
    \/ HasMandate /\ \E p \in Plans : One("schedule_plan_change", SchedulePlanChange(p))
    \/ HasMandate /\ One("cancel_plan_change", CancelPlanChange)
    \/ One("wrap", Wrap(Subscriber))
    \/ One("unwrap_tokens", Unwrap)

StreamBuilds ==
    \/ \E p \in Plans :
          ~HasStream /\ One("create_stream_mandate", CreateStreamMandate(plan[p].mint))
    \/ HasStream /\ Prepare(FundAuthority(ixStream.at, ixStream.mint))
    \/ HasStream /\ One("execute_stream", ExecuteStreamAccounts)
    \/ HasStream /\ \E op \in {"pause_stream", "cancel_stream", "update_stream_rate"} :
          One(op, SettleStream)
    \/ HasStream /\ One("resume_stream", ResumeStreamAccounts)

OwnerBuilds ==
    \/ One("create_agent_mandate", CreateAgentMandate)
    \/ One("adjust_agent_mandate", AdjustAgentMandate)
    \/ One("drain_agent_mandate", DrainAgentMandate)
    \/ One("revoke_agent_mandate", RevokeAgentMandate)
    \/ One("pause_agent_mandate", PauseAgentMandate)
    \/ One("resume_agent_mandate", ResumeAgentMandate)
    \/ One("agent_pull", AgentPull)

KeeperBuilds ==
    /\ HasMandate
    /\ \/ One("execute_pull", ExecutePull(mandate.plan))
       \/ Prepare(<<Ix("request_validation", RequestValidation(mandate.plan, 1), 1)>>)
       \/ Prepare(<<Ix("request_billing_record", RequestBillingRecord(mandate.plan), count.pulls)>>)
       \/ \E tiers \in {1, 2} :
             Prepare(<<Ix("request_usage_computation",
                          RequestUsageComputation(mandate.plan, tiers, 1), 1)>>)

AdminBuilds ==
    \/ HasMandate /\ One("admin_cancel", AdminCancel(mandate.plan))
    \/ One("init_keeper_config", InitKeeperConfig)
    \/ One("update_keeper_config", UpdateKeeperConfig)
    \/ \E p \in Plans : One("init_token_config", InitTokenConfig(plan[p].mint))
    \/ \E p \in Plans : One("update_token_config", UpdateTokenConfig(plan[p].mint))
    \/ One("pause_protocol", PauseProtocol)
    \/ One("unpause_protocol", UnpauseProtocol)

First == sent.ixs[1]
Ops == {sent.ixs[k].op : k \in DOMAIN sent.ixs}
Accepted == \A k \in DOMAIN sent.ixs : Accepts(sent.ixs[k])
PlanNamed(at) == CHOOSE p \in Plans : PlanAt(p) = at

\* The counters an operation moves.
Moves(c) ==
    \/ c = "plan" /\ First.op \in {"create_plan", "create_usage_plan"}
    \/ c = "mandate" /\ First.op = "subscribe"
    \/ c = "stream" /\ First.op = "create_stream_mandate"
    \/ c = "pulls" /\ First.op = "execute_pull"

\* Where the last instruction put the money.
Credits ==
    LET last == sent.ixs[Len(sent.ixs)]
    IN CASE last.op = "wrap" -> last.acc.destination_wrapped_account
         [] last.op = "transfer" -> last.acc.destination
         [] OTHER -> None

MandateAfter ==
    CASE First.op = "subscribe" ->
            [at |-> First.acc.mandate, minted |-> First.acc.credential_mint,
             plan |-> PlanNamed(First.acc.plan), funded |-> Credits]
      [] First.op = "update_mandate_plan" ->
            [mandate EXCEPT !.plan = PlanNamed(First.acc.new_plan)]
      [] First.op \in {"cancel", "admin_cancel"} -> NoMandate
      [] First.op = "create_ata" /\ First.acc.owner = mandate.at ->
            [mandate EXCEPT !.funded = Credits]
      [] OTHER -> mandate

StreamAfter ==
    CASE First.op = "create_stream_mandate" ->
            [at |-> First.acc.mandate, mint |-> First.acc.mint, funded |-> None]
      [] First.op = "cancel_stream" -> NoStream
      [] First.op = "create_ata" /\ First.acc.owner = ixStream.at ->
            [ixStream EXCEPT !.funded = Credits]
      [] OTHER -> ixStream

\* All the instructions take effect or none does.
Land ==
    /\ sent # NoSent /\ Accepted
    /\ \A c \in DOMAIN count : Moves(c) => count[c] < MaxIndex
    /\ count' = [c \in DOMAIN count |-> IF Moves(c) THEN count[c] + 1 ELSE count[c]]
    /\ mandate' = MandateAfter
    /\ ixStream' = StreamAfter
    /\ sent' = NoSent
    /\ UNCHANGED <<plan, mxe>>

Refuse ==
    /\ sent # NoSent /\ ~Accepted
    /\ sent' = NoSent
    /\ UNCHANGED <<plan, mxe, count, mandate, ixStream>>

\* One step of another while the transaction is under way (a bound).
Undisturbed == sent # NoSent /\ sent.read = Read

OthersCreate ==
    /\ Undisturbed
    /\ \E c \in DOMAIN count : count[c] < MaxIndex /\ count' = [count EXCEPT ![c] = @ + 1]
    /\ UNCHANGED <<plan, mxe, mandate, ixStream, sent>>

UpdateConfig ==
    /\ Undisturbed
    /\ mxe' \in Clusters \ {mxe}
    /\ UNCHANGED <<plan, count, mandate, ixStream, sent>>

\* A change takes effect: to a plan of the same mint.
PlanMoves ==
    /\ Undisturbed /\ HasMandate
    /\ \E p \in Plans \ {mandate.plan} :
          plan[p].mint = plan[mandate.plan].mint /\ mandate' = [mandate EXCEPT !.plan = p]
    /\ UNCHANGED <<plan, mxe, count, ixStream, sent>>

IxInit ==
    /\ plan \in PlanTables
    /\ mxe \in Clusters
    /\ count = [plan |-> 0, mandate |-> 0, stream |-> 0, pulls |-> 0]
    /\ mandate = NoMandate
    /\ ixStream = NoStream
    /\ sent = NoSent

IxNext ==
    \/ MerchantBuilds \/ SubscriberBuilds \/ StreamBuilds
    \/ OwnerBuilds \/ KeeperBuilds \/ AdminBuilds
    \/ Land \/ Refuse
    \/ OthersCreate \/ UpdateConfig \/ PlanMoves

IxSpec == IxInit /\ [][IxNext]_ixVars

-----------------------------------------------------------------------------
(* Properties                                                              *)

IxTypeOK ==
    /\ plan \in PlanTables /\ mxe \in Clusters
    /\ DOMAIN count = {"plan", "mandate", "stream", "pulls"}
    /\ \A c \in DOMAIN count : count[c] \in 0..MaxIndex
    /\ mandate.plan \in Plans \cup {NoPlan}

\* Every address a builder names is the one the interface file derives from
\* the other accounts and the arguments of the same instruction: no builder
\* disagrees with the program on a seed, and none takes a seed from elsewhere.
SeedsMatchIdl ==
    sent # NoSent => \A k \in DOMAIN sent.ixs : SeedsHold(sent.ixs[k])

\* What a builder read is no longer so: the index it takes, the cluster it
\* names or the plan of the mandate.
Stale ==
    \/ \E c \in DOMAIN count : Moves(c) /\ count[c] # sent.read.count[c]
    \/ "request_billing_record" \in Ops /\ count.pulls # sent.read.count.pulls
    \/ "mxe_account" \in DOMAIN First.acc /\ mxe # sent.read.mxe
    \/ /\ First.op \in {"cancel", "admin_cancel", "execute_pull", "request_validation",
                       "request_billing_record"}
       /\ mandate.plan # sent.read.plan

\* The code takes the protocol's mint where the plan bills in another: a usage
\* plan or a plan it did not fetch, and every immediate change of plan.
AssumesMint ==
    /\ \E p \in Plans : plan[p].mint # ProtocolMint
    /\ \/ /\ First.op = "subscribe"
          /\ First.arg \/ plan[PlanNamed(First.acc.plan)].kind = "usage"
       \/ First.op = "update_mandate_plan"

\* The code takes the credential of the mandate's present plan, which is not
\* the one its subscriber was given if plans have credentials of their own.
AssumesCredential ==
    /\ First.op \in {"cancel", "admin_cancel"}
    /\ \E p \in Plans : plan[p].credential # "merchant"

\* No transaction is refused for an account it names unless what its builder
\* read has changed since, or it is one of the two cases above.
RefusalExplained ==
    sent # NoSent /\ ~Accepted => Stale \/ AssumesMint \/ AssumesCredential

\* The account a pull, a settlement or a change of plan debits is the one that
\* wrapAndSubscribe or fundAuthority credited for that mandate or stream
\* (wrapAndSubscribe funds an account of the protocol's mint, whatever the
\* plan's).
FundedIsPulled ==
    sent # NoSent /\ Accepted /\ "subscriber_wrapped_account" \in DOMAIN First.acc =>
        LET source == First.acc.subscriber_wrapped_account
        IN /\ First.acc.mandate = ixStream.at => ixStream.funded \in {None, source}
           /\ First.acc.mandate = mandate.at /\ plan[mandate.plan].mint = ProtocolMint =>
                  mandate.funded \in {None, source}

\* Together: builders and program agree on the addresses of every account.
AddressesAgree == SeedsMatchIdl /\ RefusalExplained /\ FundedIsPulled
=============================================================================
