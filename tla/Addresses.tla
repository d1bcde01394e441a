----------------------------- MODULE Addresses -----------------------------
(***************************************************************************)
(* The addresses the SDK derives: PDAFactory (src/src/accounts/pda.ts) and *)
(* the addresses of the computation cluster                                *)
(* (src/src/instructions/request-validation.ts).                           *)
(*                                                                         *)
(* A derived address is the program and the seeds it is derived from:      *)
(* findProgramAddress is taken to be injective.  All else is a key.        *)
(***************************************************************************)
EXTENDS Sequences

Key(name) == <<"key", name>>
Pda(program, seeds) == <<"pda", program>> \o seeds

Vela == Key("vela protocol")
Arcium == Key("arcium")
AtaProgram == Key("associated token program")
Token2022 == Key("token-2022 program")
Token == Key("token program")

\* getAssociatedTokenAddress.
Ata(mint, owner, tokenProgram) == Pda(AtaProgram, <<owner, tokenProgram, mint>>)

-----------------------------------------------------------------------------
(* PDAFactory                                                              *)

ConfigAddress == Pda(Vela, <<"config">>)
KeeperConfigAddress == Pda(Vela, <<"keeper-config">>)
MintAuthority == Pda(Vela, <<"mint-authority">>)
TokenConfigAddress(mint) == Pda(Vela, <<"token_config", mint>>)

MerchantStateAddress(merchant) == Pda(Vela, <<"merchant", merchant>>)
CredentialMint(merchant) == Pda(Vela, <<"merchant-credential", merchant>>)
CredentialMintV1(merchant, id) == Pda(Vela, <<"credential", merchant, id>>)
PlanAddress(merchant, id) == Pda(Vela, <<"plan", merchant, id>>)
UsagePlanAddress(merchant, id) == Pda(Vela, <<"usage_plan", merchant, id>>)
UsageCredentialMint(merchant, id) == Pda(Vela, <<"usage_credential", merchant, id>>)

MandateAddress(subscriber, merchant, index) ==
    Pda(Vela, <<"mandate", subscriber, merchant, index>>)

\* The address of an earlier version: one mandate per subscriber and plan.
MandateAddressV1(subscriber, plan) == Pda(Vela, <<"mandate", subscriber, plan>>)

StreamAddress(subscriber, merchant, index) ==
    Pda(Vela, <<"stream", subscriber, merchant, index>>)
AgentMandateAddress(authority, agent) ==
    Pda(Vela, <<"agent-mandate", authority, agent>>)
AgentMandateWrappedAta(mandate, mint) == Ata(mint, mandate, Token2022)

ApprovalAddress(mandate) == Pda(Vela, <<"approval", mandate>>)
BillingAddress(mandate, pulls) == Pda(Vela, <<"billing", mandate, pulls>>)
UsageReportAddress(mandate, start) == Pda(Vela, <<"usage_report", mandate, start>>)
RequestAddress(flow, mandate, subject) ==
    Pda(Vela, <<"arcium_request", flow, mandate, subject>>)

\* The one address that is not the protocol's own: the hook program's.
ExtraAccountMetas(mint, hook) == Pda(hook, <<"extra-account-metas", mint>>)

-----------------------------------------------------------------------------
(* The cluster's                                                           *)

\* effectiveMxeProgramId: none, or the default key, stands for the protocol.
DefaultKey == Key("default")
MxeProgram(mxe) == IF mxe = DefaultKey THEN Vela ELSE mxe

MxeAccount(mxe) == Pda(Arcium, <<"MXEAccount", MxeProgram(mxe)>>)
ComputationDefinition(mxe, circuit) ==
    Pda(Arcium, <<"ComputationDefinitionAccount", MxeProgram(mxe), circuit>>)
ClusterAddress(name, cluster) == Pda(Arcium, <<name, cluster>>)
ComputationAddress(cluster, offset) ==
    Pda(Arcium, <<"ComputationAccount", cluster, offset>>)
FeePool == Pda(Arcium, <<"FeePool">>)
ArciumClock == Pda(Arcium, <<"ClockAccount">>)
SignAddress == Pda(Vela, <<"ArciumSignerAccount">>)
=============================================================================
