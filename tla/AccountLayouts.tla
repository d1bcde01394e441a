--------------------------- MODULE AccountLayouts ---------------------------
(***************************************************************************)
(* How accounts are read: the decoders of src/src/accounts/deserialize.ts  *)
(* and the two kinds of plan of src/src/accounts/subscribable-plan.ts.     *)
(*                                                                         *)
(* A reader is given an address and what is there: nothing, an account of  *)
(* another kind, one that is cut short, or one of an earlier version.  The *)
(* bytes are what the program's serializer wrote (the interface file's     *)
(* fields, in order); a field is read rightly if it is read where it is.   *)
(***************************************************************************)
EXTENDS Integers, Sequences

CONSTANTS
    AccountVersions,    \* versions an account may have
    NoReading           \* nothing is being read

ASSUME LayoutsAssumption == AccountVersions \subseteq 0..255

VARIABLES
    account,        \* what is at the address
    reading         \* what is read, and what the reader came to

layoutVars == <<account, reading>>

Width == [key |-> 32, u64 |-> 8, i64 |-> 8, u32 |-> 4, u8 |-> 1, bytes7 |-> 7, bytes8 |-> 8,
          bytes64 |-> 64, option |-> 9]

\* Where a layout's first n fields end.
EndOf(layout, start, n) ==
    LET end[k \in 0..n] == IF k = 0 THEN start ELSE end[k - 1] + Width[layout[k][2]]
    IN end[n]

\* The bytes of each field: it begins where the one before it ends.
Places(layout, start) ==
    [name \in {layout[k][1] : k \in DOMAIN layout} |->
        LET k == CHOOSE k \in DOMAIN layout : layout[k][1] = name
        IN <<EndOf(layout, start, k - 1), Width[layout[k][2]]>>]

-----------------------------------------------------------------------------
(* What the readers read, in the order they do                             *)

MandateReads ==
    <<<<"subscriber", "key">>, <<"plan", "key">>, <<"merchant", "key">>, <<"amount", "u64">>,
      <<"frequency", "u64">>, <<"startDate", "i64">>, <<"expiry", "i64">>, <<"maxPulls", "u64">>,
      <<"pullsExecuted", "u64">>, <<"nextPaymentDue", "i64">>, <<"lastPullAt", "i64">>,
      <<"lastBillingRecordedPull", "u64">>, <<"validationRequestNonce", "u64">>,
      <<"billingRequestNonce", "u64">>, <<"status", "u8">>, <<"bump", "u8">>,
      <<"billingType", "u8">>, <<"mandateIndex", "u64">>, <<"version", "u8">>,
      <<"creditBalance", "u64">>, <<"pendingNewPlan", "key">>, <<"pendingEffectiveAt", "i64">>,
      <<"pendingChangeType", "u8">>, <<"pendingNonceShort", "bytes8">>, <<"reserved", "bytes7">>>>

\* Mutant: the decision is read after the time it was made at.
ApprovalReads_Swapped ==
    <<<<"mandate", "key">>, <<"periodStart", "i64">>, <<"periodEnd", "i64">>,
      <<"validUntil", "i64">>, <<"createdAt", "i64">>, <<"approved", "u8">>,
      <<"approvedAmount", "u64">>, <<"bump", "u8">>>>

ApprovalReads ==
    <<<<"mandate", "key">>, <<"periodStart", "i64">>, <<"periodEnd", "i64">>,
      <<"validUntil", "i64">>, <<"approved", "u8">>, <<"approvedAmount", "u64">>,
      <<"createdAt", "i64">>, <<"bump", "u8">>>>

TokenConfigReads ==
    <<<<"mint", "key">>, <<"tokenProgram", "key">>, <<"billingRail", "u8">>, <<"decimals", "u8">>,
      <<"enabled", "u8">>, <<"oracleReference", "key">>, <<"admin", "key">>, <<"createdAt", "i64">>,
      <<"bump", "u8">>, <<"version", "u8">>, <<"reserved", "bytes64">>>>

\* The version comes first; what is pending is there from version 2 on.
StreamReads(version) ==
    <<<<"subscriber", "key">>, <<"merchant", "key">>, <<"mint", "key">>, <<"ratePerSecond", "u64">>,
      <<"authorizedMaxRate", "u64">>, <<"lastSettledTs", "i64">>, <<"totalStreamed", "u64">>,
      <<"maxStreamed", "option">>, <<"pausedAt", "option">>, <<"minSettleInterval", "u32">>,
      <<"status", "u8">>, <<"mandateIndex", "u64">>, <<"bump", "u8">>>>
    \o IF version >= 2
       THEN <<<<"pendingNewRate", "u64">>, <<"pendingNewMaxRate", "u64">>,
              <<"pendingEffectiveAt", "i64">>, <<"pendingChangeType", "u8">>,
              <<"pendingNonceShort", "bytes8">>>>
       ELSE <<>>

\* Of the merchant and of the configuration the stream builders read bytes.
CounterRead == <<89, 8>>
VaultRead == <<113, 32>>
HookRead == <<154, 32>>

\* The length below which an account is refused as truncated (of the configuration
\* by execute-stream; pause-stream does not look at its length).
MinLength ==
    [PullApproval |-> 82, StreamMandate |-> 225, VelaMandate |-> 268, TokenConfig |-> 213,
     MerchantState |-> 97, ProtocolConfig |-> 154]

\* What each reader reads of an account.
Reads(kind, version) ==
    CASE kind = "VelaMandate" -> Places(MandateReads, 8)
      [] kind = "PullApproval" -> Places(ApprovalReads, 8)
      [] kind = "TokenConfig" -> Places(TokenConfigReads, 8)
      [] kind = "StreamMandate" -> Places(StreamReads(version), 9)
      [] kind = "MerchantState" -> [streamMandateCounter |-> CounterRead]
      [] kind = "ProtocolConfig" -> [wrappingVault |-> VaultRead, hookProgramId |-> HookRead]

-----------------------------------------------------------------------------
(* The interface file: where the program's serializer puts each field      *)

IdlPlaces ==
    [VelaMandate |->
        [subscriber |-> <<8, 32>>, plan |-> <<40, 32>>, merchant |-> <<72, 32>>,
         amount |-> <<104, 8>>, frequency |-> <<112, 8>>, startDate |-> <<120, 8>>,
         expiry |-> <<128, 8>>, maxPulls |-> <<136, 8>>, pullsExecuted |-> <<144, 8>>,
         nextPaymentDue |-> <<152, 8>>, lastPullAt |-> <<160, 8>>,
         lastBillingRecordedPull |-> <<168, 8>>, validationRequestNonce |-> <<176, 8>>,
         billingRequestNonce |-> <<184, 8>>, status |-> <<192, 1>>, bump |-> <<193, 1>>,
         billingType |-> <<194, 1>>, mandateIndex |-> <<195, 8>>, version |-> <<203, 1>>,
         creditBalance |-> <<204, 8>>, pendingNewPlan |-> <<212, 32>>,
         pendingEffectiveAt |-> <<244, 8>>, pendingChangeType |-> <<252, 1>>,
         pendingNonceShort |-> <<253, 8>>, reserved |-> <<261, 7>>],
     PullApproval |->
        [mandate |-> <<8, 32>>, periodStart |-> <<40, 8>>, periodEnd |-> <<48, 8>>,
         validUntil |-> <<56, 8>>, approved |-> <<64, 1>>, approvedAmount |-> <<65, 8>>,
         createdAt |-> <<73, 8>>, bump |-> <<81, 1>>],
     TokenConfig |->
        [mint |-> <<8, 32>>, tokenProgram |-> <<40, 32>>, billingRail |-> <<72, 1>>,
         decimals |-> <<73, 1>>, enabled |-> <<74, 1>>, oracleReference |-> <<75, 32>>,
         admin |-> <<107, 32>>, createdAt |-> <<139, 8>>, bump |-> <<147, 1>>,
         version |-> <<148, 1>>, reserved |-> <<149, 64>>],
     MerchantState |-> [streamMandateCounter |-> <<89, 8>>],
     ProtocolConfig |-> [wrappingVault |-> <<113, 32>>, hookProgramId |-> <<154, 32>>]]

\* The whole length of an account of each kind (a stream's is the code's: the
\* interface file has no stream account).
FullLength ==
    [PullApproval |-> 82, StreamMandate |-> 225, VelaMandate |-> 268, TokenConfig |-> 213,
     MerchantState |-> 154, ProtocolConfig |-> 220, VelaPlan |-> 179, UsagePlan |-> 316]

Raw == {"PullApproval", "StreamMandate", "VelaMandate", "TokenConfig", "MerchantState",
        "ProtocolConfig"}
Kinds == Raw \cup {"VelaPlan", "UsagePlan"}

\* The names of the variants by their bytes.
Variants ==
    [VelaMandate |-> <<"active", "cancelled", "expired">>,
     StreamMandate |-> <<"active", "paused", "cancelled">>,
     TokenConfig |-> <<"transferHook", "tokenDelegate">>]

-----------------------------------------------------------------------------
(* The readers                                                             *)

Absent == [kind |-> "absent", length |-> 0, version |-> 0, status |-> 0, plan |-> "default"]

\* Truncated before it is of another kind; of the other two bytes are read by
\* their offsets alone.
Discriminated == Raw \ {"MerchantState", "ProtocolConfig"}

Decode(wanted, a) ==
    IF a.length < MinLength[wanted] THEN "truncated"
    ELSE IF wanted \in Discriminated /\ a.kind # wanted THEN "wrong account type"
    ELSE IF wanted = "StreamMandate" /\ a.version \notin {1, 2} THEN "unsupported version"
    ELSE IF wanted \in DOMAIN Variants /\ a.status + 1 \notin DOMAIN Variants[wanted]
         THEN "unknown variant"
    ELSE "read"

\* fetchStreamMandate looks at the kind first, fetchPullApproval takes an
\* account that is not there for none.
Fetch(wanted, a) ==
    IF a.kind = "absent" THEN IF wanted = "PullApproval" THEN "none" ELSE "not found"
    ELSE IF wanted = "StreamMandate" /\ a.kind # wanted THEN "wrong account type"
    ELSE Decode(wanted, a)

\* What the two decoders of a mandate make of the fields they treat differently.
FromBytes(a) ==
    [plan |-> IF a.plan = "default" THEN "none" ELSE a.plan, mandateIndex |-> TRUE,
     status |-> Variants["VelaMandate"][a.status + 1]]

FromAnchor(a) ==
    [plan |-> a.plan, mandateIndex |-> a.version >= 1,
     status |-> CASE a.status = 0 -> "active" [] a.status = 1 -> "cancelled"
                  [] a.status = 2 -> "expired"]

-----------------------------------------------------------------------------
(* Reading                                                                 *)

\* A merchant's state and the configuration are at addresses nothing else is at.
ReadAccount(wanted) ==
    /\ reading = NoReading
    /\ wanted \in Discriminated \/ account.kind \in {wanted, "absent"}
    /\ reading' = [wanted |-> wanted, step |-> "done", result |-> Fetch(wanted, account),
                   there |-> TRUE]
    /\ UNCHANGED account

\* getSubscribablePlan: a flat plan is fetched, and if there is none at the
\* address or it is of another kind, a usage plan is.
GetSubscribablePlan ==
    /\ reading = NoReading
    /\ reading' = [wanted |-> "plan", step |-> "flat", result |-> "none", there |-> TRUE]
    /\ UNCHANGED account

AnchorFetch(kind) ==
    IF account.kind \in {kind, "absent"}
    THEN IF account.kind = "absent" THEN "missing" ELSE kind
    ELSE "mismatch"

ShouldTryUsage(error) == error \in {"missing", "mismatch"}

FetchFlat ==
    /\ reading # NoReading /\ reading.step = "flat"
    /\ \E got \in {AnchorFetch("VelaPlan"), "fault"} :
          reading' = IF ShouldTryUsage(got)
                     THEN [reading EXCEPT !.step = "usage", !.result = got]
                     ELSE [reading EXCEPT !.step = "done", !.result = got]
    /\ UNCHANGED account

FetchUsage ==
    /\ reading # NoReading /\ reading.step = "usage"
    /\ \E got \in {AnchorFetch("UsagePlan"), "fault"} :
          reading' = [reading EXCEPT !.step = "done",
                        !.result = IF got = "missing" /\ reading.result = "missing"
                                   THEN "unsupported or missing plan" ELSE got]
    /\ UNCHANGED account

\* A plan is created at the address while it is read.
PlanCreated ==
    /\ account.kind = "absent"
    /\ \E kind \in {"VelaPlan", "UsagePlan"} :
          account' = [Absent EXCEPT !.kind = kind, !.length = FullLength[kind]]
    /\ reading' = IF reading = NoReading THEN reading ELSE [reading EXCEPT !.there = FALSE]

LayoutsTypeOK ==
    /\ account.kind \in Kinds \cup {"absent"}
    /\ account.length \in 0..316
    /\ reading # NoReading =>
          /\ reading.wanted \in Raw \cup {"plan"}
          /\ reading.step \in {"flat", "usage", "done"}

LayoutsInit ==
    /\ reading = NoReading
    /\ \/ account = Absent
       \/ \E kind \in Kinds, version \in AccountVersions, status \in 0..3,
             plan \in {"default", "a plan"} :
            \E length \in {FullLength[kind], FullLength[kind] - 1, 154, 8, 7} :
               account = [kind |-> kind, length |-> length, version |-> version,
                          status |-> status, plan |-> plan]

LayoutsNext ==
    \/ \E wanted \in Raw : ReadAccount(wanted)
    \/ GetSubscribablePlan \/ FetchFlat \/ FetchUsage
    \/ PlanCreated

LayoutsSpec == LayoutsInit /\ [][LayoutsNext]_layoutVars

-----------------------------------------------------------------------------
(* Properties                                                              *)

WasRead == reading # NoReading /\ reading.wanted \in Raw /\ reading.result = "read"

\* An account that a reader takes is read inside its bytes: the length it asks
\* for covers every field, in every version, whatever else is at the address.
\* The one exception: the 154 bytes asked of the configuration end where its hook
\* program begins, and of a shorter one a key of fewer bytes would be made.
ReadsInside ==
    WasRead => LET reads == Reads(reading.wanted, account.version)
               IN \A f \in DOMAIN reads \ {"hookProgramId"} :
                      reads[f][1] + reads[f][2] <= account.length

\* Each field is read where the program's serializer puts it, and as wide: the
\* running offset of a reader is not off by a field it left out or misjudged.
ReadsWhereWritten ==
    WasRead /\ reading.wanted \in DOMAIN IdlPlaces =>
        Reads(reading.wanted, account.version) = IdlPlaces[reading.wanted]

\* A mandate is the same read from bytes and read through Anchor, from version
\* 1 on and if it has a plan (below, the index and the plan differ).
DecodersAgree ==
    WasRead /\ reading.wanted = "VelaMandate" /\ account.version >= 1 /\ account.plan # "default" =>
        FromBytes(account) = FromAnchor(account)

\* A plan that was there from the beginning is found, whichever kind it is, or
\* the connection failed; a failing connection is never taken for no plan.
PlanOfEitherKindFound ==
    reading # NoReading /\ reading.wanted = "plan" /\ reading.step = "done" =>
        /\ reading.there /\ account.kind \in {"VelaPlan", "UsagePlan"} =>
               reading.result \in {account.kind, "fault"}
        /\ reading.result = "unsupported or missing plan" =>
               account.kind = "absent" \/ ~reading.there

\* Together: what the program wrote is what is read, by every reader.
LayoutsAgree ==
    ReadsInside /\ ReadsWhereWritten /\ DecodersAgree /\ PlanOfEitherKindFound
=============================================================================
