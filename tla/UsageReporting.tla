--------------------------- MODULE UsageReporting ---------------------------
(***************************************************************************)
(* Usage reports: submitUsageReport (src/src/usage.ts), the retried POST   *)
(* to the keeper behind it (src/src/internal/usage-bridge.ts), and the     *)
(* request to price the report                                             *)
(* (src/src/instructions/request-usage-computation.ts).                    *)
(*                                                                         *)
(* Several calls report, perhaps different, usage of one mandate for one   *)
(* period.  The report account of a period can be created once, so one     *)
(* transaction at most is executed; which one is decided on the chain, and *)
(* a call may be told that its transaction failed although it lands.       *)
(* The keeper has its own row per period, which the bridge writes.         *)
(***************************************************************************)
EXTENDS Naturals

CONSTANTS
    UsageCalls,     \* bound: calls of submitUsageReport, each made once
    Units,          \* the usage a call may report
    MaxSafeInteger, \* the largest number a JavaScript number counts to
    TierCounts,     \* tierCount of the usage plan: unchecked bytes of its account
    MaxAttempts,    \* of the bridge
    NoUnits         \* no value

ASSUME UsageAssumption ==
    /\ Units \subseteq Nat
    /\ MaxSafeInteger \in Nat
    /\ TierCounts \subseteq Nat
    /\ MaxAttempts \in Nat \ {0}
    /\ NoUnits \notin Nat

VARIABLES
    usageCall,   \* usageCall[c]: where call c is, and what it was given
    keys,        \* the calls whose ephemeral keys are in memory
    report,      \* the units of the UsageReport account of the period, or NoUnits
    row,         \* the units of the keeper's row of the period, or NoUnits
    tierCount,
    priced       \* the circuit the report was queued for, or "none"

usageVars == <<usageCall, keys, report, row, tierCount, priced>>

Phases == {"idle", "keyed", "sent", "posting", "resolved", "warned", "rejected"}

UsageTypeOK ==
    /\ usageCall \in [UsageCalls ->
         [at : Phases, units : Units \cup {NoUnits}, attempt : 0..MaxAttempts,
          tx : {"none", "flying", "landed", "failed"}]]
    /\ keys \subseteq UsageCalls
    /\ report \in Units \cup {NoUnits}
    /\ row \in Nat \cup {NoUnits}
    /\ tierCount \in TierCounts
    /\ priced \in {"none", "usage_charge_v2", "tiered_pricing_v2"}

UsageInit ==
    /\ usageCall = [c \in UsageCalls |-> [at |-> "idle", units |-> NoUnits,
                                          attempt |-> 0, tx |-> "none"]]
    /\ keys = {}
    /\ report = NoUnits
    /\ row = NoUnits
    /\ tierCount \in TierCounts
    /\ priced = "none"

-----------------------------------------------------------------------------
At(c, phase) == usageCall[c].at = phase

Move(c, phase) == usageCall' = [usageCall EXCEPT ![c].at = phase]

\* The ephemeral keys are zeroed in a finally block: however the call ends.
Settle(c, phase) ==
    /\ Move(c, phase)
    /\ keys' = keys \ {c}

\* The cluster's key is found on the chain, or the call throws before it has a
\* key of its own.
BeginReport(c, units) ==
    /\ At(c, "idle")
    /\ usageCall' = [usageCall EXCEPT ![c].at = "keyed", ![c].units = units]
    /\ keys' = keys \cup {c}
    /\ UNCHANGED <<report, row, tierCount, priced>>

NoClusterKey(c) ==
    /\ At(c, "idle")
    /\ Move(c, "rejected")
    /\ UNCHANGED <<keys, report, row, tierCount, priced>>

\* A usage plan has 1 to 5 tiers.
TiersInRange == tierCount \in 1..5

\* The plan's tiers are counted, the units encrypted into exactly one ciphertext,
\* and the transaction is sent.
SendReport(c) ==
    /\ At(c, "keyed")
    /\ TiersInRange
    /\ usageCall' = [usageCall EXCEPT ![c].at = "sent", ![c].tx = "flying"]
    /\ UNCHANGED <<keys, report, row, tierCount, priced>>

RefuseReport(c) ==
    /\ At(c, "keyed")
    /\ ~TiersInRange
    /\ Settle(c, "rejected")
    /\ UNCHANGED <<report, row, tierCount, priced>>

\* The program creates the report account of the period, once.
LandReport(c) ==
    /\ usageCall[c].tx = "flying"
    /\ usageCall' = [usageCall EXCEPT ![c].tx =
                        IF report = NoUnits THEN "landed" ELSE "failed"]
    /\ report' = IF report = NoUnits THEN usageCall[c].units ELSE report
    /\ UNCHANGED <<keys, row, tierCount, priced>>

DropReport(c) ==
    /\ usageCall[c].tx = "flying"
    /\ usageCall' = [usageCall EXCEPT ![c].tx = "failed"]
    /\ UNCHANGED <<keys, report, row, tierCount, priced>>

\* sendAndConfirm resolves.  Without an endpoint the call is done; otherwise the bridge begins.
ConfirmReport(c, endpoint) ==
    /\ At(c, "sent")
    /\ usageCall[c].tx = "landed"
    /\ IF endpoint
       THEN /\ usageCall' = [usageCall EXCEPT ![c].at = "posting", ![c].attempt = 1]
            /\ UNCHANGED keys
       ELSE Settle(c, "resolved")
    /\ UNCHANGED <<report, row, tierCount, priced>>

\* Mutant: the bridge is tried although the transaction is not known to be in.
RejectReport_Posts(c) ==
    /\ At(c, "sent")
    /\ usageCall' = [usageCall EXCEPT ![c].at = "posting", ![c].attempt = 1]
    /\ UNCHANGED <<keys, report, row, tierCount, priced>>

\* sendAndConfirm throws: the transaction failed, or waiting for it did.
RejectReport(c) ==
    /\ At(c, "sent")
    /\ Settle(c, "rejected")
    /\ UNCHANGED <<report, row, tierCount, priced>>

-----------------------------------------------------------------------------
(* postUsageReportBridge                                                   *)

\* Number(): above MaxSafeInteger only even numbers exist.
ToNumber(units) ==
    IF units > MaxSafeInteger THEN units - (units % 2) ELSE units

\* The keeper writes its row; the row of a period is written again as a whole.
Post(c) == row' = ToNumber(usageCall[c].units)

\* The answer is 2xx.
PostOk(c) ==
    /\ At(c, "posting")
    /\ Post(c)
    /\ Settle(c, "resolved")
    /\ UNCHANGED <<report, tierCount, priced>>

\* Mutant: an attempt is counted when it is made and when it fails.
NextAttempt_Twice(n) == n + 2

NextAttempt(n) == n + 1

\* The bridge reports ok: false; submitUsageReport warns, and resolves.
GiveUp(c) == Settle(c, "warned")

\* 429 or 5xx, or fetch throws; the keeper may have written the row and only its
\* answer was lost.
PostFails(c, written) ==
    /\ At(c, "posting")
    /\ IF written THEN Post(c) ELSE UNCHANGED row
    /\ IF usageCall[c].attempt = MaxAttempts THEN GiveUp(c)
       ELSE /\ usageCall' = [usageCall EXCEPT ![c].attempt = NextAttempt(@)]
            /\ UNCHANGED keys
    /\ UNCHANGED <<report, tierCount, priced>>

\* Any other status: it will not get better.
PostRefused(c) ==
    /\ At(c, "posting")
    /\ GiveUp(c)
    /\ UNCHANGED <<report, row, tierCount, priced>>

-----------------------------------------------------------------------------
\* buildRequestUsageComputationInstruction: the keeper has the report priced; the
\* circuit depends on the number of tiers.
PriceReport ==
    /\ report # NoUnits
    /\ TiersInRange
    /\ priced = "none"
    /\ priced' = IF tierCount = 1 THEN "usage_charge_v2" ELSE "tiered_pricing_v2"
    /\ UNCHANGED <<usageCall, keys, report, row, tierCount>>

CallStep(c) ==
    \/ \E units \in Units : BeginReport(c, units)
    \/ NoClusterKey(c)
    \/ SendReport(c)
    \/ RefuseReport(c)
    \/ \E endpoint \in BOOLEAN : ConfirmReport(c, endpoint)
    \/ RejectReport(c)
    \/ PostOk(c)
    \/ \E written \in BOOLEAN : PostFails(c, written)
    \/ PostRefused(c)

UsageNext ==
    \/ \E c \in UsageCalls : CallStep(c) \/ LandReport(c) \/ DropReport(c)
    \/ PriceReport

\* A call goes on once it has begun.
UsageFairness ==
    \A c \in UsageCalls : WF_usageVars(CallStep(c)) /\ WF_usageVars(LandReport(c))

UsageSpec == UsageInit /\ [][UsageNext]_usageVars /\ UsageFairness

-----------------------------------------------------------------------------
(* Properties                                                              *)

Ended(c) == usageCall[c].at \in {"resolved", "warned", "rejected"}

\* The keeper's row, however often it is written and by however many calls, is
\* that of the report on the chain, up to what a JavaScript number can hold.
RowIsReported == row # NoUnits => report # NoUnits /\ row = ToNumber(report)

\* No private key or shared secret of a call outlives it (the finally block of
\* submitUsageReport), and none exists before the cluster's key is known.
KeysZeroed == \A c \in keys : usageCall[c].at \in {"keyed", "sent", "posting"}

\* A call that had a keeper to tell and ends without a warning has told it.
SilenceMeansTold ==
    \A c \in UsageCalls :
      At(c, "resolved") /\ usageCall[c].attempt > 0 => row # NoUnits

\* Together: what the keeper bills is what is on the chain, no call ends in
\* silence without having told it, and none leaves a key behind.
ReportingSafe == RowIsReported /\ KeysZeroed /\ SilenceMeansTold

\* Every call ends: the bridge's attempts are bounded.
UsageCallsEnd == \A c \in UsageCalls : At(c, "keyed") ~> Ended(c)
=============================================================================
