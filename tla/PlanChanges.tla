---------------------------- MODULE PlanChanges ----------------------------
(***************************************************************************)
(* The change of a periodic plan: what UpgradeBuilder                      *)
(* (src/src/builders/upgrade-builder.ts) shows the caller, what it sends,  *)
(* and what the program charges or credits when it lands.                  *)
(*                                                                         *)
(* The caller holds a mandate that was fetched earlier.  Between the       *)
(* preview, the building of the transaction and its landing time passes,   *)
(* and a pull may begin the next period.  All clocks agree here (their     *)
(* differences are in BillingCycle); the token is the mandate's.           *)
(***************************************************************************)
EXTENDS Integers, Sequences, FiniteSetsExt

CONSTANTS
    PlanAmounts,    \* plan -> its amount
    Frequency,      \* the length of a period, the same for all plans
    Decimals,       \* of the token
    PutOff,         \* the moments a change may be put off to; 0 for at once
    MaxChangeTime,  \* bound: the clock
    MaxChanges,     \* bound: changes that land
    NoOffer, NoChange

ASSUME PlanChangesAssumption ==
    /\ \A p \in DOMAIN PlanAmounts : PlanAmounts[p] \in Nat
    /\ Frequency \in Nat \ {0}
    /\ Decimals \in Nat
    /\ PutOff \subseteq Nat
    /\ MaxChangeTime \in Nat /\ MaxChanges \in Nat

VARIABLES
    changeClock,
    billed,         \* the mandate on the chain: plan, amount, nextPaymentDue
    held,           \* the mandate the caller holds
    offer,          \* what the caller was shown, and from which mandate
    changeTx,       \* the transaction under way
    settled         \* charges less credits, their exact sum, and how many

changeVars == <<changeClock, billed, held, offer, changeTx, settled>>

Abs(n) == IF n < 0 THEN -n ELSE n

-----------------------------------------------------------------------------
(* The amount                                                              *)

\* computeProration: the difference for the rest of the period, truncated.
Proration(old, new, elapsed) ==
    LET numerator == (new - old) * (Frequency - elapsed)
        truncated == Abs(numerator) \div Frequency
    IN IF numerator < 0 THEN -truncated ELSE truncated

Outcome(amount) ==
    CASE amount = 0 -> "NoOp" [] amount > 0 -> "ChargeNow" [] amount < 0 -> "CreditNow"

\* Mutant: the ends of the period are not looked at.
Elapsed_Unclamped(m, now) == now - (m.due - Frequency)

\* A mandate whose period has not begun, or is over, is taken at its ends.
Elapsed(m, now) ==
    LET start == m.due - Frequency
    IN CASE now <= start -> 0 [] now >= m.due -> Frequency [] OTHER -> now - start

\* effectiveAt is 0 when it is not given.
Preview(m, p, effectiveAt, now) ==
    LET amount == Proration(m.amount, PlanAmounts[p], Elapsed(m, now))
    IN IF effectiveAt > now THEN [outcome |-> "ScheduledChange", amount |-> 0]
       ELSE IF m.plan = p /\ m.amount = PlanAmounts[p] THEN [outcome |-> "NoOp", amount |-> 0]
       ELSE [outcome |-> Outcome(amount), amount |-> amount]

\* requiresSubscriberSig.
RequiresSig(m, p) == PlanAmounts[p] > m.amount

-----------------------------------------------------------------------------
(* Decimal strings: a whole part and the digits of a fraction              *)

Digits[n \in Nat] == IF n < 10 THEN <<n>> ELSE Append(Digits[n \div 10], n % 10)
Number(digits) ==
    LET value[k \in 0..Len(digits)] == IF k = 0 THEN 0 ELSE 10 * value[k - 1] + digits[k]
    IN value[Len(digits)]
Zeros(n) == [k \in 1..n |-> 0]

\* formatAmount: at least one digit before the point, no zeros at the end.
FormatAmount(n) ==
    LET digits == Digits[n]
        padded == Zeros(Max({Decimals + 1 - Len(digits), 0})) \o digits
        point == Len(padded) - Decimals
        last == Max({point} \cup {k \in point + 1..Len(padded) : padded[k] # 0})
    IN [whole |-> SubSeq(padded, 1, point), fraction |-> SubSeq(padded, point + 1, last)]

\* parseAmount: refused (-1) without a whole part or with too fine a fraction.
ParseAmount(text) ==
    IF text.whole = <<>> \/ Len(text.fraction) > Decimals THEN -1
    ELSE Number(text.whole \o text.fraction \o Zeros(Decimals - Len(text.fraction)))

-----------------------------------------------------------------------------
(* The caller                                                              *)

FetchMandate ==
    /\ held # billed
    /\ held' = billed
    /\ UNCHANGED <<changeClock, billed, offer, changeTx, settled>>

PreviewPlanChange(p, effectiveAt) ==
    /\ changeTx = NoChange
    /\ offer' = [plan |-> p, effectiveAt |-> effectiveAt, from |-> held, at |-> changeClock,
                 shown |-> Preview(held, p, effectiveAt, changeClock)]
    /\ UNCHANGED <<changeClock, billed, held, changeTx, settled>>

\* UpgradeBuilder.execute previews again; it throws without a needed signature,
\* and when the plan stays and nothing is to be paid.
Execute(by) ==
    /\ changeTx = NoChange /\ offer # NoOffer
    /\ LET preview == Preview(held, offer.plan, offer.effectiveAt, changeClock)
       IN /\ RequiresSig(held, offer.plan) => by = "subscriber"
          /\ ~(held.plan = offer.plan /\ preview.outcome = "NoOp")
          /\ changeTx' = [op |-> IF preview.outcome = "ScheduledChange"
                                 THEN "schedule_plan_change" ELSE "update_mandate_plan",
                          plan |-> offer.plan, by |-> by, builtAt |-> changeClock,
                          from |-> held]
    /\ UNCHANGED <<changeClock, billed, held, offer, settled>>

-----------------------------------------------------------------------------
(* The program, and time                                                   *)

\* A dearer plan needs the subscriber's signature (UnauthorizedUpgrade).
Authorized(tx) == PlanAmounts[tx.plan] > billed.amount => tx.by = "subscriber"

\* What the program settles when the change lands.
Due(tx) ==
    IF tx.op = "schedule_plan_change" THEN 0
    ELSE Proration(billed.amount, PlanAmounts[tx.plan], Elapsed(billed, changeClock))

Exact(tx) ==
    IF tx.op = "schedule_plan_change" THEN 0
    ELSE (PlanAmounts[tx.plan] - billed.amount) * (Frequency - Elapsed(billed, changeClock))

LandChange ==
    /\ changeTx # NoChange /\ Authorized(changeTx)
    /\ settled.changes < MaxChanges
    /\ settled' = [net |-> settled.net + Due(changeTx), exact |-> settled.exact + Exact(changeTx),
                   changes |-> settled.changes + 1]
    /\ billed' = IF changeTx.op = "schedule_plan_change" THEN billed
                 ELSE [billed EXCEPT !.plan = changeTx.plan, !.amount = PlanAmounts[changeTx.plan]]
    /\ changeTx' = NoChange
    /\ offer' = NoOffer
    /\ UNCHANGED <<changeClock, held>>

\* Refused, or never landed.
DropChange ==
    /\ changeTx # NoChange
    /\ changeTx' = NoChange
    /\ UNCHANGED <<changeClock, billed, held, offer, settled>>

Pull ==
    /\ changeClock >= billed.due
    /\ billed' = [billed EXCEPT !.due = @ + Frequency]
    /\ UNCHANGED <<changeClock, held, offer, changeTx, settled>>

Tick ==
    /\ changeClock < MaxChangeTime
    /\ changeClock' = changeClock + 1
    /\ UNCHANGED <<billed, held, offer, changeTx, settled>>

ChangesInit ==
    /\ changeClock = 0
    /\ \E p \in DOMAIN PlanAmounts :
          billed = [plan |-> p, amount |-> PlanAmounts[p], due |-> Frequency]
    /\ held = billed
    /\ offer = NoOffer
    /\ changeTx = NoChange
    /\ settled = [net |-> 0, exact |-> 0, changes |-> 0]

Mandates == [plan : DOMAIN PlanAmounts, amount : Nat, due : Nat]

ChangesTypeOK ==
    /\ changeClock \in 0..MaxChangeTime
    /\ billed \in Mandates /\ held \in Mandates
    /\ offer # NoOffer => offer.from \in Mandates /\ offer.shown.amount \in Int
    /\ changeTx # NoChange => changeTx.from \in Mandates
    /\ settled \in [net : Int, exact : Int, changes : 0..MaxChanges]

ChangesNext ==
    \/ FetchMandate
    \/ \E p \in DOMAIN PlanAmounts, at \in PutOff : PreviewPlanChange(p, at)
    \/ \E by \in {"subscriber", "merchant"} : Execute(by)
    \/ LandChange \/ DropChange \/ Pull \/ Tick

ChangesSpec == ChangesInit /\ [][ChangesNext]_changeVars

-----------------------------------------------------------------------------
(* Properties                                                              *)

Lands == settled'.changes = settled.changes + 1

\* Nobody is charged, or credited, more than was shown, however late the change
\* lands, unless the mandate has moved on since it was fetched (a pull began the
\* next period), or the moment the change was put off to has come before the
\* transaction was built.
NoMoreThanShown ==
    [][Lands => \/ Abs(settled'.net - settled.net) <= Abs(offer.shown.amount)
                \/ billed # offer.from \/ changeTx.from # offer.from
                \/ offer.at < offer.effectiveAt /\ offer.effectiveAt <= changeTx.builtAt]_changeVars

\* Rounding never errs by a whole unit per change, whatever the order of dearer
\* and cheaper plans and the times: going up in steps and down at once gains a
\* subscriber less than a unit a step.
RoundingIsBounded ==
    Abs(settled.net * Frequency - settled.exact) <= settled.changes * (Frequency - 1)

\* A transaction is built only if the program will not refuse it for want of the
\* subscriber's signature, unless the mandate has moved on since it was fetched.
UpgradeSigned ==
    changeTx # NoChange /\ ~Authorized(changeTx) => billed # changeTx.from

\* The amount shown, typed in again, is the same amount.
ShownReadsBack ==
    offer # NoOffer =>
        LET n == Abs(offer.shown.amount) IN ParseAmount(FormatAmount(n)) = n

\* Together: what a change of plan costs is what was shown, up to less than a
\* unit a change, and the program is not asked without a signature it needs.
ChangesAsShown == NoMoreThanShown /\ []RoundingIsBounded /\ []UpgradeSigned
=============================================================================
