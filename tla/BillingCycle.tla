---------------------------- MODULE BillingCycle ----------------------------
(***************************************************************************)
(* The billing of one mandate: keepers call the SDK's checks and builders  *)
(* (src/src/validators/preflight.ts, src/src/accounts/deserialize.ts and   *)
(* src/src/instructions/), the cluster computes what the transactions ask  *)
(* for, and the program on the chain decides what lands.                   *)
(*                                                                         *)
(* A keeper looks at the mandate and its approval, builds one transaction  *)
(* from what it saw, the builder reads the chain a second time, and the    *)
(* transaction lands later, or after its keeper gave up, or never.  The    *)
(* keepers' clocks differ from the chain's.                                *)
(*                                                                         *)
(* The program is not part of the SDK.  Its refusals are those its IDL     *)
(* names (src/idl/vela_protocol.json); the seeds of its accounts, from the *)
(* IDL too, say which request a transaction or a callback is for.          *)
(***************************************************************************)
EXTENDS Integers

CONSTANTS
    Keepers,
    Skews,      \* how far a keeper's clock may be ahead
    Plans,
    FirstPlan,  \* the plan the mandate was made with
    Price,      \* Price[p]: the amount of plan p
    Frequency,
    FirstDue,   \* the first nextPaymentDue
    Expiries,   \* the mandate's expiry, 0 for none
    MaxPulls,
    Validity,   \* how long an approval is valid
    MaxTime,    \* bound: the chain's clock
    MaxFaults,  \* bound: lost transactions, refused and aborted computations
    MaxChanges, \* bound: changes of the plan, cancellation included
    None        \* no value

ASSUME BillingAssumption ==
    /\ Skews \subseteq Int
    /\ FirstPlan \in Plans
    /\ Price \in [Plans -> Nat]
    /\ Frequency \in Nat \ {0}
    /\ FirstDue \in Nat
    /\ Expiries \subseteq Nat
    /\ MaxPulls \in Nat \ {0}
    /\ Validity \in Nat
    /\ MaxTime \in Nat
    /\ MaxFaults \in Nat
    /\ MaxChanges \in Nat

VARIABLES
    skew,       \* skew[k]: how far the clock of keeper k is ahead
    clock,      \* the chain's clock
    mandate,    \* the VelaMandate account
    approval,   \* the PullApproval account, or None before the first
    requests,   \* the Arcium request accounts with a computation queued
    seen,       \* seen[k]: what keeper k saw when it looked, or None
    sent,       \* sent[k]: the transaction keeper k waits for, or None
    late,       \* transactions whose keeper gave up; they may still land
    faults,     \* the faults that happened
    changes     \* the changes of the plan that happened

chainVars == <<clock, mandate, approval, requests>>
vars == <<skew, chainVars, seen, sent, late, faults, changes>>

\* A keeper's Date.now(), in seconds of the chain.  The last instant stands for
\* all the time that follows: there a keeper's clock makes no difference.
Now(k) == IF clock = MaxTime THEN clock ELSE clock + skew[k]

\* The subject of a validation request is the end of the period to be paid,
\* the subject of a billing record the number of pulls executed.
Requests ==
    {r \in [kind : {"validation", "record"}, subject : Nat, amount : Nat] :
        r.kind = "record" => r.amount = 0}

Pending == [plan : Plans, at : Nat]

Mandate == [active : BOOLEAN, plan : Plans, amount : Nat, due : Nat,
            expiry : Nat, pulls : Nat, recorded : Nat, validationNonce : Nat,
            billingNonce : Nat, pending : Pending \cup {None}]

Approval == [start : Int, end : Int, until : Int, approved : BOOLEAN, amount : Nat]

\* now: the time by the keeper's own clock.
Look == [mandate : Mandate, approval : Approval \cup {None}, at : Nat, now : Int]

\* pendingPlan: the plan whose account is appended, or None; builtAt, pending:
\* the time and the pending change when the instruction was built.
Tx == [op : {"validate", "pull", "record"}, by : Keepers, look : Look,
       subject : Nat, offset : Nat \X Nat, pendingPlan : Plans \cup {None},
       builtAt : Nat, pending : Pending \cup {None}]

TypeOK ==
    /\ skew \in [Keepers -> Skews]
    /\ clock \in 0..MaxTime
    /\ mandate \in Mandate
    /\ approval \in Approval \cup {None}
    /\ requests \subseteq Requests
    /\ seen \in [Keepers -> Look \cup {None}]
    /\ sent \in [Keepers -> Tx \cup {None}]
    /\ late \subseteq Tx
    /\ faults \in 0..MaxFaults
    /\ changes \in 0..MaxChanges

Init ==
    /\ skew \in [Keepers -> Skews]
    /\ clock = 0
    /\ \E e \in Expiries :
         mandate = [active |-> TRUE, plan |-> FirstPlan, amount |-> Price[FirstPlan],
                    due |-> FirstDue, expiry |-> e, pulls |-> 0, recorded |-> 0,
                    validationNonce |-> 0, billingNonce |-> 0, pending |-> None]
    /\ approval = None
    /\ requests = {}
    /\ seen = [k \in Keepers |-> None]
    /\ sent = [k \in Keepers |-> None]
    /\ late = {}
    /\ faults = 0
    /\ changes = 0

-----------------------------------------------------------------------------
(* What the SDK tells a keeper                                             *)

\* Mutant: the date is not looked at.
CanPull_AnyTime(m, now) ==
    /\ m.active
    /\ m.pulls < MaxPulls
    /\ m.expiry > 0 => now <= m.expiry

\* validatePullPayment: no reason against a pull was found.
CanPull(m, now) ==
    /\ m.active
    /\ now >= m.due
    /\ m.pulls < MaxPulls
    /\ m.expiry > 0 => now <= m.expiry

\* Mutant: an approval is over at its last instant.
IsPullApprovalCurrent_Strict(a, m, now) ==
    /\ a.approved
    /\ a.start = m.due - Frequency
    /\ a.end = m.due
    /\ a.until > now
    /\ a.amount >= m.amount

\* isPullApprovalCurrent for the period that ends when the mandate is due.
IsPullApprovalCurrent(a, m, now) ==
    /\ a.approved
    /\ a.start = m.due - Frequency
    /\ a.end = m.due
    /\ a.until >= now
    /\ a.amount >= m.amount

\* deriveValidationComputationOffset hashes the mandate, the date it is due and
\* a nonce; its callers pass the nonce of the next request.
ValidationOffset(m) == <<m.due, m.validationNonce + 1>>

\* deriveBillingComputationOffset hashes the mandate, its number of pulls and
\* the nonce of the next request.
BillingOffset(m) == <<m.pulls, m.billingNonce + 1>>

-----------------------------------------------------------------------------
(* A keeper: it looks, builds what is called for, sends it, and waits.     *)
(* Keepers are programs of their own; that they look first, and do one     *)
(* thing at a time, is theirs.                                             *)

\* Nothing is called for any more.
Finished(m, now) ==
    \/ ~m.active
    \/ /\ m.recorded = m.pulls
       /\ m.pulls = MaxPulls \/ (m.expiry > 0 /\ now > m.expiry)

CalledFor(look, now) ==
    IF Finished(look.mandate, now) THEN "nothing"
    ELSE IF look.mandate.recorded < look.mandate.pulls THEN "record"
    ELSE IF look.approval = None THEN "validate"
    ELSE IF ~IsPullApprovalCurrent(look.approval, look.mandate, now) THEN "validate"
    ELSE IF CanPull(look.mandate, now) THEN "pull" ELSE "nothing"

\* The mandate and its PullApproval are fetched, again if nothing was to do.
Observe(k) ==
    /\ sent[k] = None
    /\ seen[k] # None => CalledFor(seen[k], seen[k].now) = "nothing"
    /\ seen' = [seen EXCEPT ![k] = [mandate |-> mandate, approval |-> approval,
                                    at |-> clock, now |-> Now(k)]]
    /\ UNCHANGED <<chainVars, sent, late, faults, changes>>

Decides(k, op) == seen[k] # None /\ CalledFor(seen[k], seen[k].now) = op

SendTx(k, op, subject, offset, pendingPlan) ==
    /\ sent' = [sent EXCEPT ![k] =
                  [op |-> op, by |-> k, look |-> seen[k], subject |-> subject,
                   offset |-> offset, pendingPlan |-> pendingPlan,
                   builtAt |-> clock, pending |-> mandate.pending]]
    /\ seen' = [seen EXCEPT ![k] = None]
    /\ UNCHANGED <<chainVars, late, faults, changes>>

\* buildRequestValidationInstruction reads nothing of the mandate: the date and
\* the offset are its caller's.
RequestValidation(k) ==
    /\ Decides(k, "validate")
    /\ SendTx(k, "validate", seen[k].mandate.due,
              ValidationOffset(seen[k].mandate), None)

\* Mutant: the account of the pending plan is never appended.
PendingPlanKey_Never(k) == None

\* Mutant: the pending change itself, not its plan.
PendingPlanKey_Change(k) ==
    IF mandate.pending # None /\ Now(k) >= mandate.pending.at
    THEN mandate.pending ELSE None

\* The account appended for a plan change the caller's clock says is due.
PendingPlanKey(k) ==
    IF mandate.pending # None /\ Now(k) >= mandate.pending.at
    THEN mandate.pending.plan ELSE None

\* buildExecutePullInstruction fetches the mandate again, for the pending plan
\* only.  The plan is its caller's.
ExecutePull(k) ==
    /\ Decides(k, "pull")
    /\ SendTx(k, "pull", seen[k].mandate.pulls, <<0, 0>>, PendingPlanKey(k))

\* buildRequestBillingRecordInstruction fetches the mandate again for the number
\* of pulls; the offset is its caller's.
RequestBillingRecord(k) ==
    /\ Decides(k, "record")
    /\ SendTx(k, "record", mandate.pulls, BillingOffset(seen[k].mandate), None)

\* A builder throws before anything is sent: a fetch fails, an encrypted input
\* has the wrong size, the mandate or the mint is missing, or the hook program
\* of the caller is not that of the ProtocolConfig.
BuilderThrows(k) ==
    /\ \E op \in {"validate", "pull", "record"} : Decides(k, op)
    /\ faults < MaxFaults
    /\ faults' = faults + 1
    /\ seen' = [seen EXCEPT ![k] = None]
    /\ UNCHANGED <<chainVars, sent, late, changes>>

\* The wait for the confirmation ends without one.
TimeOut(k) ==
    /\ sent[k] # None
    /\ faults < MaxFaults
    /\ faults' = faults + 1
    /\ late' = late \cup {sent[k]}
    /\ sent' = [sent EXCEPT ![k] = None]
    /\ UNCHANGED <<chainVars, seen, changes>>

-----------------------------------------------------------------------------
(* The program on the chain                                                *)

InForce(m) == m.pending # None /\ clock >= m.pending.at

\* The refusals of request_validation, by the numbers of the IDL.
ValidationRefusals(t) ==
    {code \in {6001, 6016, 6024, 6062} :
       CASE code = 6001 -> ~mandate.active
         [] code = 6016 -> /\ approval # None
                           /\ approval.approved
                           /\ approval.end = mandate.due
                           /\ approval.until >= clock
                           /\ approval.amount >= mandate.amount
         [] code = 6024 -> \/ t.subject # mandate.due
                           \/ t.offset # ValidationOffset(mandate)
         [] code = 6062 -> \E r \in requests : /\ r.kind = "validation"
                                               /\ r.subject = mandate.due}

ApprovalCovers ==
    /\ approval # None
    /\ approval.approved
    /\ approval.end = mandate.due
    /\ approval.amount >= mandate.amount

\* The refusals of execute_pull.  0 is for the plan's account, which must be
\* the mandate's plan.
PullRefusals(t) ==
    {code \in {0, 6000, 6001, 6002, 6008, 6011, 6012, 6019, 12715} :
       CASE code = 0 -> t.look.mandate.plan # mandate.plan
         [] code = 6000 -> clock < mandate.due
         [] code = 6001 -> ~mandate.active
         [] code = 6002 -> mandate.pulls >= MaxPulls
         [] code = 6008 -> mandate.expiry > 0 /\ clock > mandate.expiry
         [] code = 6011 -> ~ApprovalCovers
         [] code = 6012 -> approval # None /\ approval.until < clock
         [] code = 6019 -> mandate.recorded < mandate.pulls
         [] code = 12715 -> InForce(mandate) /\ t.pendingPlan # mandate.pending.plan}

\* The refusals of request_billing_record.
RecordRefusals(t) ==
    {code \in {6020, 6024, 6062} :
       CASE code = 6020 -> mandate.recorded = mandate.pulls
         [] code = 6024 -> \/ t.subject # mandate.pulls
                           \/ t.offset # BillingOffset(mandate)
         [] code = 6062 -> \E r \in requests : /\ r.kind = "record"
                                               /\ r.subject = mandate.pulls}

Refusals(t) ==
    CASE t.op = "validate" -> ValidationRefusals(t)
      [] t.op = "pull" -> PullRefusals(t)
      [] t.op = "record" -> RecordRefusals(t)

QueueValidation(t) ==
    /\ requests' = requests \cup
         {[kind |-> "validation", subject |-> t.subject, amount |-> mandate.amount]}
    /\ mandate' = [mandate EXCEPT !.validationNonce = @ + 1]

QueueRecord(t) ==
    /\ requests' = requests \cup
         {[kind |-> "record", subject |-> t.subject, amount |-> 0]}
    /\ mandate' = [mandate EXCEPT !.billingNonce = @ + 1]

\* A change in force replaces the plan after the period is charged.
Charge(t) ==
    /\ LET charged == [mandate EXCEPT !.pulls = @ + 1, !.due = @ + Frequency]
       IN mandate' = IF InForce(mandate)
                     THEN [charged EXCEPT !.plan = t.pendingPlan,
                                          !.amount = Price[t.pendingPlan],
                                          !.pending = None]
                     ELSE charged
    /\ UNCHANGED requests

\* A transaction is executed, or refused and changes nothing.
Execute(t) ==
    /\ IF Refusals(t) # {} THEN UNCHANGED <<mandate, requests>>
       ELSE CASE t.op = "validate" -> QueueValidation(t)
              [] t.op = "pull" -> Charge(t)
              [] t.op = "record" -> QueueRecord(t)
    /\ UNCHANGED <<clock, approval>>

Land(k) ==
    /\ sent[k] # None
    /\ Execute(sent[k])
    /\ sent' = [sent EXCEPT ![k] = None]
    /\ UNCHANGED <<seen, late, faults, changes>>

LandLate(t) ==
    /\ t \in late
    /\ Execute(t)
    /\ late' = late \ {t}
    /\ UNCHANGED <<seen, sent, faults, changes>>

Vanish(t) ==
    /\ t \in late
    /\ late' = late \ {t}
    /\ UNCHANGED <<chainVars, seen, sent, faults, changes>>

-----------------------------------------------------------------------------
(* The cluster's callbacks.  Their request accounts are found by the       *)
(* mandate as it is now: an older request can no longer be answered.       *)

Answerable(r) ==
    r.subject = IF r.kind = "validation" THEN mandate.due ELSE mandate.pulls

ValidationCallback(r, approved) ==
    /\ r \in requests
    /\ r.kind = "validation"
    /\ Answerable(r)
    /\ approved \/ faults < MaxFaults
    /\ faults' = IF approved THEN faults ELSE faults + 1
    /\ approval' = [start |-> r.subject - Frequency, end |-> r.subject,
                    until |-> clock + Validity, approved |-> approved,
                    amount |-> r.amount]
    /\ requests' = requests \ {r}
    /\ UNCHANGED <<clock, mandate, seen, sent, late, changes>>

RecordCallback(r) ==
    /\ r \in requests
    /\ r.kind = "record"
    /\ Answerable(r)
    /\ mandate' = [mandate EXCEPT !.recorded = r.subject]
    /\ requests' = requests \ {r}
    /\ UNCHANGED <<clock, approval, seen, sent, late, faults, changes>>

\* The computation is aborted (6013): the request is gone without a result.
Abort(r) ==
    /\ r \in requests
    /\ Answerable(r)
    /\ faults < MaxFaults
    /\ faults' = faults + 1
    /\ requests' = requests \ {r}
    /\ UNCHANGED <<clock, mandate, approval, seen, sent, late, changes>>

-----------------------------------------------------------------------------
(* The subscriber, and time                                                *)

Change ==
    /\ mandate.active
    /\ changes < MaxChanges
    /\ changes' = changes + 1
    /\ UNCHANGED <<clock, requests, seen, sent, late, faults>>

\* buildSchedulePlanChangeInstruction passes no date: the program chooses it.
SchedulePlanChange(p) ==
    /\ Change
    /\ p # mandate.plan
    /\ \E at \in {clock + 1, mandate.due} :
         /\ at < MaxTime
         /\ mandate' = [mandate EXCEPT !.pending = [plan |-> p, at |-> at]]
    /\ UNCHANGED approval

CancelPlanChange ==
    /\ Change
    /\ mandate.pending # None
    /\ mandate' = [mandate EXCEPT !.pending = None]
    /\ UNCHANGED approval

\* buildUpdateMandatePlanInstruction: the plan changes at once.  The approval is
\* writable; whether the program drops it is not the SDK's to know.
UpdateMandatePlan(p) ==
    /\ Change
    /\ p # mandate.plan
    /\ mandate' = [mandate EXCEPT !.plan = p, !.amount = Price[p], !.pending = None]
    /\ approval' \in {approval, None}

CancelMandate ==
    /\ Change
    /\ mandate' = [mandate EXCEPT !.active = FALSE]
    /\ UNCHANGED approval

Tick ==
    /\ clock < MaxTime
    /\ clock' = clock + 1
    /\ UNCHANGED <<mandate, approval, requests, seen, sent, late, faults, changes>>

-----------------------------------------------------------------------------
Keep(k) ==
    Observe(k) \/ RequestValidation(k) \/ ExecutePull(k) \/ RequestBillingRecord(k)

Callback ==
    \E r \in requests : ValidationCallback(r, TRUE) \/ RecordCallback(r)

Step ==
    \/ \E k \in Keepers : Keep(k) \/ BuilderThrows(k) \/ Land(k) \/ TimeOut(k)
    \/ \E t \in late : LandLate(t) \/ Vanish(t)
    \/ Callback
    \/ \E r \in requests : ValidationCallback(r, FALSE) \/ Abort(r)
    \/ \E p \in Plans : SchedulePlanChange(p) \/ UpdateMandatePlan(p)
    \/ CancelPlanChange
    \/ CancelMandate
    \/ Tick

Next == Step /\ UNCHANGED skew

\* A keeper goes on while there is something to do, what it waits for lands, and
\* the cluster answers.
Fairness ==
    /\ \A k \in Keepers : WF_vars(Keep(k) /\ UNCHANGED skew) /\ WF_vars(Land(k) /\ UNCHANGED skew)
    /\ WF_vars(Callback /\ UNCHANGED skew)
    /\ WF_vars(Tick /\ UNCHANGED skew)

Spec == Init /\ [][Next]_vars /\ Fairness

-----------------------------------------------------------------------------
(* Properties                                                              *)

InFlight == ({sent[k] : k \in Keepers} \ {None}) \cup late

\* What can have made the program refuse t although the SDK's checks passed when
\* its keeper looked: something that changed since, or the keeper's clock.
HasCause(t, code) ==
    LET seenM == t.look.mandate
        Waited == clock > t.look.at
        Behind == skew[t.by] < 0
        Ahead == skew[t.by] > 0
    IN CASE code = 0 -> seenM.plan # mandate.plan
         [] code = 6000 -> Ahead \/ seenM.due # mandate.due
         [] code = 6001 -> seenM.active
         [] code = 6002 -> seenM.pulls # mandate.pulls
         [] code = 6008 -> Waited \/ Behind
         [] code = 6011 -> \/ t.look.approval # approval
                           \/ seenM.due # mandate.due
                           \/ seenM.amount # mandate.amount
         [] code = 6012 -> Waited \/ Behind
         [] code = 6016 -> \/ t.look.approval # approval \/ Ahead
                           \/ seenM.amount # mandate.amount
         [] code = 6019 -> seenM.pulls # mandate.pulls
         [] code = 6020 -> seenM.recorded # mandate.recorded
         [] code = 6024 -> \/ seenM.due # mandate.due
                           \/ seenM.pulls # mandate.pulls
                           \/ seenM.validationNonce # mandate.validationNonce
                           \/ seenM.billingNonce # mandate.billingNonce
         [] code = 6062 -> TRUE
         [] code = 12715 -> \/ t.pending # mandate.pending
                            \/ clock > t.builtAt \/ Behind

\* A transaction built from what the SDK's checks accepted is refused only when
\* the mandate or its approval changed after they read it, when time passed, or
\* when the keeper's clock is off; a request that is already queued (6062) is
\* nothing the checks look at.
RefusalHasCause == \A t \in InFlight : \A code \in Refusals(t) : HasCause(t, code)

\* The program would take a pull from keeper k, if it appends the right account.
Payable(k) ==
    \E p \in Plans \cup {None} :
        PullRefusals([look |-> seen[k], pendingPlan |-> p]) = {}

\* Why keeper k may not know: what it saw has been settled, replaced or changed
\* since, or its clock showed a time before the due date or shows one to come.
NotSeen(k) ==
    LET l == seen[k]
    IN \/ l.approval # approval
       \/ l.mandate.due # mandate.due
       \/ l.mandate.amount # mandate.amount
       \/ l.mandate.recorded # mandate.recorded
       \/ l.now < l.mandate.due
       \/ l.now > clock

\* The other way round: the SDK's checks hold back no pull the program would
\* take, unless the keeper's look is out of date or its clock is off.
PayableIsSeen ==
    \A k \in Keepers :
        seen[k] # None /\ Payable(k) /\ CalledFor(seen[k], seen[k].now) # "pull" => NotSeen(k)

\* As long as keepers go on and transactions land, every period is charged and
\* recorded unless the mandate is cancelled or expires: no stale offset, no
\* missing account of a pending plan and no lost request blocks it for good.
BillingCompletes == <>[]Finished(mandate, clock)
=============================================================================
