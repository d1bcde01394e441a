------------------------- MODULE BillingCycleProofs -------------------------
(***************************************************************************)
(* Proofs about BillingCycle, for any number of keepers, plans, periods,   *)
(* faults and changes of the plan, and clocks that are off by any amount.  *)
(***************************************************************************)
EXTENDS BillingCycle, TLAPS

-----------------------------------------------------------------------------
(* The invariant                                                           *)

\* Pulls are recorded after they happen; an approval is for a period that is,
\* or was, the next one.
Accounts ==
    /\ mandate.recorded <= mandate.pulls
    /\ approval # None =>
          /\ approval.start = approval.end - Frequency
          /\ approval.end <= mandate.due

\* What the clock of k shows when the chain's shows time.
ClockOf(k, time) == IF time = MaxTime THEN time ELSE time + skew[k]

\* What keeper k saw is the past of what there is now.
SawThePast(l, k) ==
    /\ l.at <= clock
    /\ l.now = ClockOf(k, l.at)
    /\ l.mandate.expiry = mandate.expiry
    /\ mandate.active => l.mandate.active
    /\ l.mandate.pulls <= mandate.pulls
    /\ l.mandate.recorded <= mandate.recorded
    /\ l.mandate.due <= mandate.due
    /\ l.mandate.recorded <= l.mandate.pulls
    /\ l.approval # None =>
          /\ l.approval.start = l.approval.end - Frequency
          /\ l.approval.end <= l.mandate.due
    /\ approval # None => approval = l.approval \/ approval.until >= l.at

\* A transaction was built from a look that called for it.
BuiltFromLook(t) ==
    /\ SawThePast(t.look, t.by)
    /\ CalledFor(t.look, t.look.now) = t.op
    /\ t.builtAt <= clock
    /\ t.op = "validate" =>
          /\ t.subject = t.look.mandate.due
          /\ t.offset = ValidationOffset(t.look.mandate)
    /\ t.op = "record" =>
          /\ t.look.mandate.pulls <= t.subject /\ t.subject <= mandate.pulls
          /\ t.offset = BillingOffset(t.look.mandate)
    /\ t.op = "pull" /\ t.pending # None /\ ClockOf(t.by, t.builtAt) >= t.pending.at =>
          t.pendingPlan = t.pending.plan

Looks == \A k \in Keepers : seen[k] # None => SawThePast(seen[k], k)

BillingInv ==
    /\ TypeOK
    /\ Accounts
    /\ Looks
    /\ \A t \in InFlight : BuiltFromLook(t)

-----------------------------------------------------------------------------
(* What lands                                                              *)

\* A pull that is not refused is due, approved, in order, of a mandate that is
\* active and not over, and carries the plan of a change in force.
LEMMA PullLands ==
    ASSUME NEW t, PullRefusals(t) = {}
    PROVE  /\ ~(clock < mandate.due) /\ ~(mandate.pulls >= MaxPulls) /\ mandate.active
           /\ ApprovalCovers /\ ~(mandate.recorded < mandate.pulls)
           /\ ~(mandate.expiry > 0 /\ clock > mandate.expiry) /\ ~(approval.until < clock)
           /\ InForce(mandate) => t.pendingPlan = mandate.pending.plan
  <1> DEFINE R(code) == code \notin PullRefusals(t)
  <1>1. R(6000) /\ R(6001) /\ R(6002) /\ R(6008) /\ R(6011) /\ R(6012) /\ R(6019) /\ R(12715)
    OBVIOUS
  <1>2. R(6000) => ~(clock < mandate.due)
    BY DEF PullRefusals
  <1>3. R(6002) => ~(mandate.pulls >= MaxPulls)
    BY DEF PullRefusals
  <1>4. R(6011) => ApprovalCovers
    BY DEF PullRefusals
  <1>5. R(6019) => ~(mandate.recorded < mandate.pulls)
    BY DEF PullRefusals
  <1>6. R(12715) => (InForce(mandate) => t.pendingPlan = mandate.pending.plan)
    BY DEF PullRefusals
  <1>7. R(6001) => mandate.active
    BY DEF PullRefusals
  <1>8. R(6008) => ~(mandate.expiry > 0 /\ clock > mandate.expiry)
    BY DEF PullRefusals
  <1>9. R(6011) /\ R(6012) => ~(approval.until < clock)
    BY DEF PullRefusals, ApprovalCovers
  <1> HIDE DEF R
  <1>10. QED
    BY <1>1, <1>2, <1>3, <1>4, <1>5, <1>6, <1>7, <1>8, <1>9

\* What an executed transaction does to the counters of the mandate.
Charged ==
    /\ mandate.recorded = mandate.pulls
    /\ mandate'.pulls = mandate.pulls + 1 /\ mandate'.due = mandate.due + Frequency
    /\ mandate'.recorded = mandate.recorded

Untouched ==
    /\ mandate'.pulls = mandate.pulls /\ mandate'.due = mandate.due
    /\ mandate'.recorded = mandate.recorded

\* An executed transaction charges one period in order, or leaves the counters.
LEMMA ExecuteStep ==
    ASSUME BillingInv, NEW t \in Tx, Execute(t)
    PROVE  /\ mandate' \in Mandate /\ requests' \subseteq Requests
           /\ mandate'.expiry = mandate.expiry /\ (mandate'.active => mandate.active)
           /\ Charged \/ Untouched
  <1>0. /\ mandate \in Mandate /\ requests \subseteq Requests /\ clock \in Nat
        /\ approval \in Approval \cup {None} /\ t.subject \in Nat
        /\ Accounts /\ Price \in [Plans -> Nat] /\ Frequency \in Nat /\ MaxPulls \in Nat
    BY BillingAssumption DEF BillingInv, TypeOK, Tx
  <1>1. /\ mandate.pulls \in Nat /\ mandate.due \in Nat /\ mandate.recorded \in Nat
        /\ mandate.amount \in Nat /\ mandate.validationNonce \in Nat /\ mandate.billingNonce \in Nat
        /\ mandate.pending \in Pending \cup {None}
    BY <1>0 DEF Mandate
  <1>2. CASE UNCHANGED <<mandate, requests>>
    BY <1>0, <1>2 DEF Untouched
  <1>3. CASE t.op = "validate" /\ QueueValidation(t)
    <2>1. [kind |-> "validation", subject |-> t.subject, amount |-> mandate.amount] \in Requests
      BY <1>0, <1>1 DEF Requests
    <2>2. QED
      BY <1>0, <1>1, <1>3, <2>1 DEF QueueValidation, Untouched, Mandate
  <1>4. CASE t.op = "record" /\ QueueRecord(t)
    <2>1. [kind |-> "record", subject |-> t.subject, amount |-> 0] \in Requests
      BY <1>0, <1>1 DEF Requests
    <2>2. QED
      BY <1>0, <1>1, <1>4, <2>1 DEF QueueRecord, Untouched, Mandate
  <1>5. CASE t.op = "pull" /\ Charge(t) /\ PullRefusals(t) = {}
    <2>1. /\ mandate.recorded = mandate.pulls
          /\ InForce(mandate) => t.pendingPlan = mandate.pending.plan
      BY <1>0, <1>1, <1>5, PullLands DEF Accounts
    <2>3. InForce(mandate) => t.pendingPlan \in Plans /\ Price[t.pendingPlan] \in Nat
      BY <1>0, <1>1, <2>1 DEF InForce, Pending
    <2> DEFINE charged == [mandate EXCEPT !.pulls = @ + 1, !.due = @ + Frequency]
    <2>c. /\ charged \in Mandate
          /\ charged.pulls = mandate.pulls + 1 /\ charged.due = mandate.due + Frequency
          /\ charged.recorded = mandate.recorded /\ charged.expiry = mandate.expiry
          /\ charged.active = mandate.active
      <3>1. mandate.pulls + 1 \in Nat /\ mandate.due + Frequency \in Nat
        BY <1>0, <1>1
      <3>2. QED
        BY <1>0, <3>1 DEF Mandate
    <2>d. mandate' = IF InForce(mandate)
                     THEN [charged EXCEPT !.plan = t.pendingPlan,
                                          !.amount = Price[t.pendingPlan],
                                          !.pending = None]
                     ELSE charged
      BY <1>5 DEF Charge
    <2>e. UNCHANGED requests
      BY <1>5 DEF Charge
    <2> HIDE DEF charged
    <2>4. CASE InForce(mandate)
      <3>1. mandate' = [charged EXCEPT !.plan = t.pendingPlan,
                                       !.amount = Price[t.pendingPlan], !.pending = None]
        BY <2>4, <2>d
      <3>2. mandate' \in Mandate
        BY <2>3, <2>4, <2>c, <3>1 DEF Mandate
      <3>3. /\ mandate'.pulls = charged.pulls /\ mandate'.due = charged.due
            /\ mandate'.recorded = charged.recorded /\ mandate'.expiry = charged.expiry
            /\ mandate'.active = charged.active
        BY <2>c, <3>1 DEF Mandate
      <3>4. QED
        BY <1>0, <2>1, <2>c, <2>e, <3>2, <3>3 DEF Charged
    <2>5. CASE ~InForce(mandate)
      BY <1>0, <2>1, <2>5, <2>c, <2>d, <2>e DEF Charged
    <2>6. QED
      BY <2>4, <2>5
  <1>6. QED
    BY <1>2, <1>3, <1>4, <1>5 DEF Execute, Refusals, Tx

-----------------------------------------------------------------------------
(* What a step leaves                                                      *)

\* The chain moves on: nothing is charged, recorded or put back, and an approval
\* is replaced by a later one only.
Grows ==
    /\ clock <= clock' /\ clock' \in Nat /\ skew' = skew
    /\ mandate' \in Mandate
    /\ mandate.pulls <= mandate'.pulls /\ mandate.due <= mandate'.due
    /\ mandate.recorded <= mandate'.recorded /\ mandate'.expiry = mandate.expiry
    /\ mandate'.active => mandate.active
    /\ approval' \in Approval \cup {None}
    /\ approval' # None => approval' = approval \/ approval'.until >= clock

\* What was the past stays the past,
LEMMA PastStays ==
    ASSUME BillingInv, Grows, NEW k \in Keepers, NEW l \in Look, SawThePast(l, k)
    PROVE  SawThePast(l, k)'
  <1>1. /\ clock \in Nat /\ clock' \in Nat /\ l.at \in Nat
        /\ mandate \in Mandate /\ mandate' \in Mandate /\ l.mandate \in Mandate
        /\ approval' \in Approval \cup {None}
    BY DEF BillingInv, TypeOK, Grows, Look
  <1>2. /\ mandate.pulls \in Nat /\ mandate.due \in Nat /\ mandate.recorded \in Nat
        /\ mandate'.pulls \in Nat /\ mandate'.due \in Nat /\ mandate'.recorded \in Nat
        /\ l.mandate.pulls \in Nat /\ l.mandate.due \in Nat /\ l.mandate.recorded \in Nat
    BY <1>1 DEF Mandate
  <1>3. ClockOf(k, l.at)' = ClockOf(k, l.at)
    BY DEF ClockOf, Grows
  <1>4. approval' # None => approval' = l.approval \/ approval'.until >= l.at
    <2>1. CASE approval' = approval
      BY <2>1 DEF SawThePast
    <2>2. CASE approval' # None /\ approval'.until >= clock
      <3>1. approval'.until \in Int
        BY <1>1, <2>2 DEF Approval
      <3>2. QED
        BY <1>1, <2>2, <3>1 DEF SawThePast
    <2>3. QED
      BY <2>1, <2>2 DEF Grows
  <1>5. /\ l.at <= clock' /\ l.mandate.pulls <= mandate'.pulls
        /\ l.mandate.recorded <= mandate'.recorded /\ l.mandate.due <= mandate'.due
    BY <1>1, <1>2 DEF Grows, SawThePast
  <1>6. QED
    BY <1>3, <1>4, <1>5 DEF Grows, SawThePast

\* and what was built from it stays so.
LEMMA BuiltStays ==
    ASSUME BillingInv, Grows, NEW t \in Tx, BuiltFromLook(t)
    PROVE  BuiltFromLook(t)'
  <1>1. /\ t.look \in Look /\ t.by \in Keepers /\ t.builtAt \in Nat /\ t.subject \in Nat
        /\ clock \in Nat /\ clock' \in Nat /\ mandate \in Mandate /\ mandate' \in Mandate
    BY DEF BillingInv, TypeOK, Grows, Tx
  <1>2. SawThePast(t.look, t.by)'
    BY <1>1, PastStays DEF BuiltFromLook
  <1>3. t.builtAt <= clock'
    BY <1>1 DEF BuiltFromLook, Grows
  <1>4. mandate.pulls \in Nat /\ mandate'.pulls \in Nat
    BY <1>1 DEF Mandate
  <1>5. t.op = "record" => t.subject <= mandate'.pulls
    BY <1>1, <1>4 DEF BuiltFromLook, Grows
  <1>6. ClockOf(t.by, t.builtAt)' = ClockOf(t.by, t.builtAt)
    BY DEF ClockOf, Grows
  <1>7. QED
    BY <1>2, <1>3, <1>5, <1>6 DEF BuiltFromLook

\* What a keeper and the transactions under way were before a step, or are made
\* by it, still fits the accounts before it.
Carried ==
    /\ seen' \in [Keepers -> Look \cup {None}]
    /\ sent' \in [Keepers -> Tx \cup {None}]
    /\ late' \subseteq Tx
    /\ \A k \in Keepers : \A l \in Look : seen'[k] = l /\ l # None => SawThePast(l, k)
    /\ \A t \in Tx : t \in InFlight' => BuiltFromLook(t)

\* A step that leaves the keepers alone carries everything over.
LEMMA KeepersAlone ==
    ASSUME BillingInv, UNCHANGED <<seen, sent, late>>
    PROVE  Carried
  BY DEF Carried, BillingInv, TypeOK, Looks, InFlight

\* So does one that drops something.
LEMMA FewerCarried ==
    ASSUME BillingInv, NEW k \in Keepers, NEW t,
           \/ seen' = seen
           \/ seen' = [seen EXCEPT ![k] = None],
           \/ /\ sent' = sent /\ late' = late \ {t}
           \/ /\ sent' = [sent EXCEPT ![k] = None]
              /\ late' = late \/ (sent[k] # None /\ late' = late \cup {sent[k]})
           \/ UNCHANGED <<sent, late>>
    PROVE  Carried
  <1>0. /\ seen \in [Keepers -> Look \cup {None}] /\ sent \in [Keepers -> Tx \cup {None}]
        /\ late \subseteq Tx
    BY DEF BillingInv, TypeOK
  <1>1. /\ seen' \in [Keepers -> Look \cup {None}]
        /\ \A j \in Keepers : seen'[j] # None => seen'[j] = seen[j]
    BY <1>0
  <1>2. /\ sent' \in [Keepers -> Tx \cup {None}] /\ late' \subseteq Tx
        /\ InFlight' \subseteq InFlight
    <2>1. CASE sent' = sent /\ late' = late \ {t}
      BY <1>0, <2>1 DEF InFlight
    <2>2. CASE UNCHANGED <<sent, late>>
      BY <1>0, <2>2 DEF InFlight
    <2>3. CASE /\ sent' = [sent EXCEPT ![k] = None]
               /\ late' = late \/ (sent[k] # None /\ late' = late \cup {sent[k]})
      <3>1. sent' \in [Keepers -> Tx \cup {None}] /\ late' \subseteq Tx
        BY <1>0, <2>3
      <3>2. late' \subseteq InFlight
        BY <1>0, <2>3 DEF InFlight
      <3>3. \A j \in Keepers : sent'[j] # None => sent'[j] = sent[j]
        BY <1>0, <2>3
      <3>4. QED
        BY <3>1, <3>2, <3>3 DEF InFlight
    <2>4. QED
      BY <2>1, <2>2, <2>3
  <1>3. QED
    BY <1>1, <1>2 DEF Carried, BillingInv, Looks

\* A new look fits the accounts it was taken from.
LEMMA ObserveCarries ==
    ASSUME BillingInv, NEW k \in Keepers, Observe(k)
    PROVE  Carried
  <1> DEFINE look == [mandate |-> mandate, approval |-> approval, at |-> clock, now |-> Now(k)]
  <1>1. /\ seen' = [seen EXCEPT ![k] = look] /\ UNCHANGED <<sent, late>>
        /\ seen \in [Keepers -> Look \cup {None}]
        /\ mandate \in Mandate /\ approval \in Approval \cup {None} /\ clock \in Nat
        /\ skew[k] \in Int
    BY BillingAssumption DEF Observe, BillingInv, TypeOK
  <1>2. Now(k) \in Int /\ Now(k) = ClockOf(k, clock)
    BY <1>1 DEF Now, ClockOf
  <1>3. look \in Look
    BY <1>1, <1>2 DEF Look
  <1>4. mandate.pulls \in Nat /\ mandate.due \in Nat /\ mandate.recorded \in Nat
    BY <1>1 DEF Mandate
  <1>5. SawThePast(look, k)
    BY <1>1, <1>2, <1>4 DEF SawThePast, BillingInv, Accounts
  <1> HIDE DEF look
  <1>6. seen' \in [Keepers -> Look \cup {None}]
    BY <1>1, <1>3
  <1>7. \A j \in Keepers : \A l \in Look : seen'[j] = l /\ l # None => SawThePast(l, j)
    BY <1>1, <1>5 DEF BillingInv, Looks
  <1>8. QED
    BY <1>1, <1>6, <1>7 DEF Carried, BillingInv, TypeOK, InFlight

\* A transaction is built from what its keeper saw.
LEMMA SendCarries ==
    ASSUME BillingInv, NEW k \in Keepers, NEW op \in {"validate", "pull", "record"},
           NEW subject \in Nat, NEW offset \in Nat \X Nat, NEW plan \in Plans \cup {None},
           Decides(k, op), SendTx(k, op, subject, offset, plan),
           op = "validate" => /\ subject = seen[k].mandate.due
                              /\ offset = ValidationOffset(seen[k].mandate),
           op = "record" => /\ seen[k].mandate.pulls <= subject
                            /\ subject <= mandate.pulls
                            /\ offset = BillingOffset(seen[k].mandate),
           op = "pull" /\ mandate.pending # None /\ ClockOf(k, clock) >= mandate.pending.at =>
               plan = mandate.pending.plan
    PROVE  Carried
  <1> DEFINE tx == [op |-> op, by |-> k, look |-> seen[k], subject |-> subject,
                    offset |-> offset, pendingPlan |-> plan,
                    builtAt |-> clock, pending |-> mandate.pending]
  <1>1. /\ sent' = [sent EXCEPT ![k] = tx] /\ seen' = [seen EXCEPT ![k] = None] /\ late' = late
        /\ seen \in [Keepers -> Look \cup {None}] /\ sent \in [Keepers -> Tx \cup {None}]
        /\ late \subseteq Tx
        /\ mandate \in Mandate /\ clock \in Nat
        /\ seen[k] # None /\ CalledFor(seen[k], seen[k].now) = op
    BY DEF SendTx, Decides, BillingInv, TypeOK
  <1>2. seen[k] \in Look /\ SawThePast(seen[k], k) /\ mandate.pending \in Pending \cup {None}
    BY <1>1 DEF BillingInv, Looks, Mandate
  <1>3. tx \in Tx
    BY <1>1, <1>2 DEF Tx
  <1>4. BuiltFromLook(tx)
    BY <1>1, <1>2 DEF BuiltFromLook
  <1> HIDE DEF tx
  <1>5. /\ seen' \in [Keepers -> Look \cup {None}] /\ sent' \in [Keepers -> Tx \cup {None}]
        /\ \A j \in Keepers : seen'[j] # None => seen'[j] = seen[j]
    BY <1>1, <1>3
  <1>6. InFlight' \subseteq InFlight \cup {tx}
    <2>1. \A j \in Keepers : sent'[j] = tx \/ sent'[j] = sent[j]
      BY <1>1
    <2>2. QED
      BY <1>1, <2>1 DEF InFlight
  <1>7. QED
    BY <1>1, <1>4, <1>5, <1>6 DEF Carried, BillingInv, Looks

-----------------------------------------------------------------------------
(* One step                                                                *)

\* What is to be shown of every step.
Keeps == /\ Grows /\ Carried /\ Accounts'
         /\ clock' \in 0..MaxTime /\ requests' \subseteq Requests
         /\ faults' \in 0..MaxFaults /\ changes' \in 0..MaxChanges

\* A step of a keeper leaves the chain alone.
LEMMA ChainAlone ==
    ASSUME BillingInv, Carried, UNCHANGED <<skew, chainVars, changes>>,
           faults' \in 0..MaxFaults
    PROVE  Keeps
  <1>1. /\ mandate \in Mandate /\ approval \in Approval \cup {None} /\ clock \in Nat
        /\ UNCHANGED <<skew, clock, mandate, approval, requests, changes>>
    BY DEF BillingInv, TypeOK, chainVars
  <1>2. mandate.pulls \in Nat /\ mandate.due \in Nat /\ mandate.recorded \in Nat
    BY <1>1 DEF Mandate
  <1>3. Grows
    BY <1>1, <1>2 DEF Grows
  <1>4. QED
    BY <1>1, <1>3 DEF Keeps, BillingInv, TypeOK, Accounts

\* Keepers look, build and wait.
LEMMA KeeperSteps ==
    ASSUME BillingInv, skew' = skew, NEW k \in Keepers,
           Keep(k) \/ BuilderThrows(k) \/ TimeOut(k)
    PROVE  Keeps
  <1>0. /\ mandate \in Mandate /\ clock \in Nat /\ faults \in 0..MaxFaults /\ skew[k] \in Int
        /\ MaxFaults \in Nat /\ seen \in [Keepers -> Look \cup {None}]
        /\ late \subseteq Tx /\ sent \in [Keepers -> Tx \cup {None}]
    <2>1. TypeOK /\ Skews \subseteq Int /\ MaxFaults \in Nat
      BY BillingAssumption DEF BillingInv
    <2>2. skew \in [Keepers -> Skews]
      BY <2>1 DEF TypeOK
    <2>3. skew[k] \in Int
      BY <2>1, <2>2
    <2>4. QED
      BY <2>1, <2>3 DEF TypeOK
  <1>1. CASE Observe(k)
    BY <1>1, ObserveCarries, ChainAlone, <1>0 DEF Observe
  <1>2. ASSUME NEW op, Decides(k, op)
        PROVE  /\ seen[k].mandate \in Mandate
               /\ ValidationOffset(seen[k].mandate) \in Nat \X Nat
               /\ BillingOffset(seen[k].mandate) \in Nat \X Nat
               /\ seen[k].mandate.pulls <= mandate.pulls
               /\ seen[k].mandate.pulls \in Nat /\ seen[k].mandate.due \in Nat
    <2>1. PICK m \in Mandate : m = seen[k].mandate
      BY <1>0, <1>2 DEF Decides, Look
    <2>2. m.due \in Nat /\ m.validationNonce + 1 \in Nat /\ m.pulls \in Nat /\ m.billingNonce + 1 \in Nat
      BY DEF Mandate
    <2>3. QED
      BY <1>2, <2>1, <2>2 DEF Decides, BillingInv, Looks, SawThePast, ValidationOffset, BillingOffset
  <1>3. ASSUME NEW op \in {"validate", "pull", "record"}, NEW subject, NEW offset, NEW plan,
               SendTx(k, op, subject, offset, plan), Carried
        PROVE  Keeps
    BY <1>0, <1>3, ChainAlone DEF SendTx
  <1>4. CASE RequestValidation(k)
    <2>1. Decides(k, "validate") /\ SendTx(k, "validate", seen[k].mandate.due,
                                           ValidationOffset(seen[k].mandate), None)
      BY <1>4 DEF RequestValidation
    <2>2. Carried
      BY <1>2, <2>1, SendCarries
    <2>3. QED
      BY <1>3, <2>1, <2>2
  <1>5. CASE ExecutePull(k)
    <2>1. Decides(k, "pull") /\ SendTx(k, "pull", seen[k].mandate.pulls, <<0, 0>>, PendingPlanKey(k))
      BY <1>5 DEF ExecutePull
    <2>2. mandate.pending \in Pending \cup {None}
      BY <1>0 DEF Mandate
    <2>3. /\ PendingPlanKey(k) \in Plans \cup {None}
          /\ mandate.pending # None /\ ClockOf(k, clock) >= mandate.pending.at =>
                 PendingPlanKey(k) = mandate.pending.plan
      BY <1>0, <2>2 DEF PendingPlanKey, Pending, ClockOf, Now
    <2>4. Carried
      BY <1>2, <2>1, <2>3, SendCarries
    <2>5. QED
      BY <1>3, <2>1, <2>4
  <1>6. CASE RequestBillingRecord(k)
    <2>1. Decides(k, "record") /\ SendTx(k, "record", mandate.pulls, BillingOffset(seen[k].mandate), None)
      BY <1>6 DEF RequestBillingRecord
    <2>2. mandate.pulls \in Nat
      BY <1>0 DEF Mandate
    <2>3. Carried
      BY <1>2, <2>1, <2>2, SendCarries
    <2>4. QED
      BY <1>3, <2>1, <2>3
  <1>7. CASE BuilderThrows(k)
    <2>1. faults' \in 0..MaxFaults
      BY <1>0, <1>7 DEF BuilderThrows
    <2>2. Carried
      BY <1>7, FewerCarried DEF BuilderThrows
    <2>3. QED
      BY <1>7, <2>1, <2>2, ChainAlone DEF BuilderThrows
  <1>8. CASE TimeOut(k)
    <2>1. faults' \in 0..MaxFaults
      BY <1>0, <1>8 DEF TimeOut
    <2>2. Carried
      BY <1>8, FewerCarried DEF TimeOut
    <2>3. QED
      BY <1>8, <2>1, <2>2, ChainAlone DEF TimeOut
  <1>9. QED
    BY <1>1, <1>4, <1>5, <1>6, <1>7, <1>8 DEF Keep

\* A transaction lands.
LEMMA LandingKeeps ==
    ASSUME BillingInv, skew' = skew, NEW t \in Tx, Execute(t), Carried,
           UNCHANGED <<faults, changes>>
    PROVE  Keeps
  <1>0. /\ mandate \in Mandate /\ approval \in Approval \cup {None} /\ clock \in Nat
        /\ UNCHANGED <<clock, approval>> /\ Frequency \in Nat
        /\ mandate' \in Mandate
    <2>1. UNCHANGED <<clock, approval>>
      BY DEF Execute
    <2>2. mandate' \in Mandate
      BY ExecuteStep
    <2>3. QED
      BY <2>1, <2>2, BillingAssumption DEF BillingInv, TypeOK
  <1>1. /\ mandate.pulls \in Nat /\ mandate.due \in Nat /\ mandate.recorded \in Nat
        /\ mandate'.pulls \in Nat /\ mandate'.due \in Nat /\ mandate'.recorded \in Nat
    BY <1>0 DEF Mandate
  <1>2. Charged \/ Untouched
    BY ExecuteStep
  <1>3. /\ mandate.pulls <= mandate'.pulls /\ mandate.due <= mandate'.due
        /\ mandate.recorded = mandate'.recorded /\ mandate'.expiry = mandate.expiry
        /\ mandate'.active => mandate.active
    BY <1>0, <1>1, <1>2, ExecuteStep DEF Charged, Untouched
  <1>4. Grows
    BY <1>0, <1>1, <1>3 DEF Grows
  <1>5. Accounts'
    <2>1. approval # None => approval.end \in Int /\ approval.end <= mandate'.due
      BY <1>0, <1>1, <1>3 DEF BillingInv, Accounts, Approval
    <2>2. QED
      BY <1>0, <1>1, <1>3, <2>1 DEF BillingInv, Accounts
  <1>6. QED
    BY <1>0, <1>4, <1>5, ExecuteStep DEF Keeps, BillingInv, TypeOK

\* A step that changes the account of the approval, the terms of the mandate or
\* what is pending, and none of its counters.
LEMMA TermsChange ==
    ASSUME BillingInv, Carried, skew' = skew, clock' = clock,
           requests' \subseteq Requests, mandate' \in Mandate,
           mandate'.expiry = mandate.expiry, mandate'.active => mandate.active, Untouched, approval' \in {approval, None},
           faults' \in 0..MaxFaults, changes' \in 0..MaxChanges
    PROVE  Keeps
  <1>1. /\ mandate \in Mandate /\ approval \in Approval \cup {None} /\ clock \in Nat
    BY DEF BillingInv, TypeOK
  <1>2. mandate.pulls \in Nat /\ mandate.due \in Nat /\ mandate.recorded \in Nat
    BY <1>1 DEF Mandate
  <1>3. Grows
    BY <1>1, <1>2 DEF Grows, Untouched
  <1>4. Accounts'
    BY <1>1 DEF BillingInv, Accounts, Untouched
  <1>5. QED
    BY <1>3, <1>4 DEF Keeps, BillingInv, TypeOK

\* A transaction lands, or is given up for good.
LEMMA ChainSteps ==
    ASSUME BillingInv, skew' = skew,
           \/ \E k \in Keepers : Land(k)
           \/ \E t \in late : LandLate(t) \/ Vanish(t)
    PROVE  Keeps
  <1>0. sent \in [Keepers -> Tx \cup {None}] /\ late \subseteq Tx /\ faults \in 0..MaxFaults
    BY DEF BillingInv, TypeOK
  <1>1. ASSUME NEW k \in Keepers, Land(k) PROVE Keeps
    <2>1. PICK t \in Tx : t = sent[k]
      BY <1>0, <1>1 DEF Land
    <2>2. Carried
      BY <1>1, FewerCarried DEF Land
    <2>3. QED
      BY <1>1, <2>1, <2>2, LandingKeeps DEF Land
  <1>2. ASSUME NEW k \in Keepers, NEW t \in late, LandLate(t) PROVE Keeps
    <2>1. Carried
      BY <1>2, FewerCarried DEF LandLate
    <2>2. QED
      BY <1>0, <1>2, <2>1, LandingKeeps DEF LandLate
  <1>3. ASSUME NEW k \in Keepers, NEW t \in late, Vanish(t) PROVE Keeps
    <2>1. Carried
      BY <1>3, FewerCarried DEF Vanish
    <2>2. QED
      BY <1>0, <1>3, <2>1, ChainAlone DEF Vanish
  <1>4. ASSUME NEW t \in late, LandLate(t) \/ Vanish(t) PROVE \E k \in Keepers : TRUE
    BY <1>0, <1>4 DEF Tx
  <1>5. QED
    BY <1>1, <1>2, <1>3, <1>4

\* The cluster answers, or aborts.
LEMMA CallbackSteps ==
    ASSUME BillingInv, skew' = skew, NEW r \in requests, NEW approved \in BOOLEAN,
           ValidationCallback(r, approved) \/ RecordCallback(r) \/ Abort(r)
    PROVE  Keeps
  <1>0. /\ mandate \in Mandate /\ approval \in Approval \cup {None} /\ clock \in 0..MaxTime
        /\ requests \subseteq Requests
        /\ faults \in 0..MaxFaults /\ changes \in 0..MaxChanges
        /\ Accounts /\ Frequency \in Nat /\ Validity \in Nat /\ MaxFaults \in Nat /\ MaxTime \in Nat
    BY BillingAssumption DEF BillingInv, TypeOK
  <1>1. /\ mandate.pulls \in Nat /\ mandate.due \in Nat /\ mandate.recorded \in Nat
        /\ r \in Requests /\ r.subject \in Nat /\ r.amount \in Nat
    BY <1>0 DEF Mandate, Requests
  <1>2. Carried
    BY KeepersAlone DEF ValidationCallback, RecordCallback, Abort
  <1>3. faults' \in 0..MaxFaults /\ changes' \in 0..MaxChanges /\ requests' \subseteq Requests
    BY <1>0 DEF ValidationCallback, RecordCallback, Abort
  <1>4. CASE ValidationCallback(r, approved)
    <2> DEFINE a == [start |-> r.subject - Frequency, end |-> r.subject,
                     until |-> clock + Validity, approved |-> approved, amount |-> r.amount]
    <2>1. /\ approval' = a /\ r.subject = mandate.due
          /\ UNCHANGED <<clock, mandate>>
      BY <1>4 DEF ValidationCallback, Answerable
    <2>2. a \in Approval /\ a.until >= clock
      BY <1>0, <1>1 DEF Approval
    <2>3. Grows
      BY <1>0, <1>1, <2>1, <2>2 DEF Grows
    <2>4. Accounts'
      BY <1>0, <1>1, <2>1 DEF Accounts
    <2>5. QED
      BY <1>0, <1>2, <1>3, <2>1, <2>3, <2>4 DEF Keeps
  <1>5. CASE RecordCallback(r)
    <2>1. /\ mandate' = [mandate EXCEPT !.recorded = mandate.pulls] /\ r.subject = mandate.pulls
          /\ UNCHANGED <<clock, approval>>
      BY <1>5, <1>0 DEF RecordCallback, Answerable, Requests
    <2>2. /\ mandate' \in Mandate
          /\ mandate'.recorded = mandate.pulls /\ mandate'.pulls = mandate.pulls
          /\ mandate'.due = mandate.due /\ mandate'.expiry = mandate.expiry
          /\ mandate'.active = mandate.active
      BY <1>0, <1>1, <2>1 DEF Mandate
    <2>3. Grows
      BY <1>0, <1>1, <2>1, <2>2 DEF Grows, Accounts
    <2>4. Accounts'
      BY <1>0, <1>1, <2>1, <2>2 DEF Accounts
    <2>5. QED
      BY <1>0, <1>2, <1>3, <2>1, <2>3, <2>4 DEF Keeps
  <1>6. CASE Abort(r)
    <2>1. UNCHANGED <<clock, mandate, approval>>
      BY <1>6 DEF Abort
    <2>2. Grows
      BY <1>0, <1>1, <2>1 DEF Grows
    <2>3. QED
      BY <1>0, <1>2, <1>3, <2>1, <2>2 DEF Keeps, Accounts
  <1>7. QED
    BY <1>4, <1>5, <1>6

\* The subscriber changes the plan, or cancels.
LEMMA SubscriberSteps ==
    ASSUME BillingInv, skew' = skew, NEW p \in Plans,
           SchedulePlanChange(p) \/ UpdateMandatePlan(p) \/ CancelPlanChange \/ CancelMandate
    PROVE  Keeps
  <1>0. /\ mandate \in Mandate /\ clock \in Nat /\ MaxChanges \in Nat /\ Price[p] \in Nat
        /\ faults \in 0..MaxFaults /\ changes \in 0..MaxChanges /\ requests \subseteq Requests
    BY BillingAssumption DEF BillingInv, TypeOK
  <1>1. Change
    BY DEF SchedulePlanChange, UpdateMandatePlan, CancelPlanChange, CancelMandate
  <1>2. Carried
    BY <1>1, KeepersAlone DEF Change
  <1>3. /\ clock' = clock /\ requests' \subseteq Requests
        /\ faults' \in 0..MaxFaults /\ changes' \in 0..MaxChanges
    BY <1>0, <1>1 DEF Change
  <1>4. /\ mandate' \in Mandate /\ mandate'.expiry = mandate.expiry
        /\ mandate'.active => mandate.active
        /\ Untouched /\ approval' \in {approval, None}
    <2>1. CASE SchedulePlanChange(p)
      <3>1. PICK at \in {clock + 1, mandate.due} :
                mandate' = [mandate EXCEPT !.pending = [plan |-> p, at |-> at]]
        BY <2>1 DEF SchedulePlanChange
      <3>2. [plan |-> p, at |-> at] \in Pending
        BY <1>0 DEF Pending, Mandate
      <3>3. approval' = approval
        BY <2>1 DEF SchedulePlanChange
      <3>4. QED
        BY <1>0, <3>1, <3>2, <3>3 DEF Mandate, Untouched
    <2>2. CASE UpdateMandatePlan(p)
      BY <1>0, <2>2 DEF UpdateMandatePlan, Mandate, Untouched
    <2>3. CASE CancelPlanChange
      BY <1>0, <2>3 DEF CancelPlanChange, Mandate, Untouched
    <2>4. CASE CancelMandate
      BY <1>0, <2>4 DEF CancelMandate, Mandate, Untouched
    <2>5. QED
      BY <2>1, <2>2, <2>3, <2>4
  <1>5. QED
    BY <1>2, <1>3, <1>4, TermsChange

\* Time passes.
LEMMA TickKeeps ==
    ASSUME BillingInv, skew' = skew, Tick
    PROVE  Keeps
  <1>0. /\ mandate \in Mandate /\ approval \in Approval \cup {None}
        /\ MaxTime \in Nat /\ clock \in 0..MaxTime /\ clock' = clock + 1 /\ clock < MaxTime
        /\ UNCHANGED <<mandate, approval, requests, seen, sent, late, faults, changes>>
    BY BillingAssumption DEF BillingInv, TypeOK, Tick
  <1>1. mandate.pulls \in Nat /\ mandate.due \in Nat /\ mandate.recorded \in Nat
    BY <1>0 DEF Mandate
  <1>2. Carried
    BY <1>0, KeepersAlone
  <1>3. Grows
    BY <1>0, <1>1 DEF Grows
  <1>4. QED
    BY <1>0, <1>2, <1>3 DEF Keeps, BillingInv, TypeOK, Accounts

\* Every step keeps what is to be shown of it.
LEMMA StepKeeps == BillingInv /\ [Next]_vars => Keeps
  <1> SUFFICES ASSUME BillingInv, [Next]_vars PROVE Keeps
    OBVIOUS
  <1>1. CASE UNCHANGED vars
    <2>1. UNCHANGED <<skew, chainVars, changes, faults, seen, sent, late>>
      BY <1>1 DEF vars
    <2>2. faults' \in 0..MaxFaults
      BY <2>1 DEF BillingInv, TypeOK
    <2>3. QED
      BY <2>1, <2>2, KeepersAlone, ChainAlone
  <1>2. CASE Next
    <2>0. skew' = skew /\ Step
      BY <1>2 DEF Next
    <2>1. ASSUME NEW k \in Keepers, Keep(k) \/ BuilderThrows(k) \/ TimeOut(k) PROVE Keeps
      BY <2>0, <2>1, KeeperSteps
    <2>2. ASSUME \/ \E k \in Keepers : Land(k)
                 \/ \E t \in late : LandLate(t) \/ Vanish(t)
          PROVE  Keeps
      BY <2>0, <2>2, ChainSteps
    <2>3. ASSUME NEW r \in requests,
                 \/ ValidationCallback(r, TRUE) \/ ValidationCallback(r, FALSE)
                 \/ RecordCallback(r) \/ Abort(r)
          PROVE  Keeps
      <3>1. CASE ValidationCallback(r, TRUE)
        BY <2>0, <3>1, CallbackSteps
      <3>2. CASE ValidationCallback(r, FALSE) \/ RecordCallback(r) \/ Abort(r)
        BY <2>0, <3>2, CallbackSteps
      <3>3. QED
        BY <2>3, <3>1, <3>2
    <2>4. ASSUME NEW p \in Plans, SchedulePlanChange(p) \/ UpdateMandatePlan(p) PROVE Keeps
      BY <2>0, <2>4, SubscriberSteps
    <2>5. CASE CancelPlanChange \/ CancelMandate
      BY <2>0, <2>5, SubscriberSteps, BillingAssumption
    <2>6. CASE Tick
      BY <2>0, <2>6, TickKeeps
    <2>7. QED
      BY <2>0, <2>1, <2>2, <2>3, <2>4, <2>5, <2>6 DEF Step, Callback
  <1>3. QED
    BY <1>1, <1>2

\* The invariant holds at first,
LEMMA BillingInitially == Init => BillingInv
  <1> SUFFICES ASSUME Init PROVE BillingInv
    OBVIOUS
  <1>1. TypeOK
    <2>1. mandate \in Mandate
      BY BillingAssumption DEF Init, Mandate
    <2>2. QED
      BY <2>1, BillingAssumption DEF Init, TypeOK
  <1>2. Accounts
    BY DEF Init, Accounts
  <1>3. Looks /\ InFlight = {}
    BY DEF Init, Looks, InFlight
  <1>4. QED
    BY <1>1, <1>2, <1>3 DEF BillingInv

\* and every step preserves it.
LEMMA BillingStep == BillingInv /\ [Next]_vars => BillingInv'
  <1> SUFFICES ASSUME BillingInv, [Next]_vars PROVE BillingInv'
    OBVIOUS
  <1>1. Keeps /\ Grows /\ Carried
    BY StepKeeps DEF Keeps
  <1>2. TypeOK'
    BY <1>1 DEF Keeps, Grows, Carried, BillingInv, TypeOK
  <1>3. Looks'
    <2> SUFFICES ASSUME NEW k \in Keepers, seen'[k] # None PROVE SawThePast(seen[k], k)'
      BY DEF Looks
    <2>1. PICK l \in Look : l = seen'[k]
      BY <1>2 DEF TypeOK
    <2>2. SawThePast(l, k)
      BY <1>1, <2>1 DEF Carried
    <2>3. SawThePast(l, k)'
      BY <1>1, <2>2, PastStays
    <2>4. QED
      BY <2>1, <2>3 DEF SawThePast, ClockOf
  <1>4. ASSUME NEW t \in InFlight' PROVE BuiltFromLook(t)'
    <2>1. t \in Tx
      BY <1>2 DEF TypeOK, InFlight
    <2>2. BuiltFromLook(t)
      BY <1>1, <2>1 DEF Carried
    <2>3. QED
      BY <1>1, <2>1, <2>2, BuiltStays
  <1>5. QED
    BY <1>1, <1>2, <1>3, <1>4 DEF BillingInv, Keeps

-----------------------------------------------------------------------------
(* The theorems                                                            *)

\* The invariant holds in every state that can be reached.
THEOREM BillingInvariance == Spec => []BillingInv
  BY BillingInitially, BillingStep, PTL DEF Spec

\* Every variable keeps its type.
THEOREM BillingTypeCorrect == Spec => []TypeOK
  <1>1. BillingInv => TypeOK
    BY DEF BillingInv
  <1>2. QED
    BY <1>1, BillingInvariance, PTL

-----------------------------------------------------------------------------
(* Refusals                                                                *)

\* What makes a keeper send a transaction.
LEMMA CalledForWhat ==
    ASSUME NEW l, NEW now, NEW op \in {"validate", "pull", "record"}, CalledFor(l, now) = op
    PROVE  /\ l.mandate.active
           /\ op = "record" => l.mandate.recorded < l.mandate.pulls
           /\ op = "validate" =>
                 l.approval = None \/ ~IsPullApprovalCurrent(l.approval, l.mandate, now)
           /\ op = "pull" =>
                 /\ ~(l.mandate.recorded < l.mandate.pulls)
                 /\ l.approval # None
                 /\ IsPullApprovalCurrent(l.approval, l.mandate, now)
                 /\ CanPull(l.mandate, now)
  BY DEF CalledFor, Finished

\* If no time has passed and its clock is not behind, what k took for the time
\* was not before it; if its clock is not ahead, not after it.
LEMMA ClockCauses ==
    ASSUME BillingInv, NEW k \in Keepers, NEW at \in Nat, at <= clock
    PROVE  /\ ClockOf(k, at) \in Int /\ clock \in Nat /\ skew[k] \in Int
           /\ ~(clock > at) /\ ~(skew[k] < 0) => ClockOf(k, at) >= clock
           /\ ~(skew[k] > 0) => ClockOf(k, at) <= clock
  <1>1. skew \in [Keepers -> Skews] /\ Skews \subseteq Int /\ clock \in Nat /\ MaxTime \in Nat
    BY BillingAssumption DEF BillingInv, TypeOK
  <1>2. skew[k] \in Int
    BY <1>1
  <1>3. QED
    BY <1>1, <1>2 DEF ClockOf

\* A transaction under way, and the numbers in it.
LEMMA TxParts ==
    ASSUME BillingInv, NEW t \in InFlight
    PROVE  /\ t.op \in {"validate", "pull", "record"} /\ t.by \in Keepers /\ t.builtAt \in Nat
           /\ t.look.at \in Nat /\ t.subject \in Nat
           /\ t.look.mandate \in Mandate /\ mandate \in Mandate
           /\ t.look.approval \in Approval \cup {None} /\ approval \in Approval \cup {None}
           /\ BuiltFromLook(t) /\ SawThePast(t.look, t.by)
           /\ clock \in Nat
  <1>1. t \in Tx /\ BuiltFromLook(t)
    BY DEF BillingInv, TypeOK, InFlight
  <1>2. QED
    BY <1>1 DEF BillingInv, TypeOK, Tx, Look, BuiltFromLook

\* The numbers of a mandate.
LEMMA Numbers ==
    ASSUME NEW m \in Mandate
    PROVE  /\ m.pulls \in Nat /\ m.due \in Nat /\ m.recorded \in Nat /\ m.amount \in Nat
           /\ m.expiry \in Nat /\ m.validationNonce \in Nat /\ m.billingNonce \in Nat
           /\ m.pending \in Pending \cup {None} /\ m.active \in BOOLEAN
  BY DEF Mandate

\* Every refusal of a validation request has its cause,
LEMMA ValidationCauses ==
    ASSUME BillingInv, NEW t \in InFlight, t.op = "validate",
           NEW code \in ValidationRefusals(t)
    PROVE  HasCause(t, code)
  <1>0. PICK m \in Mandate : m = t.look.mandate
    BY TxParts
  <1>1. PICK a \in Approval \cup {None} : a = t.look.approval
    BY TxParts
  <1>2. CalledFor(t.look, t.look.now) = "validate" /\ SawThePast(t.look, t.by)
        /\ t.subject = m.due /\ t.offset = ValidationOffset(m)
    BY <1>0, TxParts DEF BuiltFromLook
  <1>3. m.active /\ (a = None \/ ~IsPullApprovalCurrent(a, m, t.look.now))
    BY <1>0, <1>1, <1>2, CalledForWhat
  <1>4. CASE code = 6001
    BY <1>0, <1>3, <1>4 DEF HasCause
  <1>5. CASE code = 6062
    BY <1>5 DEF HasCause
  <1>6. CASE code = 6024
    <2>1. t.subject # mandate.due \/ t.offset # ValidationOffset(mandate)
      BY <1>6 DEF ValidationRefusals
    <2>2. m.due # mandate.due \/ m.validationNonce # mandate.validationNonce
      BY <1>2, <2>1 DEF ValidationOffset
    <2>3. QED
      BY <1>0, <1>6, <2>2 DEF HasCause
  <1>7. CASE code = 6016
    <2>1. /\ approval # None /\ approval.approved /\ approval.end = mandate.due
          /\ approval.until >= clock /\ approval.amount >= mandate.amount
      BY <1>7 DEF ValidationRefusals
    <2>2. SUFFICES ASSUME a = approval, ~(skew[t.by] > 0), m.amount = mandate.amount
                   PROVE  FALSE
      BY <1>0, <1>1, <1>7 DEF HasCause
    <2>3. a.start = a.end - Frequency /\ a.end <= m.due /\ m.due <= mandate.due
      BY <1>0, <1>1, <1>2, <2>1, <2>2 DEF SawThePast
    <2>4. a \in Approval /\ a.end \in Nat /\ a.until \in Int /\ m.due \in Nat /\ mandate.due \in Nat
      BY <2>1, <2>2, Numbers, TxParts DEF Approval
    <2>5. a.end = m.due
      BY <2>1, <2>2, <2>3, <2>4
    <2>6. t.look.now <= clock /\ t.look.now \in Int /\ clock \in Nat
      BY <1>2, <2>2, TxParts, ClockCauses DEF SawThePast
    <2>7. a.until >= t.look.now
      BY <2>1, <2>2, <2>4, <2>6
    <2>8. QED
      BY <1>3, <2>1, <2>2, <2>3, <2>5, <2>7 DEF IsPullApprovalCurrent
  <1>8. code \in {6001, 6016, 6024, 6062}
    BY DEF ValidationRefusals
  <1>9. QED
    BY <1>4, <1>5, <1>6, <1>7, <1>8

\* every refusal of a billing record,
LEMMA RecordCauses ==
    ASSUME BillingInv, NEW t \in InFlight, t.op = "record",
           NEW code \in RecordRefusals(t)
    PROVE  HasCause(t, code)
  <1>0. PICK m \in Mandate : m = t.look.mandate
    BY TxParts
  <1>1. /\ m.pulls \in Nat /\ m.recorded \in Nat /\ mandate.pulls \in Nat /\ mandate.recorded \in Nat
        /\ t.subject \in Nat
    BY Numbers, TxParts
  <1>2. /\ CalledFor(t.look, t.look.now) = "record"
        /\ m.pulls <= t.subject /\ t.subject <= mandate.pulls /\ t.offset = BillingOffset(m)
        /\ m.pulls <= mandate.pulls
    BY <1>0, TxParts DEF BuiltFromLook, SawThePast
  <1>3. m.recorded < m.pulls
    BY <1>0, <1>2, CalledForWhat
  <1>4. CASE code = 6020
    <2>1. mandate.recorded = mandate.pulls
      BY <1>4 DEF RecordRefusals
    <2>2. m.recorded # mandate.recorded
      BY <1>1, <1>2, <1>3, <2>1
    <2>3. QED
      BY <1>0, <1>4, <2>2 DEF HasCause
  <1>5. CASE code = 6062
    BY <1>5 DEF HasCause
  <1>6. CASE code = 6024
    <2>1. t.subject # mandate.pulls \/ t.offset # BillingOffset(mandate)
      BY <1>6 DEF RecordRefusals
    <2>2. m.pulls # mandate.pulls \/ m.billingNonce # mandate.billingNonce
      BY <1>1, <1>2, <2>1 DEF BillingOffset
    <2>3. QED
      BY <1>0, <1>6, <2>2 DEF HasCause
  <1>7. code \in {6020, 6024, 6062}
    BY DEF RecordRefusals
  <1>8. QED
    BY <1>4, <1>5, <1>6, <1>7

\* and every refusal of a pull.
LEMMA PullCauses ==
    ASSUME BillingInv, NEW t \in InFlight, t.op = "pull",
           NEW code \in PullRefusals(t)
    PROVE  HasCause(t, code)
  <1>0. PICK m \in Mandate : m = t.look.mandate
    BY TxParts
  <1>1. PICK a \in Approval \cup {None} : a = t.look.approval
    BY TxParts
  <1>2. /\ m.pulls \in Nat /\ m.recorded \in Nat /\ m.due \in Nat /\ m.expiry \in Nat
        /\ m.amount \in Nat
        /\ mandate.pulls \in Nat /\ mandate.recorded \in Nat /\ mandate.due \in Nat
    BY Numbers, TxParts
  <1>3. /\ CalledFor(t.look, t.look.now) = "pull" /\ SawThePast(t.look, t.by)
        /\ t.look.now = ClockOf(t.by, t.look.at) /\ t.look.at <= clock /\ t.builtAt <= clock
        /\ m.expiry = mandate.expiry /\ m.recorded <= mandate.recorded
        /\ m.recorded <= m.pulls
    BY <1>0, TxParts DEF BuiltFromLook, SawThePast
  <1>4. /\ m.active /\ ~(m.recorded < m.pulls) /\ a # None
        /\ IsPullApprovalCurrent(a, m, t.look.now) /\ CanPull(m, t.look.now)
    BY <1>0, <1>1, <1>3, CalledForWhat
  <1>5. /\ t.look.now \in Int /\ clock \in Nat /\ t.look.at \in Nat
        /\ ~(clock > t.look.at) /\ ~(skew[t.by] < 0) => t.look.now >= clock
        /\ ~(skew[t.by] > 0) => t.look.now <= clock
    BY <1>3, TxParts, ClockCauses
  <1>6. CASE code = 0
    BY <1>6 DEF HasCause, PullRefusals
  <1>7. CASE code = 6000
    <2>1. clock < mandate.due
      BY <1>7 DEF PullRefusals
    <2>2. skew[t.by] > 0 \/ m.due # mandate.due
      BY <1>2, <1>4, <1>5, <2>1 DEF CanPull
    <2>3. QED
      BY <1>0, <1>7, <2>2 DEF HasCause
  <1>8. CASE code = 6001
    BY <1>0, <1>4, <1>8 DEF HasCause
  <1>9. CASE code = 6002
    <2>1. mandate.pulls >= MaxPulls /\ MaxPulls \in Nat
      BY <1>9, BillingAssumption DEF PullRefusals
    <2>2. m.pulls # mandate.pulls
      BY <1>2, <1>4, <2>1 DEF CanPull
    <2>3. QED
      BY <1>0, <1>9, <2>2 DEF HasCause
  <1>10. CASE code = 6008
    <2>1. mandate.expiry > 0 /\ clock > mandate.expiry
      BY <1>10 DEF PullRefusals
    <2>2. clock > t.look.at \/ skew[t.by] < 0
      BY <1>2, <1>3, <1>4, <1>5, <2>1 DEF CanPull
    <2>3. QED
      BY <1>10, <2>2 DEF HasCause
  <1>11. CASE code = 6011
    <2>1. ~ApprovalCovers
      BY <1>11 DEF PullRefusals
    <2>2. a # approval \/ m.due # mandate.due \/ m.amount # mandate.amount
      BY <1>4, <2>1 DEF ApprovalCovers, IsPullApprovalCurrent
    <2>3. QED
      BY <1>0, <1>1, <1>11, <2>2 DEF HasCause
  <1>12. CASE code = 6012
    <2>1. approval # None /\ approval.until < clock
      BY <1>12 DEF PullRefusals
    <2>2. approval.until \in Int
      BY <2>1, TxParts DEF Approval
    <2>3. approval = a \/ approval.until >= t.look.at
      BY <1>1, <1>3, <2>1 DEF SawThePast
    <2>4. clock > t.look.at \/ skew[t.by] < 0
      BY <1>4, <1>5, <2>1, <2>2, <2>3 DEF IsPullApprovalCurrent
    <2>5. QED
      BY <1>12, <2>4 DEF HasCause
  <1>13. CASE code = 6019
    <2>1. mandate.recorded < mandate.pulls
      BY <1>13 DEF PullRefusals
    <2>2. m.pulls # mandate.pulls
      BY <1>2, <1>3, <1>4, <2>1
    <2>3. QED
      BY <1>0, <1>13, <2>2 DEF HasCause
  <1>14. CASE code = 12715
    <2>1. InForce(mandate) /\ t.pendingPlan # mandate.pending.plan
      BY <1>14 DEF PullRefusals
    <2>2. SUFFICES ASSUME t.pending = mandate.pending, ~(clock > t.builtAt), ~(skew[t.by] < 0)
                   PROVE  FALSE
      BY <1>14 DEF HasCause
    <2>3. ClockOf(t.by, t.builtAt) >= clock /\ ClockOf(t.by, t.builtAt) \in Int
      BY <1>3, <2>2, TxParts, ClockCauses
    <2>4. mandate.pending \in Pending /\ mandate.pending.at \in Nat /\ clock >= mandate.pending.at
      BY <2>1, TxParts, Numbers DEF InForce, Pending
    <2>5. t.pendingPlan = t.pending.plan
      BY <1>5, <2>1, <2>2, <2>3, <2>4, TxParts DEF BuiltFromLook, InForce
    <2>6. QED
      BY <2>1, <2>2, <2>5
  <1>15. code \in {0, 6000, 6001, 6002, 6008, 6011, 6012, 6019, 12715}
    BY DEF PullRefusals
  <1>16. QED
    BY <1>6, <1>7, <1>8, <1>9, <1>10, <1>11, <1>12, <1>13, <1>14, <1>15

\* A transaction built from what the SDK's checks accepted is refused only when
\* something changed after they read it, time passed, or the clock is off.
THEOREM RefusalsHaveCauses == Spec => []RefusalHasCause
  <1>1. BillingInv => RefusalHasCause
    BY ValidationCauses, RecordCauses, PullCauses, TxParts DEF RefusalHasCause, Refusals
  <1>2. QED
    BY <1>1, BillingInvariance, PTL

-----------------------------------------------------------------------------
(* Pulls held back                                                         *)

\* What the program would take is, but for what is NotSeen, what the keeper saw.
LEMMA PayableLooks ==
    ASSUME BillingInv, NEW k \in Keepers, NEW m \in Mandate, NEW a \in Approval,
           seen[k] # None, m = seen[k].mandate, a = seen[k].approval,
           Payable(k), ~NotSeen(k)
    PROVE  /\ m.active /\ m.pulls < MaxPulls /\ ~(m.recorded < m.pulls)
           /\ m.expiry > 0 => seen[k].now <= m.expiry
           /\ seen[k].now >= m.due
           /\ IsPullApprovalCurrent(a, m, seen[k].now)
  <1>0. /\ seen[k] \in Look /\ clock \in Nat /\ mandate \in Mandate /\ approval \in Approval \cup {None}
        /\ MaxPulls \in Nat /\ Frequency \in Nat
    BY BillingAssumption DEF BillingInv, TypeOK
  <1>1. /\ SawThePast(seen[k], k) /\ Accounts
    BY DEF BillingInv, Looks
  <1>2. PICK p \in Plans \cup {None} : PullRefusals([look |-> seen[k], pendingPlan |-> p]) = {}
    BY DEF Payable
  <1>3. /\ ~(clock < mandate.due) /\ ~(mandate.pulls >= MaxPulls) /\ mandate.active
        /\ ApprovalCovers /\ ~(mandate.recorded < mandate.pulls)
        /\ ~(mandate.expiry > 0 /\ clock > mandate.expiry) /\ ~(approval.until < clock)
    BY <1>2, PullLands
  <1>4. /\ a = approval /\ m.due = mandate.due /\ m.amount = mandate.amount
        /\ m.recorded = mandate.recorded /\ ~(seen[k].now < m.due) /\ ~(seen[k].now > clock)
    BY DEF NotSeen
  <1>5. seen[k].now \in Int
    BY <1>0 DEF Look
  <1>6. /\ m.pulls \in Nat /\ m.due \in Nat /\ m.recorded \in Nat /\ m.expiry \in Nat
        /\ mandate.pulls \in Nat /\ mandate.recorded \in Nat
    BY <1>0, Numbers
  <1>7. /\ mandate.active => m.active
        /\ m.expiry = mandate.expiry /\ m.pulls <= mandate.pulls
    BY <1>1 DEF SawThePast
  <1>8. m.active /\ m.pulls < MaxPulls /\ ~(m.recorded < m.pulls)
    BY <1>0, <1>3, <1>4, <1>6, <1>7
  <1>9. m.expiry > 0 => seen[k].now <= m.expiry
    BY <1>0, <1>3, <1>4, <1>5, <1>6, <1>7
  <1>10. seen[k].now >= m.due
    BY <1>4, <1>5, <1>6
  <1>11. IsPullApprovalCurrent(a, m, seen[k].now)
    <2>1. a.approved /\ a.end = m.due /\ a.amount >= m.amount
      BY <1>3, <1>4 DEF ApprovalCovers
    <2>2. a.start = m.due - Frequency
      BY <1>1, <1>3, <1>4, <2>1 DEF Accounts, ApprovalCovers
    <2>3. a.until >= seen[k].now
      <3>1. a.until \in Int
        BY DEF Approval
      <3>2. QED
        BY <1>0, <1>3, <1>4, <1>5, <3>1
    <2>4. QED
      BY <2>1, <2>2, <2>3 DEF IsPullApprovalCurrent
  <1>12. QED
    BY <1>8, <1>9, <1>10, <1>11

\* The SDK's checks hold back no pull the program would take, unless the look is
\* out of date or the keeper's clock is off.
THEOREM PayablesAreSeen == Spec => []PayableIsSeen
  <1>1. ASSUME BillingInv, NEW k \in Keepers, seen[k] # None, Payable(k), ~NotSeen(k)
        PROVE  CalledFor(seen[k], seen[k].now) = "pull"
    <2>1. PICK m \in Mandate : m = seen[k].mandate
      BY <1>1 DEF BillingInv, TypeOK, Look
    <2>2. approval # None /\ seen[k].approval = approval /\ approval \in Approval
      <3>1. PICK p \in Plans \cup {None} :
                PullRefusals([look |-> seen[k], pendingPlan |-> p]) = {}
        BY <1>1 DEF Payable
      <3>2. ApprovalCovers
        BY <3>1, PullLands
      <3>3. QED
        BY <1>1, <3>2 DEF NotSeen, ApprovalCovers, BillingInv, TypeOK
    <2>3. PICK a \in Approval : a = seen[k].approval /\ a # None
      BY <2>2
    <2>4. /\ m.active /\ m.pulls < MaxPulls /\ ~(m.recorded < m.pulls)
          /\ m.expiry > 0 => seen[k].now <= m.expiry
          /\ seen[k].now >= m.due
          /\ IsPullApprovalCurrent(a, m, seen[k].now)
      BY <1>1, <2>1, <2>3, PayableLooks
    <2>5. CanPull(m, seen[k].now)
      BY <2>4 DEF CanPull
    <2>6. ~Finished(m, seen[k].now)
      <3>1. m.pulls \in Nat /\ m.expiry \in Nat /\ MaxPulls \in Nat
        BY Numbers, BillingAssumption
      <3>2. seen[k].now \in Int
        BY <1>1 DEF BillingInv, TypeOK, Look
      <3>3. QED
        BY <2>4, <3>1, <3>2 DEF Finished
    <2>7. QED
      BY <2>1, <2>3, <2>4, <2>5, <2>6 DEF CalledFor
  <1>2. BillingInv => PayableIsSeen
    BY <1>1 DEF PayableIsSeen
  <1>3. QED
    BY <1>2, BillingInvariance, PTL
=============================================================================
