--------------------------- MODULE AgentMandates ---------------------------
(***************************************************************************)
(* How an agent finds out whether a pull from its mandate will go through: *)
(* validateAgentPull (src/src/validators/preflight.ts:186-274) and, before *)
(* it pays for a request, canAfford (src/src/x402/client.ts:54-104), both  *)
(* on top of checkAgentBudget and verifyAgentMandate                       *)
(* (src/src/accounts/fetchers.ts:166-190, 308-398).                        *)
(*                                                                         *)
(* A call reads the mandate, its balance and ProtocolConfig one after the  *)
(* other, takes the time from its own machine, and pulls later; in between *)
(* the authority, the admin and other calls of the agent go on.  The clock *)
(* of the chain and that of the machine advance each on its own.           *)
(*                                                                         *)
(* Calls meet only on the chain, so one of them is followed here, and all  *)
(* that the others can do to it is AgentPull.                              *)
(***************************************************************************)
EXTENDS AgentProgram

CONSTANTS
    Amounts,    \* amounts that are pulled or deposited
    Offers,     \* terms the authority may give the mandate
    MaxBalance, \* bound on the balance of the mandate
    MaxClock,   \* bound on both clocks
    MaxWrites,  \* bound on the transactions of others than the call
    None        \* undefined

\* What the agent asks: whether validateAgentPull or canAfford, the owner of the
\* account it pulls to, the service named, and how much.
Request == [kind : {"validate", "afford"}, to : Services,
            service : Services \cup {None}, amount : Amounts]

ASSUME AgentMandatesAssumption ==
    /\ Amounts \subseteq Nat \ {0}
    /\ Offers \subseteq Terms
    /\ None \notin Services
    /\ None \notin Request

VARIABLES
    mandate,  \* the AgentMandate account
    balance,  \* of the wrapped account of the mandate
    stopped,  \* ProtocolConfig.paused
    clock,    \* the time on the chain
    local,    \* Date.now() on the agent's machine
    writes,   \* how many transactions others have made
    pc,       \* where the call is, or how it ended
    request,  \* what is asked, where the pull goes, the service named, the amount
    view,     \* view[k]: what the reads of kind k have returned so far
    later     \* the time at which the call decided

chainVars == <<mandate, balance, stopped, clock, writes>>
callVars == <<pc, request, view, later>>
vars == <<chainVars, local, callVars>>

\* The two sequences of reads: verifyAgentMandate's, which is also that of
\* validateAgentPull, and the one of canAfford's own checkAgentBudget.
Reads == {"verify", "budget"}

View == [step : {"mandate", "balance", "config", "done"}, now : Nat,
         mandate : Mandate, balance : Nat, stopped : BOOLEAN]

\* No call is going on; what became of the last one.
Ended == {"idle", "no", "failed", "pulled", "refused"}

TypeOK ==
    /\ mandate \in Mandate
    /\ balance \in Nat
    /\ stopped \in BOOLEAN
    /\ clock \in Nat
    /\ local \in Nat
    /\ writes \in Nat
    /\ pc \in Ended \cup {"reading", "yes"}
    /\ request \in Request \cup {None}
    /\ request = None <=> pc \in Ended
    /\ view \in [Reads -> View]
    /\ later \in Nat

-----------------------------------------------------------------------------
(* What the code makes of the values it has read.                          *)

\* Mutant: a window ends one second early.
SpentInWindow_Early(counter, now) ==
    IF now - counter.since >= Window - 1 THEN 0 ELSE counter.spent

\* Mutant: a window ends one second late.
SpentInWindow_Late(counter, now) ==
    IF now - counter.since > Window THEN 0 ELSE counter.spent

\* computeResetWindow
SpentInWindow(counter, now) ==
    IF now - counter.since >= Window THEN 0 ELSE counter.spent

ClampRemaining(limit, spent) == IF limit > spent THEN limit - spent ELSE 0

GlobalRemaining(v) ==
    ClampRemaining(v.mandate.terms.dailyLimit, SpentInWindow(v.mandate.daily, v.now))

\* null, in the code, for a service that is not on the list.
ServiceRemaining(v, s) ==
    ClampRemaining(v.mandate.terms.limits[s],
                   SpentInWindow(v.mandate.services[s], v.now))

\* verifyAgentMandate finds no reason against.
Valid(v, s) ==
    /\ v.mandate.status = "active"
    /\ ~v.stopped
    /\ s # None => s \in v.mandate.terms.listed
    /\ v.balance > 0

\* Mutant: only asks whether there is a balance at all.
Affordable_Funded(verified, budget, r) ==
    /\ Valid(verified, r.service)
    /\ GlobalRemaining(budget) >= r.amount
    /\ r.service \in budget.mandate.terms.listed
         => ServiceRemaining(budget, r.service) >= r.amount

\* canAfford finds no reason against.
Affordable(verified, budget, r) ==
    /\ Valid(verified, r.service)
    /\ GlobalRemaining(budget) >= r.amount
    /\ r.service \in budget.mandate.terms.listed
         => ServiceRemaining(budget, r.service) >= r.amount
    /\ budget.balance >= r.amount

\* What will have been spent of a limit after the pull, computed back from what
\* remains of it.
NextSpent(limit, remaining, amount) == (limit - remaining) + amount

\* validateAgentPull finds no reason against; now is the time of the cooldown.
CanPull(v, r, now) ==
    LET m == v.mandate IN
    /\ m.status = "active"
    /\ ~v.stopped
    /\ r.to \in m.terms.listed
    /\ NextSpent(m.terms.limits[r.to], ServiceRemaining(v, r.to), r.amount)
         <= m.terms.limits[r.to]
    /\ NextSpent(m.terms.dailyLimit, GlobalRemaining(v), r.amount) <= m.terms.dailyLimit
    /\ m.totalSpent + r.amount <= m.terms.lifetimeCap
    /\ r.amount >= m.terms.minPullAmount
    /\ m.lastPullAt > 0 /\ m.terms.minPullInterval > 0
         => now - m.lastPullAt >= m.terms.minPullInterval
    /\ v.balance >= r.amount

\* Mutant: announces what remained before the pull.
LeftAfter_Before(limit, remaining, amount) == remaining

\* What validateAgentPull announces to remain of a limit after the pull.
LeftAfter(limit, remaining, amount) ==
    LET next == NextSpent(limit, remaining, amount)
    IN  IF next >= limit THEN 0 ELSE limit - next

-----------------------------------------------------------------------------
NoTerms == [dailyLimit |-> 0, lifetimeCap |-> 0, minPullAmount |-> 0,
            minPullInterval |-> 0, listed |-> {}, limits |-> [s \in Services |-> 0]]

NewMandate(status, terms, t) ==
    [status |-> status, terms |-> terms, daily |-> [spent |-> 0, since |-> t],
     services |-> [s \in Services |-> NewCounter(s, terms, t)],
     totalSpent |-> 0, lastPullAt |-> 0]

NoView == [step |-> "mandate", now |-> 0, mandate |-> NewMandate("none", NoTerms, 0),
           balance |-> 0, stopped |-> FALSE]

\* Time starts at 1: 0 stands for never.
Init ==
    /\ mandate = NewMandate("none", NoTerms, 0)
    /\ balance = 0
    /\ stopped = FALSE
    /\ clock = 1
    /\ local = 1
    /\ writes = 0
    /\ pc = "idle"
    /\ request = None
    /\ view = [k \in Reads |-> NoView]
    /\ later = 0

ChainTicks ==
    /\ clock < MaxClock
    /\ clock' = clock + 1
    /\ UNCHANGED <<mandate, balance, stopped, local, writes, callVars>>

LocalTicks ==
    /\ local < MaxClock
    /\ local' = local + 1
    /\ UNCHANGED <<chainVars, callVars>>

-----------------------------------------------------------------------------
(* The calls of the agent.                                                 *)

\* canAfford starts both sequences of reads at once, and both take the time
\* before they read anything.
Begin ==
    /\ pc = "idle"
    /\ request' \in Request
    /\ request'.service \in {request'.to} \cup
          (IF request'.kind = "afford" THEN {None} ELSE {})
    /\ pc' = "reading"
    /\ view' = [k \in Reads |-> [NoView EXCEPT
           !.now = local,
           !.step = IF k = "budget" /\ request'.kind = "validate"
                    THEN "done" ELSE "mandate"]]
    /\ UNCHANGED <<chainVars, local, later>>

ReadsNext(k, step) == pc = "reading" /\ view[k].step = step

\* Mutant: the request of a call that is over is kept.
End_Kept(outcome) ==
    /\ pc' = outcome
    /\ view' = [k \in Reads |-> NoView]
    /\ later' = 0
    /\ UNCHANGED request

\* The call is over; what it had read goes with it.
End(outcome) ==
    /\ pc' = outcome
    /\ request' = None
    /\ view' = [k \in Reads |-> NoView]
    /\ later' = 0

\* There is no account yet: the call throws.
ReadMandate(k) ==
    /\ ReadsNext(k, "mandate")
    /\ \/ mandate.status = "none" /\ End("failed")
       \/ /\ mandate.status # "none"
          /\ view' = [view EXCEPT ![k].mandate = mandate, ![k].step = "balance"]
          /\ UNCHANGED <<pc, request, later>>
    /\ UNCHANGED <<chainVars, local>>

ReadBalance(k) ==
    /\ ReadsNext(k, "balance")
    /\ view' = [view EXCEPT ![k].balance = balance,
                            ![k].step = IF k = "verify" THEN "config" ELSE "done"]
    /\ UNCHANGED <<chainVars, local, pc, request, later>>

ReadConfig(k) ==
    /\ ReadsNext(k, "config")
    /\ view' = [view EXCEPT ![k].stopped = stopped, ![k].step = "done"]
    /\ UNCHANGED <<chainVars, local, pc, request, later>>

\* A request to the node fails.
ReadFails ==
    /\ pc = "reading"
    /\ End("failed")
    /\ UNCHANGED <<chainVars, local>>

Verdict ==
    IF request.kind = "validate"
    THEN CanPull(view["verify"], request, local)
    ELSE Affordable(view["verify"], view["budget"], request)

Decide ==
    /\ \A k \in Reads : ReadsNext(k, "done")
    /\ \/ /\ Verdict
          /\ pc' = "yes"
          /\ later' = local
          /\ UNCHANGED <<request, view>>
       \/ ~Verdict /\ End("no")
    /\ UNCHANGED <<chainVars, local>>

\* agentPull checks nothing itself; the program does, when it executes.
Pull(to, amount) ==
    /\ Refusals(mandate, balance, stopped, to, amount, clock) = {}
    /\ mandate' = AfterPull(mandate, to, amount, clock)
    /\ balance' = balance - amount

\* The pull that the call decided on is executed, or refused.
PullDecided ==
    /\ pc = "yes"
    /\ \/ Pull(request.to, request.amount) /\ End("pulled")
       \/ /\ Refusals(mandate, balance, stopped, request.to, request.amount, clock) # {}
          /\ End("refused")
          /\ UNCHANGED <<mandate, balance>>
    /\ UNCHANGED <<stopped, clock, local, writes>>

Write == writes < MaxWrites /\ writes' = writes + 1

\* A pull of another call of the agent.
AgentPull ==
    /\ \E to \in Services, amount \in Amounts : Pull(to, amount)
    /\ Write
    /\ UNCHANGED <<stopped, clock, local, callVars>>

-----------------------------------------------------------------------------
(* The authority's calls, and the admin's: one transaction each.           *)

CreateMandate ==
    /\ mandate.status = "none"
    /\ \E terms \in Offers, amount \in Amounts :
         /\ amount <= MaxBalance
         /\ mandate' = NewMandate("active", terms, clock)
         /\ balance' = amount
    /\ Write
    /\ UNCHANGED <<stopped, clock, local, callVars>>

\* Nothing in the SDK looks at the status of the mandate first.
TopUp ==
    /\ mandate.status # "none"
    /\ \E amount \in Amounts :
         /\ balance + amount <= MaxBalance
         /\ balance' = balance + amount
    /\ Write
    /\ UNCHANGED <<mandate, stopped, clock, local, callVars>>

Adjust ==
    /\ mandate.status \in {"active", "paused"}
    /\ \E terms \in Offers, keep \in BOOLEAN :
         mandate' = Adjusted(mandate, terms, keep, clock)
    /\ Write
    /\ UNCHANGED <<balance, stopped, clock, local, callVars>>

PauseMandate ==
    /\ mandate.status = "active"
    /\ mandate' = [mandate EXCEPT !.status = "paused"]
    /\ Write
    /\ UNCHANGED <<balance, stopped, clock, local, callVars>>

ResumeMandate ==
    /\ mandate.status = "paused"
    /\ mandate' = [mandate EXCEPT !.status = "active"]
    /\ Write
    /\ UNCHANGED <<balance, stopped, clock, local, callVars>>

Revoke ==
    /\ mandate.status \in {"active", "paused"}
    /\ mandate' = [mandate EXCEPT !.status = "revoked"]
    /\ balance' = 0
    /\ Write
    /\ UNCHANGED <<stopped, clock, local, callVars>>

Drain ==
    /\ balance > 0
    /\ balance' = 0
    /\ Write
    /\ UNCHANGED <<mandate, stopped, clock, local, callVars>>

SwitchProtocol ==
    /\ stopped' = ~stopped
    /\ Write
    /\ UNCHANGED <<mandate, balance, clock, local, callVars>>

Call ==
    \/ Begin \/ ReadFails \/ Decide \/ PullDecided
    \/ \E k \in Reads : ReadMandate(k) \/ ReadBalance(k) \/ ReadConfig(k)

Others ==
    \/ ChainTicks \/ LocalTicks \/ AgentPull
    \/ CreateMandate \/ TopUp \/ Adjust \/ PauseMandate \/ ResumeMandate
    \/ Revoke \/ Drain \/ SwitchProtocol

Next == Call \/ Others

Spec == Init /\ [][Next]_vars

-----------------------------------------------------------------------------
(* Properties.                                                             *)

\* What the reads of kind k returned is what the chain still has.
StillSo(k) ==
    /\ view[k].mandate = mandate
    /\ view[k].balance = balance
    /\ k = "verify" => view[k].stopped = stopped

\* A pull that validateAgentPull said can be made is executed, however much later,
\* as long as the account has not been changed in between and the machine's clock
\* is not ahead of the chain's: neither the two times the code reads the clock, nor
\* the amounts spent that it computes back from clamped remainders, nor a reset of
\* a window between the check and the pull make the program refuse.
ValidatedIsAccepted ==
    [][/\ PullDecided /\ request.kind = "validate"
       /\ StillSo("verify") /\ later <= clock
       => pc' = "pulled"]_vars

\* What canAfford does not look at: the lifetime cap, the smallest amount and the
\* cooldown, and what concerns the service if the challenge names none.
Unseen ==
    {"LifetimeCap", "AmountTooSmall", "Cooldown"} \cup
    (IF request.service = None THEN {"UnauthorizedService", "ServiceDailyLimit"} ELSE {})

\* A pull that canAfford said is affordable is refused, on an account that has not
\* changed, only for what canAfford does not look at, although its two sequences of
\* reads each put a budget together on their own.
AffordableUnlessUnseen ==
    [][/\ PullDecided /\ request.kind = "afford"
       /\ \A k \in Reads : StillSo(k)
       /\ later <= clock
       => Refusals(mandate, balance, stopped, request.to, request.amount, clock)
            \subseteq Unseen]_vars

\* A refusal is never mere caution: when the code says no, and the account, the
\* balance and the time are still what it read, the program would refuse too.
RefusalIsRight ==
    [][/\ Decide /\ pc' = "no"
       /\ \A k \in Reads : view[k].now = local
       /\ StillSo("verify")
       /\ request.kind = "afford" => StillSo("budget")
       /\ clock = local
       => Refusals(mandate, balance, stopped, request.to, request.amount, clock) # {}]_vars

\* What validateAgentPull announced to remain after the pull, in all and at the
\* service, does remain; there may be more only if a window has ended since.
PreviewComesTrue ==
    [][LET v == view["verify"]
           after == [v EXCEPT !.mandate = mandate', !.now = clock]
           global == LeftAfter(v.mandate.terms.dailyLimit, GlobalRemaining(v),
                               request.amount)
           service == LeftAfter(v.mandate.terms.limits[request.to],
                                ServiceRemaining(v, request.to), request.amount)
       IN  /\ PullDecided /\ request.kind = "validate" /\ pc' = "pulled"
           /\ StillSo("verify") /\ later <= clock
           => /\ GlobalRemaining(after) >= global
              /\ ServiceRemaining(after, request.to) >= service
              /\ clock = v.now => /\ GlobalRemaining(after) = global
                                  /\ ServiceRemaining(after, request.to) = service]_vars
=============================================================================
