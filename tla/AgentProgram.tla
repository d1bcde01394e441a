---------------------------- MODULE AgentProgram ----------------------------
(***************************************************************************)
(* What the on-chain program does with the mandate of an agent, as far as  *)
(* the SDK shows it: the account it decodes (src/src/accounts/fetchers.ts  *)
(* :61-135) and the errors it translates (src/src/errors/program-errors.ts *)
(* :89-240, src/idl/vela_protocol.json).  The program itself is not in the *)
(* repository.                                                             *)
(*                                                                         *)
(* A mandate has terms, set by its authority, and counters: what was spent *)
(* since the last reset, in all and at each service, what was spent since  *)
(* it was made, and when it was last pulled from.                          *)
(***************************************************************************)
EXTENDS Integers

CONSTANTS
    Services,  \* owners of accounts that money can be pulled to
    Window     \* AGENT_DAILY_RESET_WINDOW_SECONDS

ASSUME ProgramAssumption == Window \in Nat \ {0}

Terms ==
    [dailyLimit : Nat, lifetimeCap : Nat, minPullAmount : Nat,
     minPullInterval : Nat, listed : SUBSET Services, limits : [Services -> Nat]]

Counter == [spent : Nat, since : Nat]

Mandate ==
    [status : {"none", "active", "paused", "revoked"}, terms : Terms,
     daily : Counter, services : [Services -> Counter],
     totalSpent : Nat, lastPullAt : Nat]

Errors ==
    {"NotActive", "ProtocolPaused", "UnauthorizedService", "DailyLimit",
     "ServiceDailyLimit", "LifetimeCap", "AmountTooSmall", "Cooldown",
     "InsufficientBalance"}

-----------------------------------------------------------------------------

Lapsed(counter, t) == t - counter.since >= Window

Counted(counter, t) == IF Lapsed(counter, t) THEN 0 ELSE counter.spent

Charged(counter, amount, t) ==
    IF Lapsed(counter, t) THEN [spent |-> amount, since |-> t]
                          ELSE [counter EXCEPT !.spent = @ + amount]

\* Why agent_pull fails for mandate m at time t; it succeeds if for no reason.
Refusals(m, balance, stopped, s, amount, t) ==
    {e \in Errors :
        \/ e = "NotActive" /\ m.status # "active"
        \/ e = "ProtocolPaused" /\ stopped
        \/ e = "UnauthorizedService" /\ s \notin m.terms.listed
        \/ e = "DailyLimit" /\ Counted(m.daily, t) + amount > m.terms.dailyLimit
        \/ e = "ServiceDailyLimit"
           /\ Counted(m.services[s], t) + amount > m.terms.limits[s]
        \/ e = "LifetimeCap" /\ m.totalSpent + amount > m.terms.lifetimeCap
        \/ e = "AmountTooSmall" /\ amount < m.terms.minPullAmount
        \/ e = "Cooldown" /\ m.lastPullAt > 0
           /\ t - m.lastPullAt < m.terms.minPullInterval
        \/ e = "InsufficientBalance" /\ balance < amount}

AfterPull(m, s, amount, t) ==
    [m EXCEPT !.daily = Charged(@, amount, t),
              !.services[s] = Charged(@, amount, t),
              !.totalSpent = @ + amount,
              !.lastPullAt = t]

\* The counter of a service starts when it is listed.
NewCounter(s, terms, t) == [spent |-> 0, since |-> IF s \in terms.listed THEN t ELSE 0]

\* adjust_agent_mandate: counters survive, or start anew; which of the two the
\* SDK does not show.
Adjusted(m, terms, keep, t) ==
    [m EXCEPT !.terms = terms,
              !.services = [s \in Services |->
                  IF keep /\ s \in terms.listed \cap m.terms.listed
                  THEN m.services[s] ELSE NewCounter(s, terms, t)]]
=============================================================================
