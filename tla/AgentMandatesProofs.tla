------------------------- MODULE AgentMandatesProofs -------------------------
(***************************************************************************)
(* What validateAgentPull and canAfford promise, for all services, amounts *)
(* and terms, any window and any clocks.                                   *)
(***************************************************************************)
EXTENDS AgentMandates, TLAPS

USE ProgramAssumption, AgentMandatesAssumption

-----------------------------------------------------------------------------
(* Arithmetic.                                                             *)

\* What the program counts later is no more than what the code counted.
LEMMA CountedLess ==
    ASSUME NEW c \in Counter, NEW now \in Nat, NEW t \in Nat, now <= t
    PROVE  /\ Counted(c, t) \in Nat
           /\ SpentInWindow(c, now) \in Nat
           /\ Counted(c, t) <= SpentInWindow(c, now)
           /\ now = t => Counted(c, t) = SpentInWindow(c, now)
BY DEF Counter, Counted, SpentInWindow, Lapsed

\* Computing back from a clamped remainder what was spent decides as if it had
\* never been clamped, because amounts are not zero.
LEMMA ClampIsHarmless ==
    ASSUME NEW limit \in Nat, NEW spent \in Nat, NEW amount \in Nat \ {0}
    PROVE  /\ NextSpent(limit, ClampRemaining(limit, spent), amount) <= limit
                <=> spent + amount <= limit
           /\ ClampRemaining(limit, spent) >= amount <=> spent + amount <= limit
           /\ ClampRemaining(limit, spent) \in Nat
           /\ spent + amount <= limit
                => LeftAfter(limit, ClampRemaining(limit, spent), amount)
                     = limit - (spent + amount)
BY DEF NextSpent, ClampRemaining, LeftAfter

\* The code finds room under a limit: then so does the program, then or later.
LEMMA RoomIsThere ==
    ASSUME NEW c \in Counter, NEW limit \in Nat, NEW amount \in Nat \ {0},
           NEW now \in Nat, NEW t \in Nat, now <= t,
           \/ NextSpent(limit, ClampRemaining(limit, SpentInWindow(c, now)), amount) <= limit
           \/ ClampRemaining(limit, SpentInWindow(c, now)) >= amount
    PROVE  Counted(c, t) + amount <= limit
<1>1. SpentInWindow(c, now) + amount <= limit
  <2>1. SpentInWindow(c, now) \in Nat
    BY CountedLess
  <2> QED
    BY <2>1, ClampIsHarmless
<1> QED
  BY <1>1, CountedLess

\* The program finds room under a limit: then so does the code, at that time.
LEMMA RoomIsSeen ==
    ASSUME NEW c \in Counter, NEW limit \in Nat, NEW amount \in Nat \ {0},
           NEW now \in Nat, Counted(c, now) + amount <= limit
    PROVE  /\ NextSpent(limit, ClampRemaining(limit, SpentInWindow(c, now)), amount) <= limit
           /\ ClampRemaining(limit, SpentInWindow(c, now)) >= amount
<1>1. now <= now
  OBVIOUS
<1>2. /\ SpentInWindow(c, now) \in Nat
      /\ SpentInWindow(c, now) + amount <= limit
  BY <1>1, CountedLess
<1> QED
  BY <1>2, ClampIsHarmless

\* What is counted right after a pull.
LEMMA CountedAfter ==
    ASSUME NEW c \in Counter, NEW t \in Nat, NEW amount \in Nat
    PROVE  /\ Charged(c, amount, t) \in Counter
           /\ SpentInWindow(Charged(c, amount, t), t) = Counted(c, t) + amount
BY DEF Counter, Charged, Counted, SpentInWindow, Lapsed

-----------------------------------------------------------------------------
(* The verdicts.                                                           *)

\* The parts of a mandate.
LEMMA MandateParts ==
    ASSUME NEW m \in Mandate, NEW s \in Services
    PROVE  /\ m.terms \in Terms /\ m.daily \in Counter /\ m.services[s] \in Counter
           /\ m.terms.dailyLimit \in Nat /\ m.terms.limits[s] \in Nat
           /\ m.terms.lifetimeCap \in Nat /\ m.terms.minPullAmount \in Nat
           /\ m.terms.minPullInterval \in Nat
           /\ m.totalSpent \in Nat /\ m.lastPullAt \in Nat
BY DEF Mandate, Terms

\* A pull that can be made by what was read is not refused on it, then or later:
\* on a chain that does not go back in time before the last pull.
LEMMA CanPullIsAccepted ==
    ASSUME NEW v \in View, NEW r \in Request, NEW now \in Nat, NEW t \in Nat,
           v.now <= now, now <= t, v.mandate.lastPullAt <= t, CanPull(v, r, now)
    PROVE  Refusals(v.mandate, v.balance, v.stopped, r.to, r.amount, t) = {}
<1> DEFINE m == v.mandate
<1>1. /\ m \in Mandate /\ v.now \in Nat /\ v.balance \in Nat
      /\ r.to \in Services /\ r.amount \in Nat \ {0}
  BY DEF View, Request
<1>2. v.now <= t
  BY <1>1
<1>3. Counted(m.daily, t) + r.amount <= m.terms.dailyLimit
  <2>1. m.daily \in Counter /\ m.terms.dailyLimit \in Nat
    BY <1>1, MandateParts
  <2>2. NextSpent(m.terms.dailyLimit,
                  ClampRemaining(m.terms.dailyLimit, SpentInWindow(m.daily, v.now)),
                  r.amount) <= m.terms.dailyLimit
    BY DEF CanPull, GlobalRemaining
  <2> QED
    BY <1>1, <1>2, <2>1, <2>2, RoomIsThere
<1>4. Counted(m.services[r.to], t) + r.amount <= m.terms.limits[r.to]
  <2>1. m.services[r.to] \in Counter /\ m.terms.limits[r.to] \in Nat
    BY <1>1, MandateParts
  <2>2. NextSpent(m.terms.limits[r.to],
                  ClampRemaining(m.terms.limits[r.to],
                                 SpentInWindow(m.services[r.to], v.now)),
                  r.amount) <= m.terms.limits[r.to]
    BY DEF CanPull, ServiceRemaining
  <2> QED
    BY <1>1, <1>2, <2>1, <2>2, RoomIsThere
<1>5. ~(m.lastPullAt > 0 /\ t - m.lastPullAt < m.terms.minPullInterval)
  <2>1. m.lastPullAt \in Nat /\ m.terms.minPullInterval \in Nat
    BY <1>1, MandateParts
  <2>2. m.lastPullAt > 0 /\ m.terms.minPullInterval > 0
          => now - m.lastPullAt >= m.terms.minPullInterval
    BY DEF CanPull
  <2> QED
    BY <2>1, <2>2
<1>6. /\ Counted(m.daily, t) \in Nat /\ Counted(m.services[r.to], t) \in Nat
  BY <1>1, <1>2, MandateParts, CountedLess
<1>7. /\ m.status = "active" /\ ~v.stopped /\ r.to \in m.terms.listed
      /\ m.totalSpent + r.amount <= m.terms.lifetimeCap
      /\ r.amount >= m.terms.minPullAmount
      /\ v.balance >= r.amount
  BY DEF CanPull
<1> QED
  BY <1>1, <1>3, <1>4, <1>5, <1>6, <1>7, MandateParts DEF Refusals

\* A pull that cannot be made by what was read is refused on it, at that time.
LEMMA CannotPullIsRefused ==
    ASSUME NEW v \in View, NEW r \in Request, ~CanPull(v, r, v.now)
    PROVE  Refusals(v.mandate, v.balance, v.stopped, r.to, r.amount, v.now) # {}
<1> DEFINE m == v.mandate
           R == Refusals(v.mandate, v.balance, v.stopped, r.to, r.amount, v.now)
<1>1. /\ m \in Mandate /\ v.now \in Nat /\ v.balance \in Nat
      /\ r.to \in Services /\ r.amount \in Nat \ {0}
  BY DEF View, Request
<1>2. CASE Counted(m.daily, v.now) + r.amount > m.terms.dailyLimit
  <2>1. "DailyLimit" \in R BY <1>2 DEF Refusals, Errors
  <2> QED BY <2>1
<1>3. CASE Counted(m.services[r.to], v.now) + r.amount > m.terms.limits[r.to]
  <2>1. "ServiceDailyLimit" \in R BY <1>3 DEF Refusals, Errors
  <2> QED BY <2>1
<1>4. CASE m.status # "active"
  <2>1. "NotActive" \in R BY <1>4 DEF Refusals, Errors
  <2> QED BY <2>1
<1>5. CASE v.stopped
  <2>1. "ProtocolPaused" \in R BY <1>5 DEF Refusals, Errors
  <2> QED BY <2>1
<1>6. CASE r.to \notin m.terms.listed
  <2>1. "UnauthorizedService" \in R BY <1>6 DEF Refusals, Errors
  <2> QED BY <2>1
<1>7. CASE m.totalSpent + r.amount > m.terms.lifetimeCap
  <2>1. "LifetimeCap" \in R BY <1>7 DEF Refusals, Errors
  <2> QED BY <2>1
<1>8. CASE r.amount < m.terms.minPullAmount
  <2>1. "AmountTooSmall" \in R BY <1>8 DEF Refusals, Errors
  <2> QED BY <2>1
<1>9. CASE m.lastPullAt > 0 /\ v.now - m.lastPullAt < m.terms.minPullInterval
  <2>1. "Cooldown" \in R BY <1>9 DEF Refusals, Errors
  <2> QED BY <2>1
<1>10. CASE v.balance < r.amount
  <2>1. "InsufficientBalance" \in R BY <1>10 DEF Refusals, Errors
  <2> QED BY <2>1
<1>11. CASE /\ ~(Counted(m.daily, v.now) + r.amount > m.terms.dailyLimit)
            /\ ~(Counted(m.services[r.to], v.now) + r.amount > m.terms.limits[r.to])
            /\ m.status = "active" /\ ~v.stopped /\ r.to \in m.terms.listed
            /\ ~(m.totalSpent + r.amount > m.terms.lifetimeCap)
            /\ ~(r.amount < m.terms.minPullAmount)
            /\ ~(m.lastPullAt > 0 /\ v.now - m.lastPullAt < m.terms.minPullInterval)
            /\ ~(v.balance < r.amount)
  <2>1. /\ m.daily \in Counter /\ m.terms.dailyLimit \in Nat
        /\ m.services[r.to] \in Counter /\ m.terms.limits[r.to] \in Nat
        /\ m.terms.lifetimeCap \in Nat /\ m.totalSpent \in Nat
        /\ m.terms.minPullAmount \in Nat /\ m.terms.minPullInterval \in Nat
        /\ m.lastPullAt \in Nat
    BY <1>1, MandateParts
  <2>2. v.now <= v.now
    BY <1>1
  <2>3. Counted(m.daily, v.now) \in Nat /\ Counted(m.services[r.to], v.now) \in Nat
    BY <1>1, <2>1, <2>2, CountedLess
  <2>4. /\ Counted(m.daily, v.now) + r.amount <= m.terms.dailyLimit
        /\ Counted(m.services[r.to], v.now) + r.amount <= m.terms.limits[r.to]
    BY <1>1, <1>11, <2>1, <2>3
  <2>5. NextSpent(m.terms.dailyLimit, GlobalRemaining(v), r.amount) <= m.terms.dailyLimit
    BY <1>1, <2>1, <2>4, RoomIsSeen DEF GlobalRemaining
  <2>6. NextSpent(m.terms.limits[r.to], ServiceRemaining(v, r.to), r.amount)
          <= m.terms.limits[r.to]
    BY <1>1, <2>1, <2>4, RoomIsSeen DEF ServiceRemaining
  <2>7. CanPull(v, r, v.now)
    BY <1>1, <1>11, <2>1, <2>5, <2>6 DEF CanPull
  <2> QED BY <2>7
<1> QED
  BY <1>2, <1>3, <1>4, <1>5, <1>6, <1>7, <1>8, <1>9, <1>10, <1>11

\* What an affordable pull is refused for on what was read, then or later, is
\* something canAfford does not look at.
LEMMA AffordableCovers ==
    ASSUME NEW v \in View, NEW w \in View, NEW r \in Request, NEW t \in Nat,
           w.now <= t, r.service \in {r.to, None},
           w.mandate = v.mandate, w.balance = v.balance,
           Affordable(v, w, r)
    PROVE  Refusals(v.mandate, v.balance, v.stopped, r.to, r.amount, t)
             \subseteq {"LifetimeCap", "AmountTooSmall", "Cooldown"} \cup
                       (IF r.service = None
                        THEN {"UnauthorizedService", "ServiceDailyLimit"} ELSE {})
<1> DEFINE m == v.mandate
<1>1. /\ m \in Mandate /\ w.now \in Nat /\ v.balance \in Nat
      /\ r.to \in Services /\ r.amount \in Nat \ {0}
  BY DEF View, Request
<1>2. Counted(m.daily, t) + r.amount <= m.terms.dailyLimit
  <2>1. m.daily \in Counter /\ m.terms.dailyLimit \in Nat
    BY <1>1, MandateParts
  <2>2. ClampRemaining(m.terms.dailyLimit, SpentInWindow(m.daily, w.now)) >= r.amount
    BY DEF Affordable, GlobalRemaining
  <2> QED
    BY <1>1, <2>1, <2>2, RoomIsThere
<1>3. m.status = "active" /\ ~v.stopped /\ v.balance >= r.amount
  BY DEF Affordable, Valid
<1>4. CASE r.service = None
  <2>1. /\ ~(m.status # "active") /\ ~(v.balance < r.amount)
        /\ ~(Counted(m.daily, t) + r.amount > m.terms.dailyLimit)
    <3>1. m.daily \in Counter /\ m.terms.dailyLimit \in Nat
      BY <1>1, MandateParts
    <3>2. Counted(m.daily, t) \in Nat
      BY <1>1, <3>1, CountedLess
    <3> QED
      BY <1>1, <1>2, <1>3, <3>1, <3>2
  <2> QED
    BY <1>3, <1>4, <2>1 DEF Refusals, Errors
<1>5. CASE r.service # None
  <2>1. r.service = r.to /\ r.to \in m.terms.listed
    BY <1>5 DEF Affordable, Valid
  <2>2. Counted(m.services[r.to], t) + r.amount <= m.terms.limits[r.to]
    <3>1. m.services[r.to] \in Counter /\ m.terms.limits[r.to] \in Nat
      BY <1>1, MandateParts
    <3>2. ClampRemaining(m.terms.limits[r.to],
                         SpentInWindow(m.services[r.to], w.now)) >= r.amount
      BY <2>1 DEF Affordable, ServiceRemaining
    <3> QED
      BY <1>1, <3>1, <3>2, RoomIsThere
  <2>3. /\ ~(m.status # "active") /\ ~(v.balance < r.amount)
        /\ ~(Counted(m.daily, t) + r.amount > m.terms.dailyLimit)
        /\ ~(Counted(m.services[r.to], t) + r.amount > m.terms.limits[r.to])
    <3>1. /\ m.daily \in Counter /\ m.terms.dailyLimit \in Nat
          /\ m.services[r.to] \in Counter /\ m.terms.limits[r.to] \in Nat
      BY <1>1, MandateParts
    <3>2. Counted(m.daily, t) \in Nat /\ Counted(m.services[r.to], t) \in Nat
      BY <1>1, <3>1, CountedLess
    <3> QED
      BY <1>1, <1>2, <1>3, <2>2, <3>1, <3>2
  <2> QED
    BY <1>3, <2>1, <2>3 DEF Refusals, Errors
<1> QED
  BY <1>4, <1>5

\* What canAfford calls not affordable on what was read is refused on it, at that
\* time.
LEMMA UnaffordableIsRefused ==
    ASSUME NEW v \in View, NEW w \in View, NEW r \in Request,
           r.service \in {r.to, None},
           w.mandate = v.mandate, w.balance = v.balance, ~Affordable(v, w, r)
    PROVE  Refusals(v.mandate, v.balance, v.stopped, r.to, r.amount, w.now) # {}
<1> DEFINE m == v.mandate
           R == Refusals(v.mandate, v.balance, v.stopped, r.to, r.amount, w.now)
<1>1. /\ m \in Mandate /\ w.now \in Nat /\ v.balance \in Nat
      /\ r.to \in Services /\ r.amount \in Nat \ {0}
  BY DEF View, Request
<1>2. /\ m.daily \in Counter /\ m.terms.dailyLimit \in Nat
      /\ m.services[r.to] \in Counter /\ m.terms.limits[r.to] \in Nat
  BY <1>1, MandateParts
<1>3. /\ Counted(m.daily, w.now) \in Nat /\ Counted(m.services[r.to], w.now) \in Nat
  <2>1. w.now <= w.now
    BY <1>1
  <2> QED
    BY <1>1, <1>2, <2>1, CountedLess
<1>4. CASE m.status # "active"
  <2>1. "NotActive" \in R BY <1>4 DEF Refusals, Errors
  <2> QED BY <2>1
<1>5. CASE v.stopped
  <2>1. "ProtocolPaused" \in R BY <1>5 DEF Refusals, Errors
  <2> QED BY <2>1
<1>6. CASE r.service # None /\ r.service \notin m.terms.listed
  <2>1. "UnauthorizedService" \in R BY <1>6 DEF Refusals, Errors
  <2> QED BY <2>1
<1>7. CASE v.balance < r.amount
  <2>1. "InsufficientBalance" \in R BY <1>7 DEF Refusals, Errors
  <2> QED BY <2>1
<1>8. CASE ~(GlobalRemaining(w) >= r.amount)
  <2>1. ~(Counted(m.daily, w.now) + r.amount <= m.terms.dailyLimit)
    BY <1>1, <1>2, <1>8, RoomIsSeen DEF GlobalRemaining
  <2>2. "DailyLimit" \in R
    BY <1>1, <1>2, <1>3, <2>1 DEF Refusals, Errors
  <2> QED BY <2>2
<1>9. CASE r.service \in m.terms.listed /\ ~(ServiceRemaining(w, r.service) >= r.amount)
  <2>1. r.service = r.to
    BY <1>1, <1>9 DEF Mandate, Terms
  <2>2. ~(Counted(m.services[r.to], w.now) + r.amount <= m.terms.limits[r.to])
    BY <1>1, <1>2, <1>9, <2>1, RoomIsSeen DEF ServiceRemaining
  <2>3. "ServiceDailyLimit" \in R
    BY <1>1, <1>2, <1>3, <2>2 DEF Refusals, Errors
  <2> QED BY <2>3
<1>10. v.balance >= r.amount => v.balance > 0
  BY <1>1
<1> QED
  BY <1>1, <1>4, <1>5, <1>6, <1>7, <1>8, <1>9, <1>10 DEF Affordable, Valid

\* What is announced to remain of a limit after a pull is what remains of it right
\* after the pull, or less if the window has ended in between.
LEMMA LeftIsLeft ==
    ASSUME NEW c \in Counter, NEW limit \in Nat, NEW amount \in Nat \ {0},
           NEW now \in Nat, NEW t \in Nat, now <= t,
           NextSpent(limit, ClampRemaining(limit, SpentInWindow(c, now)), amount) <= limit
    PROVE  LET left == ClampRemaining(limit, SpentInWindow(Charged(c, amount, t), t))
               announced == LeftAfter(limit, ClampRemaining(limit, SpentInWindow(c, now)),
                                      amount)
           IN  left >= announced /\ (t = now => left = announced)
<1>1. /\ SpentInWindow(c, now) \in Nat /\ Counted(c, t) \in Nat
      /\ Counted(c, t) <= SpentInWindow(c, now)
      /\ now = t => Counted(c, t) = SpentInWindow(c, now)
  BY CountedLess
<1>2. /\ SpentInWindow(c, now) + amount <= limit
      /\ LeftAfter(limit, ClampRemaining(limit, SpentInWindow(c, now)), amount)
           = limit - (SpentInWindow(c, now) + amount)
  BY <1>1, ClampIsHarmless
<1>3. SpentInWindow(Charged(c, amount, t), t) = Counted(c, t) + amount
  BY CountedAfter
<1>4. ClampRemaining(limit, Counted(c, t) + amount) = limit - (Counted(c, t) + amount)
  BY <1>1, <1>2 DEF ClampRemaining
<1> QED
  BY <1>1, <1>2, <1>3, <1>4

-----------------------------------------------------------------------------
(* What holds in every state.                                              *)

\* A request names no service, or the one it pays; a call takes the time before it
\* decides, and decides by what it has read.
Asked ==
    request # None =>
        /\ request.service \in {request.to, None}
        /\ request.kind = "validate" => request.service = request.to

TimeTaken == pc = "reading" => \A k \in Reads : view[k].now <= local

DecidedWell ==
    pc = "yes" =>
        /\ \A k \in Reads : view[k].now <= later
        /\ request.kind = "validate" => CanPull(view["verify"], request, later)
        /\ request.kind = "afford" =>
             Affordable(view["verify"], view["budget"], request)

PulledBefore == mandate.lastPullAt <= clock

IndInv == TypeOK /\ Asked /\ TimeTaken /\ DecidedWell /\ PulledBefore

\* New mandates, and mandates after each transaction, are mandates.
LEMMA NewMandateType ==
    ASSUME NEW terms \in Terms, NEW t \in Nat,
           NEW status \in {"none", "active", "paused", "revoked"}
    PROVE  NewMandate(status, terms, t) \in Mandate
<1>1. [spent |-> 0, since |-> t] \in Counter
  BY DEF Counter
<1>2. [s \in Services |-> NewCounter(s, terms, t)] \in [Services -> Counter]
  BY DEF NewCounter, Counter
<1> QED
  BY <1>1, <1>2 DEF NewMandate, Mandate

\* An account that was not read counts as a view.
LEMMA NoViewType == NoView \in View
<1>1. NoTerms \in Terms
  BY DEF NoTerms, Terms
<1> QED
  BY <1>1, NewMandateType DEF NoView, View

\* A pull leaves a budget that is a budget.
LEMMA AfterPullType ==
    ASSUME NEW m \in Mandate, NEW s \in Services, NEW amount \in Amounts, NEW t \in Nat
    PROVE  AfterPull(m, s, amount, t) \in Mandate
<1>1. amount \in Nat
  OBVIOUS
<1>2. Charged(m.daily, amount, t) \in Counter
      /\ Charged(m.services[s], amount, t) \in Counter
  BY <1>1, MandateParts, CountedAfter
<1>3. /\ [m.services EXCEPT ![s] = Charged(@, amount, t)] \in [Services -> Counter]
      /\ m.totalSpent + amount \in Nat
  BY <1>1, <1>2, MandateParts DEF Mandate
<1> QED
  BY <1>2, <1>3 DEF AfterPull, Mandate

\* So does an adjustment.
LEMMA AdjustedType ==
    ASSUME NEW m \in Mandate, NEW terms \in Terms, NEW keep \in BOOLEAN, NEW t \in Nat
    PROVE  Adjusted(m, terms, keep, t) \in Mandate
<1>1. \A s \in Services : NewCounter(s, terms, t) \in Counter
  BY DEF NewCounter, Counter
<1>2. \A s \in Services : m.services[s] \in Counter
  BY MandateParts
<1> QED
  BY <1>1, <1>2 DEF Adjusted, Mandate

\* A pull the program executes leaves a mandate, and takes no more than there is.
LEMMA PullType ==
    ASSUME TypeOK, NEW to \in Services, NEW amount \in Amounts, Pull(to, amount)
    PROVE  mandate' \in Mandate /\ balance' \in Nat /\ mandate'.lastPullAt = clock
<1>1. ~(balance < amount)
  <2>1. "InsufficientBalance" \notin
          Refusals(mandate, balance, stopped, to, amount, clock)
    BY DEF Pull
  <2> QED
    BY <2>1 DEF Refusals, Errors
<1>2. mandate' \in Mandate
  BY AfterPullType DEF Pull, TypeOK
<1>3. mandate'.lastPullAt = clock
  BY DEF Pull, AfterPull, TypeOK, Mandate
<1> QED
  BY <1>1, <1>2, <1>3 DEF Pull, TypeOK

\* What is left of a call that is over satisfies every part of the invariant.
LEMMA EndKeeps ==
    ASSUME NEW outcome \in Ended, End(outcome)
    PROVE  /\ pc' \in Ended /\ request' = None
           /\ view' \in [Reads -> View] /\ later' \in Nat
           /\ Asked' /\ TimeTaken' /\ DecidedWell'
<1>1. view' \in [Reads -> View]
  BY NoViewType DEF End
<1> QED
  BY <1>1 DEF End, Ended, Asked, TimeTaken, DecidedWell

\* The invariant holds at first.
LEMMA InitHolds == Init => IndInv
<1> SUFFICES ASSUME Init PROVE IndInv
  OBVIOUS
<1>1. NoTerms \in Terms
  BY DEF NoTerms, Terms
<1>2. NewMandate("none", NoTerms, 0) \in Mandate
  BY <1>1, NewMandateType
<1>3. TypeOK
  BY <1>2, NoViewType DEF Init, TypeOK, Ended
<1> QED
  BY <1>3 DEF Init, IndInv, Asked, TimeTaken, DecidedWell, PulledBefore, NewMandate

-----------------------------------------------------------------------------
(* The steps.                                                              *)

\* A transaction of another, and the passing of time, leave the call alone.
LEMMA OthersStep == IndInv /\ Others => IndInv'
<1> SUFFICES ASSUME IndInv, Others PROVE IndInv'
  OBVIOUS
<1> USE DEF IndInv, callVars
<1>1. CASE ChainTicks
  BY <1>1 DEF ChainTicks, TypeOK, Asked, TimeTaken, DecidedWell, PulledBefore, Mandate
<1>2. CASE LocalTicks
  BY <1>2 DEF LocalTicks, chainVars, TypeOK, Asked, TimeTaken, DecidedWell,
              PulledBefore, View
<1> DEFINE Transaction == /\ mandate' \in Mandate /\ balance' \in Nat
                          /\ stopped' \in BOOLEAN
                          /\ mandate'.lastPullAt <= clock
                          /\ Write /\ UNCHANGED <<clock, local, callVars>>
<1>3. Transaction => IndInv'
  BY DEF Write, TypeOK, Asked, TimeTaken, DecidedWell, PulledBefore
<1>4. CASE AgentPull
  <2>1. PICK to \in Services, amount \in Amounts : Pull(to, amount)
    BY <1>4 DEF AgentPull
  <2>2. mandate' \in Mandate /\ balance' \in Nat /\ mandate'.lastPullAt = clock
    BY <2>1, PullType
  <2>3. Transaction
    BY <1>4, <2>2 DEF AgentPull, TypeOK
  <2> QED
    BY <1>3, <2>3
<1>5. CASE CreateMandate
  <2>1. PICK terms \in Offers, amount \in Amounts :
          mandate' = NewMandate("active", terms, clock) /\ balance' = amount
    BY <1>5 DEF CreateMandate
  <2>2. mandate' \in Mandate
    BY <2>1, NewMandateType DEF TypeOK
  <2>3. mandate'.lastPullAt = 0
    BY <2>1 DEF NewMandate
  <2>4. Transaction
    BY <1>5, <2>1, <2>2, <2>3 DEF CreateMandate, TypeOK
  <2> QED
    BY <1>3, <2>4
<1>6. CASE TopUp
  <2>1. Transaction
    BY <1>6 DEF TopUp, TypeOK, PulledBefore
  <2> QED
    BY <1>3, <2>1
<1>7. CASE Adjust
  <2>1. PICK terms \in Offers, keep \in BOOLEAN :
          mandate' = Adjusted(mandate, terms, keep, clock)
    BY <1>7 DEF Adjust
  <2>2. mandate' \in Mandate
    BY <2>1, AdjustedType DEF TypeOK
  <2>3. mandate'.lastPullAt = mandate.lastPullAt
    BY <2>1 DEF Adjusted, TypeOK, Mandate
  <2>4. Transaction
    BY <1>7, <2>2, <2>3 DEF Adjust, TypeOK, PulledBefore
  <2> QED
    BY <1>3, <2>4
<1>8. CASE PauseMandate
  <2>1. mandate' \in Mandate /\ mandate'.lastPullAt = mandate.lastPullAt
    BY <1>8 DEF PauseMandate, TypeOK, Mandate
  <2>2. Transaction
    BY <1>8, <2>1 DEF PauseMandate, TypeOK, PulledBefore
  <2> QED
    BY <1>3, <2>2
<1>9. CASE ResumeMandate
  <2>1. mandate' \in Mandate /\ mandate'.lastPullAt = mandate.lastPullAt
    BY <1>9 DEF ResumeMandate, TypeOK, Mandate
  <2>2. Transaction
    BY <1>9, <2>1 DEF ResumeMandate, TypeOK, PulledBefore
  <2> QED
    BY <1>3, <2>2
<1>10. CASE Revoke
  <2>1. mandate' \in Mandate /\ mandate'.lastPullAt = mandate.lastPullAt
    BY <1>10 DEF Revoke, TypeOK, Mandate
  <2>2. Transaction
    BY <1>10, <2>1 DEF Revoke, TypeOK, PulledBefore
  <2> QED
    BY <1>3, <2>2
<1>11. CASE Drain
  <2>1. Transaction
    BY <1>11 DEF Drain, TypeOK, PulledBefore
  <2> QED
    BY <1>3, <2>1
<1>12. CASE SwitchProtocol
  <2>1. Transaction
    BY <1>12 DEF SwitchProtocol, TypeOK, PulledBefore
  <2> QED
    BY <1>3, <2>1
<1> QED
  BY <1>1, <1>2, <1>4, <1>5, <1>6, <1>7, <1>8, <1>9, <1>10, <1>11, <1>12 DEF Others

\* A step of the call.
LEMMA CallStep == IndInv /\ Call => IndInv'
<1> SUFFICES ASSUME IndInv, Call PROVE IndInv'
  OBVIOUS
<1> USE DEF IndInv, chainVars
<1> DEFINE Over == /\ \E outcome \in Ended : End(outcome)
                   /\ mandate' \in Mandate /\ balance' \in Nat
                   /\ mandate'.lastPullAt <= clock
                   /\ UNCHANGED <<stopped, clock, local, writes>>
<1>1. Over => IndInv'
  <2> SUFFICES ASSUME Over PROVE IndInv'
    OBVIOUS
  <2>1. PICK outcome \in Ended : End(outcome)
    OBVIOUS
  <2> QED
    BY <2>1, EndKeeps DEF TypeOK, PulledBefore
<1>2. CASE Begin
  <2>1. view' \in [Reads -> View]
    BY <1>2, NoViewType DEF Begin, TypeOK, View, Reads
  <2>2. request' # None
    BY <1>2 DEF Begin
  <2>3. \A k \in Reads : view'[k].now = local
    BY <1>2 DEF Begin, NoView
  <2>4. /\ pc' = "reading" /\ request' \in Request
        /\ UNCHANGED <<mandate, balance, stopped, clock, writes, local, later>>
    BY <1>2 DEF Begin
  <2>5. TypeOK'
    BY <2>1, <2>2, <2>4 DEF TypeOK, Ended
  <2>6. request'.service \in {request'.to, None}
        /\ (request'.kind = "validate" => request'.service = request'.to)
    BY <1>2 DEF Begin
  <2>7. Asked'
    BY <2>6 DEF Asked
  <2>8. TimeTaken' /\ DecidedWell' /\ PulledBefore'
    BY <2>3, <2>4 DEF TimeTaken, DecidedWell, PulledBefore, TypeOK
  <2> QED
    BY <2>5, <2>7, <2>8
<1>3. ASSUME NEW k \in Reads, ReadMandate(k) PROVE IndInv'
  <2>1. CASE End("failed")
    BY <1>1, <1>3, <2>1 DEF ReadMandate, TypeOK, PulledBefore, Ended
  <2>2. CASE /\ view' = [view EXCEPT ![k].mandate = mandate, ![k].step = "balance"]
             /\ UNCHANGED <<pc, request, later>>
    BY <1>3, <2>2 DEF ReadMandate, ReadsNext, TypeOK, View, Asked, TimeTaken,
                      DecidedWell, PulledBefore
  <2> QED
    BY <1>3, <2>1, <2>2 DEF ReadMandate
<1>4. ASSUME NEW k \in Reads, ReadBalance(k) PROVE IndInv'
  BY <1>4 DEF ReadBalance, ReadsNext, TypeOK, View, Asked, TimeTaken, DecidedWell,
              PulledBefore
<1>5. ASSUME NEW k \in Reads, ReadConfig(k) PROVE IndInv'
  BY <1>5 DEF ReadConfig, ReadsNext, TypeOK, View, Asked, TimeTaken, DecidedWell,
              PulledBefore
<1>6. CASE ReadFails
  BY <1>1, <1>6 DEF ReadFails, TypeOK, PulledBefore, Ended
<1>7. CASE Decide
  <2>1. CASE ~Verdict /\ End("no")
    BY <1>1, <1>7, <2>1 DEF Decide, TypeOK, PulledBefore, Ended
  <2>2. CASE /\ Verdict /\ pc' = "yes" /\ later' = local
             /\ UNCHANGED <<request, view>>
    <3>1. pc = "reading"
      BY <1>7 DEF Decide, ReadsNext, Reads
    <3>2. DecidedWell'
      BY <2>2, <3>1 DEF TimeTaken, Verdict, DecidedWell
    <3> QED
      BY <1>7, <2>2, <3>1, <3>2
         DEF Decide, TypeOK, Ended, Asked, TimeTaken, PulledBefore
  <2> QED
    BY <1>7, <2>1, <2>2 DEF Decide
<1>8. CASE PullDecided
  <2>1. request \in Request
    BY <1>8 DEF PullDecided, TypeOK, Ended
  <2>2. CASE Pull(request.to, request.amount) /\ End("pulled")
    <3>1. mandate' \in Mandate /\ balance' \in Nat /\ mandate'.lastPullAt = clock
      BY <2>1, <2>2, PullType DEF Request
    <3>2. Over
      BY <1>8, <2>2, <3>1 DEF PullDecided, TypeOK, Ended
    <3> QED
      BY <1>1, <3>2
  <2>3. CASE End("refused") /\ UNCHANGED <<mandate, balance>>
    BY <1>1, <1>8, <2>3 DEF PullDecided, TypeOK, PulledBefore, Ended
  <2> QED
    BY <1>8, <2>2, <2>3 DEF PullDecided
<1> QED
  BY <1>2, <1>3, <1>4, <1>5, <1>6, <1>7, <1>8 DEF Call

\* TypeOK and what the verdicts rest on hold in every state.
THEOREM Invariance == Spec => []IndInv
<1>1. IndInv /\ UNCHANGED vars => IndInv'
  BY DEF IndInv, vars, chainVars, callVars, TypeOK, Asked, TimeTaken, DecidedWell,
         PulledBefore
<1>2. IndInv /\ [Next]_vars => IndInv'
  BY <1>1, OthersStep, CallStep DEF Next
<1> QED
  BY InitHolds, <1>2, PTL DEF Spec

\* TypeOK holds in every state.
THEOREM TypeCorrect == Spec => []TypeOK
BY Invariance, PTL DEF IndInv

-----------------------------------------------------------------------------
(* The promises.                                                           *)

\* What a pull that validateAgentPull allowed meets, if nothing has changed.
LEMMA StillAccepted ==
    ASSUME IndInv, PullDecided, request.kind = "validate", StillSo("verify"),
           later <= clock
    PROVE  /\ Refusals(mandate, balance, stopped, request.to, request.amount, clock) = {}
           /\ CanPull(view["verify"], request, later)
           /\ view["verify"].now <= later
<1>1. /\ CanPull(view["verify"], request, later)
      /\ view["verify"].now <= later
  BY DEF IndInv, DecidedWell, PullDecided, Reads
<1>2. view["verify"] \in View /\ request \in Request /\ later \in Nat /\ clock \in Nat
  BY DEF IndInv, TypeOK, PullDecided, Ended, Reads
<1>3. view["verify"].mandate.lastPullAt <= clock
  BY DEF StillSo, IndInv, PulledBefore
<1>4. Refusals(view["verify"].mandate, view["verify"].balance, view["verify"].stopped,
               request.to, request.amount, clock) = {}
  BY <1>1, <1>2, <1>3, CanPullIsAccepted
<1> QED
  BY <1>1, <1>4 DEF StillSo

\* ValidatedIsAccepted: a pull that validateAgentPull allowed is executed, if nothing
\* has changed and the clock it was judged by is not ahead of the chain's.
THEOREM ValidatedPullsAreAccepted == Spec => ValidatedIsAccepted
<1>1. ASSUME IndInv, PullDecided, request.kind = "validate", StillSo("verify"),
             later <= clock
      PROVE  pc' = "pulled"
  BY <1>1, StillAccepted DEF PullDecided, End
<1> QED
  BY <1>1, Invariance, PTL DEF ValidatedIsAccepted

\* AffordableUnlessUnseen: a pull that canAfford allowed is refused, if nothing has
\* changed, only for what canAfford does not look at.
THEOREM AffordableMeansRoom == Spec => AffordableUnlessUnseen
<1>1. ASSUME IndInv, PullDecided, request.kind = "afford",
             \A k \in Reads : StillSo(k), later <= clock
      PROVE  Refusals(mandate, balance, stopped, request.to, request.amount, clock)
               \subseteq Unseen
  <2>1. /\ Affordable(view["verify"], view["budget"], request)
        /\ view["budget"].now <= later
    BY <1>1 DEF IndInv, DecidedWell, PullDecided, Reads
  <2>2. /\ view["verify"] \in View /\ view["budget"] \in View
        /\ request \in Request /\ later \in Nat /\ clock \in Nat
    BY <1>1 DEF IndInv, TypeOK, PullDecided, Ended, Reads
  <2>3. request.service \in {request.to, None}
    BY <1>1, <2>2 DEF IndInv, Asked
  <2>4. /\ view["verify"].mandate = mandate /\ view["verify"].balance = balance
        /\ view["verify"].stopped = stopped
        /\ view["budget"].mandate = mandate /\ view["budget"].balance = balance
    BY <1>1 DEF StillSo, Reads
  <2>5. view["budget"].now <= clock
    BY <1>1, <2>1, <2>2 DEF View
  <2> QED
    BY <2>1, <2>2, <2>3, <2>4, <2>5, AffordableCovers DEF Unseen
<1> QED
  BY <1>1, Invariance, PTL DEF AffordableUnlessUnseen

\* RefusalIsRight: what validateAgentPull or canAfford says no to, the program would
\* refuse at that moment.
THEOREM RefusalsAreRight == Spec => RefusalIsRight
<1>1. ASSUME IndInv, Decide, pc' = "no",
             \A k \in Reads : view[k].now = local,
             StillSo("verify"), request.kind = "afford" => StillSo("budget"),
             clock = local
      PROVE  Refusals(mandate, balance, stopped, request.to, request.amount, clock) # {}
  <2>1. ~Verdict
    BY <1>1 DEF Decide
  <2>2. /\ view["verify"] \in View /\ view["budget"] \in View /\ request \in Request
    BY <1>1 DEF IndInv, TypeOK, Decide, ReadsNext, Ended, Reads
  <2>3. /\ view["verify"].mandate = mandate /\ view["verify"].balance = balance
        /\ view["verify"].stopped = stopped
        /\ view["verify"].now = clock /\ view["budget"].now = clock
    BY <1>1 DEF StillSo, Reads
  <2>4. CASE request.kind = "validate"
    <3>1. ~CanPull(view["verify"], request, view["verify"].now)
      BY <1>1, <2>1, <2>3, <2>4 DEF Verdict
    <3> QED
      BY <2>2, <2>3, <3>1, CannotPullIsRefused
  <2>5. CASE request.kind = "afford"
    <3>1. ~Affordable(view["verify"], view["budget"], request)
      BY <2>1, <2>5 DEF Verdict
    <3>2. view["budget"].mandate = mandate /\ view["budget"].balance = balance
      BY <1>1, <2>5 DEF StillSo
    <3>3. request.service \in {request.to, None}
      BY <1>1, <2>2 DEF IndInv, Asked
    <3> QED
      BY <2>2, <2>3, <3>1, <3>2, <3>3, UnaffordableIsRefused
  <2> QED
    BY <2>2, <2>4, <2>5 DEF Request
<1> QED
  BY <1>1, Invariance, PTL DEF RefusalIsRight

\* PreviewComesTrue: what validateAgentPull announced to remain does remain.
THEOREM PreviewsComeTrue == Spec => PreviewComesTrue
<1> DEFINE v == view["verify"]
           after == [v EXCEPT !.mandate = mandate', !.now = clock]
           global == LeftAfter(v.mandate.terms.dailyLimit, GlobalRemaining(v),
                               request.amount)
           service == LeftAfter(v.mandate.terms.limits[request.to],
                                ServiceRemaining(v, request.to), request.amount)
<1>1. ASSUME IndInv, PullDecided, request.kind = "validate", pc' = "pulled",
             StillSo("verify"), later <= clock
      PROVE  /\ GlobalRemaining(after) >= global
             /\ ServiceRemaining(after, request.to) >= service
             /\ clock = v.now => /\ GlobalRemaining(after) = global
                                 /\ ServiceRemaining(after, request.to) = service
  <2>1. CanPull(v, request, later) /\ v.now <= later
    BY <1>1, StillAccepted
  <2>2. /\ v \in View /\ request \in Request /\ later \in Nat /\ clock \in Nat
        /\ v.mandate = mandate
    BY <1>1 DEF IndInv, TypeOK, PullDecided, Ended, Reads, StillSo
  <2>3. mandate \in Mandate /\ v.now \in Nat /\ v.now <= clock
        /\ request.to \in Services /\ request.amount \in Nat \ {0}
    <3>1. v.now \in Nat /\ mandate \in Mandate
      BY <2>2 DEF View
    <3>2. v.now <= clock
      BY <1>1, <2>1, <2>2, <3>1
    <3>3. request.to \in Services /\ request.amount \in Nat \ {0}
      BY <2>2 DEF Request
    <3> QED
      BY <3>1, <3>2, <3>3
  <2>4. /\ mandate.daily \in Counter /\ mandate.terms.dailyLimit \in Nat
        /\ mandate.services[request.to] \in Counter
        /\ mandate.terms.limits[request.to] \in Nat
    BY <2>3, MandateParts
  <2>5. mandate' = AfterPull(mandate, request.to, request.amount, clock)
    BY <1>1 DEF PullDecided, Pull, End
  <2>6. /\ mandate'.terms = mandate.terms
        /\ mandate'.daily = Charged(mandate.daily, request.amount, clock)
        /\ mandate'.services[request.to]
             = Charged(mandate.services[request.to], request.amount, clock)
    BY <2>3, <2>5 DEF AfterPull, Mandate
  <2>7. after.mandate = mandate' /\ after.now = clock
    BY <2>2 DEF View
  <2>8. /\ GlobalRemaining(after) >= global
        /\ clock = v.now => GlobalRemaining(after) = global
    <3>1. NextSpent(mandate.terms.dailyLimit,
                    ClampRemaining(mandate.terms.dailyLimit,
                                   SpentInWindow(mandate.daily, v.now)),
                    request.amount) <= mandate.terms.dailyLimit
      BY <2>1, <2>2 DEF CanPull, GlobalRemaining
    <3> QED
      BY <2>2, <2>3, <2>4, <2>6, <2>7, <3>1, LeftIsLeft DEF GlobalRemaining
  <2>9. /\ ServiceRemaining(after, request.to) >= service
        /\ clock = v.now => ServiceRemaining(after, request.to) = service
    <3>1. NextSpent(mandate.terms.limits[request.to],
                    ClampRemaining(mandate.terms.limits[request.to],
                                   SpentInWindow(mandate.services[request.to], v.now)),
                    request.amount) <= mandate.terms.limits[request.to]
      BY <2>1, <2>2 DEF CanPull, ServiceRemaining
    <3> QED
      BY <2>2, <2>3, <2>4, <2>6, <2>7, <3>1, LeftIsLeft DEF ServiceRemaining
  <2> QED
    BY <2>8, <2>9
<1> QED
  BY <1>1, Invariance, PTL DEF PreviewComesTrue
=============================================================================
