--------------------------- MODULE ChargesProofs ----------------------------
(***************************************************************************)
(* Theorems about what is charged: Streams, for any rates, caps, intervals *)
(* and any number of transactions, and PlanChanges, for any amounts, period,*)
(* token and any number of changes.                                        *)
(***************************************************************************)
EXTENDS Streams, PlanChanges, SequenceTheorems, WellFoundedInduction, TLAPS

\* The books: nothing is settled in the future, and no more than the cap; only a
\* creation counts.
BooksBalance ==
    /\ stream.lastSettled <= streamClock
    /\ stream.cap # NoCap => stream.total <= stream.cap
    /\ stream.status = "absent" => stream.total = 0 /\ streamCounter = 0

\* An update under way says what is wanted, as a difference from what it was
\* computed from, and has the signature the SDK found it to need.
UpdateIsFor(t) ==
    t.op = "update" =>
      /\ t.wanted[1] # NoRate /\ t.wanted[2] # NoRate
      /\ t.rate = RateOption(t.wanted[1], t.base)
      /\ t.maxRate = CeilingOption(t.wanted[2], t.base)
      /\ RequiresSubscriberSig(t.wanted[1], t.wanted[2], t.base[2]) => t.by = "subscriber"

\* Only a creation is built for a stream that does not exist.
OfAStream(t) == stream.status = "absent" => t.op = "create"

StreamsInv ==
    /\ StreamsTypeOK
    /\ BooksBalance
    /\ \A t \in streamTxs : UpdateIsFor(t)
    /\ \A t \in streamTxs : OfAStream(t)

-----------------------------------------------------------------------------
(* What accrues                                                            *)

\* It is a natural number, and with what was paid it keeps to the cap.
LEMMA AccruedType ==
    ASSUME NEW m \in Stream, NEW now \in Nat
    PROVE  /\ AccruedNow(m, now) \in Nat
           /\ m.cap # NoCap /\ m.total <= m.cap => m.total + AccruedNow(m, now) <= m.cap
  <1>1. m.rate \in Nat /\ m.total \in Nat /\ m.lastSettled \in Nat /\ m.cap \in Nat \cup {NoCap}
    BY DEF Stream
  <1>2. now >= m.lastSettled => (now - m.lastSettled) * m.rate \in Nat
    <2> DEFINE d == now - m.lastSettled
    <2>1. ASSUME now >= m.lastSettled  PROVE d \in Nat  BY <1>1, <2>1
    <2>2. ASSUME NEW e \in Nat, NEW r \in Nat  PROVE e * r \in Nat  OBVIOUS
    <2> HIDE DEF d
    <2>3. now >= m.lastSettled => d * m.rate \in Nat  BY <1>1, <2>1, <2>2
    <2>4. QED  BY <2>3 DEF d
  <1>3. QED  BY <1>1, <1>2, StreamsAssumption DEF AccruedNow, Least

\* What is paid of a sum that accrued.
Capped(m, gross) ==
    IF m.status # "active" THEN 0
    ELSE IF m.cap = NoCap THEN gross
    ELSE IF m.cap <= m.total THEN 0
    ELSE Least(gross, m.cap - m.total)

\* What accrued is the rate times the time, up to the cap.
LEMMA AccruedForm ==
    ASSUME NEW m, NEW now, ~(now < m.lastSettled)
    PROVE  AccruedNow(m, now) = Capped(m, (now - m.lastSettled) * m.rate)
  BY DEF AccruedNow, Capped

\* It only grows as time passes.
LEMMA AccruedGrows ==
    ASSUME NEW m \in Stream, NEW now \in Nat
    PROVE  AccruedNow(m, now + 1) >= AccruedNow(m, now)
  <1>1. m.rate \in Nat /\ m.total \in Nat /\ m.lastSettled \in Nat /\ m.cap \in Nat \cup {NoCap}
    BY DEF Stream
  <1>2. ASSUME NEW d \in Nat, NEW r \in Nat
        PROVE  d * r \in Nat /\ (d + 1) * r \in Nat /\ (d + 1) * r >= d * r
    OBVIOUS
  <1>3. CASE now >= m.lastSettled
    <2> DEFINE before == (now - m.lastSettled) * m.rate
               after == (now + 1 - m.lastSettled) * m.rate
    <2>1. before \in Nat /\ after \in Nat /\ after >= before
      <3>1. now - m.lastSettled \in Nat /\ now + 1 - m.lastSettled = (now - m.lastSettled) + 1
        BY <1>1, <1>3
      <3>2. QED  BY <1>1, <1>2, <3>1
    <2>2. ~(now < m.lastSettled) /\ ~(now + 1 < m.lastSettled)  BY <1>1, <1>3
    <2> HIDE DEF before, after
    <2>3. /\ AccruedNow(m, now) = Capped(m, before)
          /\ AccruedNow(m, now + 1) = Capped(m, after)
      BY <1>1, <2>2, AccruedForm DEF before, after
    <2>4. QED  BY <1>1, <2>1, <2>3, StreamsAssumption DEF Least, Capped
  <1>4. CASE ~(now >= m.lastSettled)
    <2>1. AccruedNow(m, now) = 0  BY <1>1, <1>4 DEF AccruedNow
    <2>2. AccruedNow(m, now + 1) \in Nat  BY AccruedType
    <2>3. QED  BY <2>1, <2>2
  <1>5. QED  BY <1>3, <1>4

\* A stream that does not run, or was settled this second, has accrued nothing.
LEMMA AccruedNothing ==
    ASSUME NEW m \in Stream, NEW now \in Nat, m.status # "active"
    PROVE  AccruedNow(m, now) = 0
  BY DEF AccruedNow

\* What a settlement leaves: all that was earned is paid, and nothing more has
\* accrued.
LEMMA SettledType ==
    ASSUME NEW m \in Stream, streamClock \in Nat,
           m.cap # NoCap => m.total <= m.cap,
           m.lastSettled <= streamClock
    PROVE  /\ Settled(m) \in Stream
           /\ Settled(m).total = m.total + AccruedNow(m, streamClock)
           /\ Settled(m).cap = m.cap /\ Settled(m).status = m.status
           /\ m.cap # NoCap => Settled(m).total <= m.cap
           /\ Settled(m).lastSettled <= streamClock
  <1>1. /\ AccruedNow(m, streamClock) \in Nat
        /\ m.cap # NoCap => m.total + AccruedNow(m, streamClock) <= m.cap
    BY AccruedType
  <1>2. m.total + AccruedNow(m, streamClock) \in Nat  BY <1>1 DEF Stream
  <1> DEFINE total == m.total + AccruedNow(m, streamClock)
             last == IF m.status = "active" THEN streamClock ELSE m.lastSettled
  <1>3. Settled(m) = [m EXCEPT !.total = total, !.lastSettled = last]  BY DEF Settled
  <1>4. total \in Nat /\ last \in Nat /\ last <= streamClock  BY <1>2 DEF Stream
  <1> HIDE DEF total, last
  <1>5. /\ Settled(m) \in Stream /\ Settled(m).total = total
        /\ Settled(m).cap = m.cap /\ Settled(m).status = m.status
        /\ Settled(m).lastSettled = last
    BY <1>3, <1>4 DEF Stream
  <1>6. QED  BY <1>1, <1>4, <1>5 DEF total

-----------------------------------------------------------------------------
\* The initial states satisfy the invariant.
LEMMA StreamsInitially == StreamsInit => StreamsInv
  BY StreamsAssumption DEF StreamsInit, StreamsInv, StreamsTypeOK, BooksBalance, Stream

\* A builder adds one transaction that is well formed.
LEMMA SendStep ==
    ASSUME StreamsInv, NEW t, SendStreamTx(t), creation' \in {creation, "built"},
           \A id \in 1..MaxStreamTxs : [t EXCEPT !.id = id] \in StreamTx,
           \A id \in 1..MaxStreamTxs : UpdateIsFor([t EXCEPT !.id = id]),
           \A id \in 1..MaxStreamTxs : OfAStream([t EXCEPT !.id = id])
    PROVE  StreamsInv'
  <1> USE StreamsAssumption
  <1>1. streamTxCount + 1 \in 1..MaxStreamTxs
    BY DEF StreamsInv, StreamsTypeOK, SendStreamTx
  <1>2. StreamsTypeOK'  BY <1>1 DEF StreamsInv, StreamsTypeOK, SendStreamTx
  <1>3. BooksBalance'  BY DEF StreamsInv, BooksBalance, SendStreamTx
  <1>4. ASSUME NEW u \in streamTxs'  PROVE UpdateIsFor(u) /\ OfAStream(u)
    BY <1>1 DEF StreamsInv, SendStreamTx
  <1>5. stream' = stream  BY DEF SendStreamTx
  <1>6. \A u \in streamTxs' : UpdateIsFor(u)'
    BY <1>4 DEF UpdateIsFor, RateOption, CeilingOption, RequiresSubscriberSig
  <1>7. \A u \in streamTxs' : OfAStream(u)'  BY <1>4, <1>5 DEF OfAStream
  <1>8. QED  BY <1>2, <1>3, <1>6, <1>7 DEF StreamsInv

\* Building a transaction keeps the invariant.
LEMMA BuildStep ==
    ASSUME StreamsInv,
           \/ \E rate \in Rates, maxRate \in Rates, cap \in Caps : CreateStream(rate, maxRate, cap)
           \/ \E op \in {"execute", "pause", "resume", "cancel"} : BuildFor(op)
           \/ \E rate \in Rates, ceiling \in Rates, by \in {"subscriber", "merchant"} :
                UpgradeRate(rate, ceiling, by)
    PROVE  StreamsInv'
  <1> USE StreamsAssumption
  <1>0. streamCounter \in Nat /\ stream.rate \in Nat /\ stream.maxRate \in Nat
    BY DEF StreamsInv, StreamsTypeOK, Stream
  <1>1. ASSUME NEW rate \in Rates, NEW maxRate \in Rates, NEW cap \in Caps,
               CreateStream(rate, maxRate, cap)
        PROVE  StreamsInv'
    <2> DEFINE t == [EmptyTx EXCEPT !.op = "create", !.rate = rate, !.cap = cap,
                                    !.maxRate = maxRate, !.index = streamCounter]
    <2>1. CASE IntervalFits(cap)
      <3>1. SendStreamTx(t) /\ creation' = "built"  BY <1>1, <2>1 DEF CreateStream
      <3>2. \A id \in 1..MaxStreamTxs : [t EXCEPT !.id = id] \in StreamTx
        BY <1>0 DEF EmptyTx, StreamTx, NoRate, StreamOps
      <3>3. \A id \in 1..MaxStreamTxs : UpdateIsFor([t EXCEPT !.id = id])
        BY DEF EmptyTx, UpdateIsFor
      <3>4. \A id \in 1..MaxStreamTxs : OfAStream([t EXCEPT !.id = id])
        BY DEF EmptyTx, OfAStream
      <3> HIDE DEF t
      <3>5. QED  BY <3>1, <3>2, <3>3, <3>4, SendStep
    <2>2. CASE ~IntervalFits(cap)
      BY <1>1, <2>2 DEF CreateStream, StreamsInv, StreamsTypeOK, BooksBalance, UpdateIsFor,
                             OfAStream
    <2>3. QED  BY <2>1, <2>2
  <1>2. ASSUME NEW op \in {"execute", "pause", "resume", "cancel"}, BuildFor(op)
        PROVE  StreamsInv'
    <2> DEFINE t == [EmptyTx EXCEPT !.op = op]
    <2>1. SendStreamTx(t) /\ creation' = creation  BY <1>2 DEF BuildFor
    <2>2. \A id \in 1..MaxStreamTxs : [t EXCEPT !.id = id] \in StreamTx
      BY DEF EmptyTx, StreamTx, NoRate, StreamOps
    <2>3. \A id \in 1..MaxStreamTxs : UpdateIsFor([t EXCEPT !.id = id])
      BY DEF EmptyTx, UpdateIsFor
    <2>4. \A id \in 1..MaxStreamTxs : OfAStream([t EXCEPT !.id = id])
      BY <1>2 DEF BuildFor, OfAStream
    <2> HIDE DEF t
    <2>5. QED  BY <2>1, <2>2, <2>3, <2>4, SendStep
  <1>3. ASSUME NEW rate \in Rates, NEW ceiling \in Rates, NEW by \in {"subscriber", "merchant"},
               UpgradeRate(rate, ceiling, by)
        PROVE  StreamsInv'
    <2> DEFINE base == <<stream.rate, stream.maxRate>>
               t == [EmptyTx EXCEPT !.op = "update", !.by = by,
                       !.rate = RateOption(rate, base),
                       !.maxRate = CeilingOption(ceiling, base),
                       !.base = base, !.wanted = <<rate, ceiling>>]
    <2>1. SendStreamTx(t) /\ creation' = creation
          /\ (RequiresSubscriberSig(rate, ceiling, base[2]) => by = "subscriber")
      BY <1>3 DEF UpgradeRate
    <2>2. /\ rate \in Nat \ {0} /\ ceiling \in Nat \ {0}
          /\ RateOption(rate, base) \in Nat /\ CeilingOption(ceiling, base) \in Nat
      BY DEF RateOption, CeilingOption, NoRate
    <2>3. base \in Nat \X Nat /\ <<rate, ceiling>> \in Nat \X Nat  BY <1>0, <2>2
    <2> HIDE DEF base
    <2>4. \A id \in 1..MaxStreamTxs : [t EXCEPT !.id = id] \in StreamTx
      BY <2>2, <2>3 DEF EmptyTx, StreamTx, StreamOps
    <2>5. \A id \in 1..MaxStreamTxs : UpdateIsFor([t EXCEPT !.id = id])
      BY <2>1, <2>2 DEF EmptyTx, UpdateIsFor, NoRate
    <2>6. \A id \in 1..MaxStreamTxs : OfAStream([t EXCEPT !.id = id])
      BY <1>3 DEF UpgradeRate, OfAStream
    <2> HIDE DEF t
    <2>7. QED  BY <2>1, <2>4, <2>5, <2>6, SendStep
  <1>4. QED  BY <1>1, <1>2, <1>3

-----------------------------------------------------------------------------
(* The program                                                             *)

\* What is left of the stream by a transaction that is not refused.
AppliedWell(m) ==
    /\ m \in Stream /\ m.status # "absent"
    /\ m.lastSettled <= streamClock
    /\ m.cap # NoCap => m.total <= m.cap
    /\ m.total + AccruedNow(m, streamClock) >= Earned

\* What is not refused leaves the books balanced, and nothing earned is lost.
LEMMA AppliedIsWell ==
    ASSUME StreamsInv, NEW t \in streamTxs, StreamRefusals(t) = {}
    PROVE  AppliedWell(Applied(t))
  <1> USE StreamsAssumption
  <1>0. /\ streamClock \in Nat /\ streamCounter \in Nat /\ stream \in Stream /\ t \in StreamTx
        /\ stream.cap # NoCap => stream.total <= stream.cap
        /\ stream.lastSettled <= streamClock
        /\ stream.status = "absent" => stream.total = 0
    BY DEF StreamsInv, StreamsTypeOK, BooksBalance
  <1>1. /\ stream.total \in Nat /\ stream.rate \in Nat /\ stream.maxRate \in Nat
        /\ AccruedNow(stream, streamClock) \in Nat
    BY <1>0, AccruedType DEF Stream
  <1> DEFINE s == Settled(stream)
  <1>2. /\ s \in Stream /\ s.total = Earned /\ s.cap = stream.cap
        /\ s.status = stream.status /\ s.lastSettled <= streamClock
        /\ s.cap # NoCap => s.total <= s.cap
    BY <1>0, SettledType DEF Earned
  <1>3. /\ t.op \in StreamOps /\ t.rate \in Nat /\ t.maxRate \in Nat
        /\ t.cap \in Nat \cup {NoCap}
    BY <1>0 DEF StreamTx
  \* A stream that was settled has paid at least what had been earned.
  <1>4. ASSUME NEW m \in Stream, m.total = s.total, m.cap = s.cap,
               m.lastSettled = s.lastSettled, m.status # "absent"
        PROVE  AppliedWell(m)
    <2>1. AccruedNow(m, streamClock) \in Nat /\ m.total \in Nat
      BY <1>0, AccruedType DEF Stream
    <2>2. m.total + AccruedNow(m, streamClock) >= Earned  BY <1>2, <1>4, <2>1
    <2> HIDE DEF s
    <2>3. QED  BY <1>2, <1>4, <2>2 DEF AppliedWell
  <1>5. CASE t.op = "create"
    <2> DEFINE m == [status |-> "active", rate |-> t.rate, maxRate |-> t.maxRate,
                     lastSettled |-> streamClock, total |-> 0, cap |-> t.cap]
    <2>1. Applied(t) = m  BY <1>5 DEF Applied
    <2>2. stream.status = "absent"
      <3>1. 0 \notin StreamRefusals(t)  OBVIOUS
      <3>2. QED  BY <3>1, <1>5 DEF StreamRefusals
    <2>3. Earned = 0  BY <1>0, <2>2, AccruedNothing DEF Earned
    <2>4. /\ m \in Stream /\ m.status # "absent" /\ m.lastSettled <= streamClock
          /\ m.total = 0 /\ m.cap = t.cap
      BY <1>0, <1>3 DEF Stream
    <2> HIDE DEF m
    <2>5. AccruedNow(m, streamClock) \in Nat  BY <1>0, <2>4, AccruedType
    <2>6. QED  BY <1>3, <2>1, <2>3, <2>4, <2>5 DEF AppliedWell
  <1>6. CASE t.op # "create"
    <2>1. stream.status # "absent"  BY <1>6 DEF StreamsInv, OfAStream
    <2>2. /\ s.status # "absent" /\ s.total \in Nat /\ s.rate \in Nat /\ s.maxRate \in Nat
          /\ s.lastSettled \in Nat /\ s.cap \in Nat \cup {NoCap}
      BY <1>2, <2>1 DEF Stream
    <2>3. CASE t.op = "execute"
      <3>1. Applied(t) = s  BY <2>3 DEF Applied
      <3> HIDE DEF s
      <3>2. QED  BY <1>2, <1>4, <2>2, <3>1
    <2>4. CASE t.op \in {"pause", "cancel"}
      <3>1. PICK status \in {"paused", "cancelled"} : Applied(t) = [s EXCEPT !.status = status]
        BY <2>4 DEF Applied
      <3> HIDE DEF s
      <3>2. Applied(t) \in Stream  BY <1>2, <3>1 DEF Stream
      <3>3. /\ Applied(t).total = s.total /\ Applied(t).cap = s.cap
            /\ Applied(t).lastSettled = s.lastSettled /\ Applied(t).status # "absent"
        BY <1>2, <3>1 DEF Stream
      <3>4. QED  BY <1>4, <3>2, <3>3
    <2>5. CASE t.op = "update"
      <3> DEFINE r == UpdatedRate(t)  c == UpdatedCeiling(t)
      <3>1. Applied(t) = [s EXCEPT !.rate = r, !.maxRate = c]  BY <2>5 DEF Applied
      <3>2. r \in Nat /\ c \in Nat  BY <1>1, <1>3 DEF UpdatedRate, UpdatedCeiling, Given
      <3> HIDE DEF s, r, c
      <3>3. Applied(t) \in Stream  BY <1>2, <3>1, <3>2 DEF Stream
      <3>4. /\ Applied(t).total = s.total /\ Applied(t).cap = s.cap
            /\ Applied(t).lastSettled = s.lastSettled /\ Applied(t).status = s.status
        BY <1>2, <3>1 DEF Stream
      <3>5. QED  BY <1>4, <2>2, <3>3, <3>4
    <2>6. CASE t.op = "resume"
      <3>1. CASE stream.status = "paused"
        <4> DEFINE m == [stream EXCEPT !.status = "active", !.lastSettled = streamClock]
        <4>1. Applied(t) = m  BY <2>6, <3>1 DEF Applied
        <4>2. /\ m \in Stream /\ m.status = "active" /\ m.lastSettled = streamClock
              /\ m.total = stream.total /\ m.cap = stream.cap
          BY <1>0 DEF Stream
        <4> HIDE DEF m
        <4>3. AccruedNow(m, streamClock) \in Nat  BY <1>0, <4>2, AccruedType
        <4>4. AccruedNow(stream, streamClock) = 0  BY <1>0, <3>1, AccruedNothing
        <4>5. m.total + AccruedNow(m, streamClock) >= Earned
          BY <1>1, <4>2, <4>3, <4>4 DEF Earned
        <4>6. QED  BY <1>0, <4>1, <4>2, <4>5 DEF AppliedWell
      <3>2. CASE stream.status # "paused"
        <4>1. Applied(t) = stream  BY <2>6, <3>2 DEF Applied
        <4>2. Earned \in Nat  BY <1>1 DEF Earned
        <4>3. QED  BY <1>0, <2>1, <4>1, <4>2 DEF AppliedWell, Earned
      <3>3. QED  BY <3>1, <3>2
    <2>7. QED  BY <1>3, <1>6, <2>3, <2>4, <2>5, <2>6 DEF StreamOps
  <1>7. QED  BY <1>5, <1>6

\* So does every transaction that lands.
LEMMA LandStep ==
    ASSUME StreamsInv, NEW t \in streamTxs, LandStreamTx(t)
    PROVE  StreamsInv' /\ Earned' >= Earned
  <1> USE StreamsAssumption
  <1>0. /\ streamClock \in 0..MaxStreamTime /\ streamClock' = streamClock
        /\ streamCounter \in 0..1 /\ stream \in Stream
        /\ streamTxs' \subseteq streamTxs /\ streamTxs \subseteq StreamTx
        /\ streamTxCount \in 0..MaxStreamTxs /\ streamTxCount' = streamTxCount
        /\ creation \in {"none", "built", "threw"} /\ creation' = creation
    BY DEF StreamsInv, StreamsTypeOK, LandStreamTx
  <1>1. Earned \in Nat  BY <1>0, AccruedType DEF Earned, Stream
  <1>2. \A u \in streamTxs' : UpdateIsFor(u)'
    BY <1>0 DEF StreamsInv, UpdateIsFor, RateOption, CeilingOption, RequiresSubscriberSig
  <1>3. CASE StreamRefusals(t) = {}
    <2>1. stream' = Applied(t)  BY <1>3 DEF LandStreamTx
    <2>2. AppliedWell(stream')  BY <1>3, <2>1, AppliedIsWell
    <2>3. /\ stream' \in Stream /\ stream'.status # "absent"
          /\ stream'.lastSettled <= streamClock'
          /\ stream'.cap # NoCap => stream'.total <= stream'.cap
          /\ stream'.total + AccruedNow(stream', streamClock') >= Earned
      BY <1>0, <2>2 DEF AppliedWell
    <2>4. Earned' >= Earned  BY <1>0, <2>3 DEF Earned
    <2>5. streamCounter' \in 0..1
      <3>1. CASE t.op = "create"
        <4>1. 0 \notin StreamRefusals(t)  BY <1>3
        <4>2. stream.status = "absent"  BY <3>1, <4>1 DEF StreamRefusals
        <4>3. streamCounter = 0  BY <4>2 DEF StreamsInv, BooksBalance
        <4>4. QED  BY <1>3, <3>1, <4>3 DEF LandStreamTx
      <3>2. CASE t.op # "create"  BY <1>0, <1>3, <3>2 DEF LandStreamTx
      <3>3. QED  BY <3>1, <3>2
    <2>6. StreamsTypeOK'  BY <1>0, <2>3, <2>5 DEF StreamsTypeOK
    <2>7. BooksBalance'  BY <2>3 DEF BooksBalance
    <2>8. \A u \in streamTxs' : OfAStream(u)'  BY <2>3 DEF OfAStream
    <2>9. QED  BY <1>2, <2>4, <2>6, <2>7, <2>8 DEF StreamsInv
  <1>4. CASE StreamRefusals(t) # {}
    <2>1. stream' = stream /\ streamCounter' = streamCounter  BY <1>4 DEF LandStreamTx
    <2>2. Earned' = Earned  BY <1>0, <2>1 DEF Earned, AccruedNow
    <2>3. StreamsTypeOK'  BY <1>0, <2>1 DEF StreamsTypeOK
    <2>4. BooksBalance'  BY <1>0, <2>1 DEF StreamsInv, BooksBalance
    <2>5. \A u \in streamTxs' : OfAStream(u)'  BY <1>0, <2>1 DEF StreamsInv, OfAStream
    <2>6. QED  BY <1>1, <1>2, <2>2, <2>3, <2>4, <2>5 DEF StreamsInv
  <1>5. QED  BY <1>3, <1>4

\* Time passes: what the stream has accrued grows.
LEMMA TickStep ==
    ASSUME StreamsInv, StreamTick
    PROVE  StreamsInv' /\ Earned' >= Earned
  <1> USE StreamsAssumption
  <1>0. /\ streamClock \in Nat /\ streamClock + 1 \in 0..MaxStreamTime
        /\ streamClock' = streamClock + 1 /\ stream \in Stream
        /\ UNCHANGED <<streamCounter, stream, streamTxs, streamTxCount, creation>>
    BY DEF StreamsInv, StreamsTypeOK, StreamTick
  <1>1. /\ AccruedNow(stream, streamClock) \in Nat
        /\ AccruedNow(stream, streamClock + 1) \in Nat
        /\ AccruedNow(stream, streamClock + 1) >= AccruedNow(stream, streamClock)
        /\ stream.total \in Nat /\ stream.lastSettled \in Nat
    BY <1>0, AccruedType, AccruedGrows DEF Stream
  <1>2. /\ Earned' = stream.total + AccruedNow(stream, streamClock + 1)
        /\ Earned = stream.total + AccruedNow(stream, streamClock)
    BY <1>0 DEF Earned
  <1>3. StreamsTypeOK'  BY <1>0 DEF StreamsInv, StreamsTypeOK
  <1>4. BooksBalance'  BY <1>0, <1>1 DEF StreamsInv, BooksBalance
  <1>5. \A u \in streamTxs' : UpdateIsFor(u)' /\ OfAStream(u)'
    BY <1>0 DEF StreamsInv, UpdateIsFor, RateOption, CeilingOption, RequiresSubscriberSig,
                OfAStream
  <1>6. QED  BY <1>1, <1>2, <1>3, <1>4, <1>5 DEF StreamsInv

\* The other steps leave the stream and the clock alone.
LEMMA IdleStep ==
    ASSUME StreamsInv, (\E t \in streamTxs : DropStreamTx(t)) \/ UNCHANGED streamVars
    PROVE  StreamsInv'
  <1>1. /\ streamTxs' \subseteq streamTxs
        /\ UNCHANGED <<streamClock, streamCounter, stream, streamTxCount, creation>>
    BY DEF DropStreamTx, streamVars
  <1>2. StreamsTypeOK'  BY <1>1 DEF StreamsInv, StreamsTypeOK
  <1>3. BooksBalance'  BY <1>1 DEF StreamsInv, BooksBalance
  <1>4. \A u \in streamTxs' : UpdateIsFor(u)' /\ OfAStream(u)'
    BY <1>1 DEF StreamsInv, UpdateIsFor, RateOption, CeilingOption, RequiresSubscriberSig,
                OfAStream
  <1>5. QED  BY <1>2, <1>3, <1>4 DEF StreamsInv

\* Nothing is lost while the stream and the clock stay.
LEMMA EarnedStays ==
    ASSUME StreamsInv, UNCHANGED <<stream, streamClock>>
    PROVE  Earned' >= Earned
  <1>1. Earned \in Nat
    BY AccruedType, StreamsAssumption DEF StreamsInv, StreamsTypeOK, Earned, Stream
  <1>2. Earned' = Earned  BY DEF Earned, AccruedNow
  <1>3. QED  BY <1>1, <1>2

\* Every step keeps the invariant and what was earned.
LEMMA StreamsStep ==
    ASSUME StreamsInv, [StreamsNext]_streamVars
    PROVE  StreamsInv' /\ Earned' >= Earned
  <1>1. CASE \E t \in streamTxs : LandStreamTx(t)  BY <1>1, LandStep
  <1>2. CASE StreamTick  BY <1>2, TickStep
  <1>3. CASE (\E t \in streamTxs : DropStreamTx(t)) \/ UNCHANGED streamVars
    <2>1. UNCHANGED <<stream, streamClock>>  BY <1>3 DEF DropStreamTx, streamVars
    <2>2. QED  BY <1>3, <2>1, IdleStep, EarnedStays
  <1>4. CASE \/ \E rate \in Rates, maxRate \in Rates, cap \in Caps :
                  CreateStream(rate, maxRate, cap)
             \/ \E op \in {"execute", "pause", "resume", "cancel"} : BuildFor(op)
             \/ \E rate \in Rates, ceiling \in Rates, by \in {"subscriber", "merchant"} :
                  UpgradeRate(rate, ceiling, by)
    <2>1. UNCHANGED <<stream, streamClock>>
      BY <1>4 DEF CreateStream, BuildFor, UpgradeRate, SendStreamTx
    <2>2. QED  BY <1>4, <2>1, BuildStep, EarnedStays
  <1>5. QED
    BY <1>1, <1>2, <1>3, <1>4 DEF StreamsNext, ExecuteStream, PauseStream, ResumeStream,
                                  CancelStream

-----------------------------------------------------------------------------
(* What the SDK foresees                                                   *)

\* An update computed from the stream as it is brings about what was wanted.
LEMMA UpdatedAsWanted ==
    ASSUME StreamsInv, NEW t \in streamTxs, t.op = "update",
           t.base = <<stream.rate, stream.maxRate>>
    PROVE  UpdatedRate(t) = t.wanted[1] /\ UpdatedCeiling(t) = t.wanted[2]
  BY DEF StreamsInv, UpdateIsFor, RateOption, CeilingOption, UpdatedRate, UpdatedCeiling, Given

\* The SDK has asked for the signature the program will want.
LEMMA SignatureIsForeseen ==
    ASSUME StreamsInv
    PROVE  SignatureForeseen
  <1> SUFFICES ASSUME NEW t \in streamTxs, 12716 \in StreamRefusals(t),
                      t.base = <<stream.rate, stream.maxRate>>
               PROVE  FALSE
    BY DEF SignatureForeseen
  <1>1. /\ t.op = "update" /\ t.by # "subscriber"
        /\ UpdatedCeiling(t) > stream.maxRate \/ UpdatedRate(t) > stream.maxRate
    BY DEF StreamRefusals
  <1>2. UpdatedRate(t) = t.wanted[1] /\ UpdatedCeiling(t) = t.wanted[2]
    BY <1>1, UpdatedAsWanted
  <1>3. RequiresSubscriberSig(t.wanted[1], t.wanted[2], t.base[2])
    BY <1>1, <1>2 DEF RequiresSubscriberSig
  <1>4. QED  BY <1>1, <1>3 DEF StreamsInv, UpdateIsFor

\* An update sets what its caller wanted, unless another one came first.
LEMMA WantedStep ==
    ASSUME StreamsInv, NEW t \in streamTxs, Executes(t), t.op = "update"
    PROVE  \/ <<stream'.rate, stream'.maxRate>> = t.wanted
           \/ t.base # <<stream.rate, stream.maxRate>>
  <1> SUFFICES ASSUME t.base = <<stream.rate, stream.maxRate>>
               PROVE  <<stream'.rate, stream'.maxRate>> = t.wanted
    OBVIOUS
  <1> USE StreamsAssumption
  <1>0. streamClock \in Nat /\ stream \in Stream /\ t \in StreamTx
        /\ (stream.cap # NoCap => stream.total <= stream.cap)
        /\ stream.lastSettled <= streamClock
    BY DEF StreamsInv, StreamsTypeOK, BooksBalance
  <1>1. UpdatedRate(t) = t.wanted[1] /\ UpdatedCeiling(t) = t.wanted[2]  BY UpdatedAsWanted
  <1>2. t.wanted \in Nat \X Nat  BY <1>0 DEF StreamTx
  <1> DEFINE s == Settled(stream)
  <1>3. stream' = [s EXCEPT !.rate = UpdatedRate(t), !.maxRate = UpdatedCeiling(t)]
    BY DEF Executes, Applied
  <1>4. s \in Stream  BY <1>0, SettledType
  <1> HIDE DEF s
  <1>5. stream'.rate = t.wanted[1] /\ stream'.maxRate = t.wanted[2]
    BY <1>1, <1>3, <1>4 DEF Stream
  <1>6. QED  BY <1>2, <1>5

\* What was earned stays within the cap.
LEMMA CapHolds ==
    ASSUME StreamsInv
    PROVE  EarnedWithinCap
  BY AccruedType, StreamsAssumption
     DEF StreamsInv, StreamsTypeOK, BooksBalance, EarnedWithinCap, Earned

-----------------------------------------------------------------------------
(* The theorems                                                            *)

\* The invariant holds in every state that can be reached.
THEOREM StreamsInvariance == StreamsSpec => []StreamsInv
  BY StreamsInitially, StreamsStep, PTL DEF StreamsSpec

\* Every variable keeps its type.
THEOREM StreamsTypeCorrect == StreamsSpec => []StreamsTypeOK
  <1>1. StreamsInv => StreamsTypeOK  BY DEF StreamsInv
  <1>2. QED  BY <1>1, StreamsInvariance, PTL

\* However transactions are delayed, lost and reordered, nothing the merchant has
\* earned is lost and the cap of the stream holds; an update was signed by whom
\* the program asks and does what it was computed for, unless another one landed
\* before it.
THEOREM StreamsAreSafe == StreamsSpec => StreamsSafe
  <1>1. StreamsInv => EarnedWithinCap /\ SignatureForeseen
    BY CapHolds, SignatureIsForeseen
  <1>2. StreamsInv /\ [StreamsNext]_streamVars => [Earned' >= Earned]_streamVars
    BY StreamsStep
  <1>3. StreamsInv /\ [StreamsNext]_streamVars =>
          [\A t \in streamTxs :
             Executes(t) /\ t.op = "update" /\ t \notin streamTxs'
               => \/ <<stream'.rate, stream'.maxRate>> = t.wanted
                  \/ t.base # <<stream.rate, stream.maxRate>>]_streamVars
    BY WantedStep
  <1>4. QED
    BY <1>1, <1>2, <1>3, StreamsInvariance, PTL
       DEF StreamsSpec, StreamsSafe, NothingEarnedIsLost, UpdateIsWhatWasWanted

-----------------------------------------------------------------------------
(* Truncated division                                                      *)

\* Dividing leaves a remainder below the divisor.
LEMMA Division ==
    ASSUME NEW a \in Nat, NEW b \in Nat \ {0}
    PROVE  /\ a \div b \in Nat
           /\ b * (a \div b) <= a
           /\ a < b * (a \div b) + b
  OBVIOUS

\* A product with a smaller factor is smaller.
LEMMA ProductGrows ==
    ASSUME NEW d \in Nat, NEW x \in Nat, NEW y \in Nat, x <= y
    PROVE  d * x <= d * y
  OBVIOUS

\* Division keeps the order.
LEMMA DivisionGrows ==
    ASSUME NEW x \in Nat, NEW y \in Nat, x <= y, NEW b \in Nat \ {0}
    PROVE  x \div b <= y \div b
  <1> DEFINE p == x \div b
             q == y \div b
  <1>1. p \in Nat /\ q \in Nat /\ b * p <= x /\ y < b * q + b
    BY Division
  <1> HIDE DEF p, q
  <1>2. SUFFICES ASSUME q + 1 <= p  PROVE FALSE
    BY <1>1 DEF p, q
  <1>3. b * (q + 1) <= b * p
    BY <1>1, <1>2, ProductGrows
  <1>4. b * (q + 1) = b * q + b
    BY <1>1
  <1>5. b * p \in Int /\ b * q \in Int
    BY <1>1
  <1>6. QED
    BY <1>1, <1>3, <1>4, <1>5

-----------------------------------------------------------------------------
(* The amount                                                              *)

\* An absolute value is a natural number.
LEMMA AbsType ==
    ASSUME NEW n \in Int
    PROVE  /\ Abs(n) \in Nat /\ Abs(-n) = Abs(n)
           /\ n <= Abs(n) /\ -n <= Abs(n)
           /\ Abs(n) \in {n, -n}
  BY DEF Abs

\* The sum of two numbers is no larger than they are together.
LEMMA AbsOfSum ==
    ASSUME NEW m \in Int, NEW n \in Int
    PROVE  Abs(m + n) <= Abs(m) + Abs(n)
  BY DEF Abs

\* The part of the period that has passed, at its ends if need be.
LEMMA ElapsedType ==
    ASSUME NEW m \in Mandates, NEW now \in Nat
    PROVE  /\ Elapsed(m, now) \in Nat /\ Elapsed(m, now) <= Frequency
           /\ Frequency - Elapsed(m, now) \in Nat
  BY PlanChangesAssumption DEF Elapsed, Mandates

\* It grows with the time.
LEMMA ElapsedGrows ==
    ASSUME NEW m \in Mandates, NEW now \in Nat, NEW later \in Nat, now <= later
    PROVE  Elapsed(m, now) <= Elapsed(m, later)
  BY PlanChangesAssumption DEF Elapsed, Mandates

\* What is exactly due, before it is divided by the period.
Numerator(old, new, elapsed) == (new - old) * (Frequency - elapsed)

\* Its absolute value is a product of natural numbers.
LEMMA NumeratorSize ==
    ASSUME NEW old \in Nat, NEW new \in Nat, NEW elapsed \in Nat, elapsed <= Frequency
    PROVE  /\ Numerator(old, new, elapsed) \in Int
           /\ Abs(Numerator(old, new, elapsed)) = Abs(new - old) * (Frequency - elapsed)
  <1> DEFINE d == new - old
             r == Frequency - elapsed
  <1>1. d \in Int /\ r \in Nat  BY PlanChangesAssumption
  <1> HIDE DEF d, r
  <1>2. d * r \in Int /\ (d >= 0 => d * r >= 0) /\ (d < 0 => d * r <= 0)
    BY <1>1
  <1>3. Abs(d * r) = Abs(d) * r
    <2>1. CASE d >= 0  BY <1>1, <1>2, <2>1 DEF Abs
    <2>2. CASE d < 0 /\ d * r < 0  BY <1>1, <1>2, <2>2 DEF Abs
    <2>3. CASE d < 0 /\ d * r = 0
      <3>1. r = 0  BY <1>1, <2>3
      <3>2. QED  BY <1>1, <2>3, <3>1 DEF Abs
    <2>4. QED  BY <1>1, <1>2, <2>1, <2>2, <2>3
  <1>4. QED  BY <1>2, <1>3 DEF Numerator, d, r

\* A proration is the exact amount, truncated towards zero.
LEMMA ProrationSize ==
    ASSUME NEW old \in Nat, NEW new \in Nat, NEW elapsed \in Nat, elapsed <= Frequency
    PROVE  /\ Proration(old, new, elapsed) \in Int
           /\ Abs(Proration(old, new, elapsed)) = Abs(Numerator(old, new, elapsed)) \div Frequency
           /\ Abs(Proration(old, new, elapsed) * Frequency - Numerator(old, new, elapsed))
                <= Frequency - 1
  <1> DEFINE n == Numerator(old, new, elapsed)
             q == Abs(n) \div Frequency
  <1>0. Frequency \in Nat \ {0}  BY PlanChangesAssumption
  <1>1. n \in Int  BY NumeratorSize
  <1>2. Proration(old, new, elapsed) = IF n < 0 THEN -q ELSE q
    BY DEF Proration, Numerator
  <1> HIDE DEF n
  <1>3. q \in Nat /\ Frequency * q <= Abs(n) /\ Abs(n) < Frequency * q + Frequency
    BY <1>0, <1>1, AbsType, Division
  <1> HIDE DEF q
  <1>4. Abs(IF n < 0 THEN -q ELSE q) = q  BY <1>3 DEF Abs
  <1>5. Abs((IF n < 0 THEN -q ELSE q) * Frequency - n) <= Frequency - 1
    <2>1. q * Frequency = Frequency * q /\ (-q) * Frequency = -(Frequency * q)
          /\ Frequency * q \in Int
      BY <1>0, <1>3
    <2>2. CASE n < 0
      <3>1. Abs(n) = -n  BY <1>1, <2>2 DEF Abs
      <3>2. QED  BY <1>0, <1>1, <1>3, <2>1, <2>2, <3>1 DEF Abs
    <2>3. CASE ~(n < 0)
      <3>1. Abs(n) = n  BY <1>1, <2>3 DEF Abs
      <3>2. QED  BY <1>0, <1>1, <1>3, <2>1, <2>3, <3>1 DEF Abs
    <2>4. QED  BY <2>2, <2>3
  <1>6. QED  BY <1>2, <1>3, <1>4, <1>5 DEF n, q

\* The later a change of plan is prorated, the less it costs or credits.
LEMMA ProrationShrinks ==
    ASSUME NEW old \in Nat, NEW new \in Nat,
           NEW e1 \in Nat, NEW e2 \in Nat, e1 <= e2, e2 <= Frequency
    PROVE  Abs(Proration(old, new, e2)) <= Abs(Proration(old, new, e1))
  <1>0. Frequency \in Nat \ {0}  BY PlanChangesAssumption
  <1>1. new - old \in Int /\ Abs(new - old) \in Nat  BY AbsType
  <1>2. Frequency - e1 \in Nat /\ Frequency - e2 \in Nat /\ Frequency - e2 <= Frequency - e1
    BY <1>0
  <1>3. Abs(new - old) * (Frequency - e2) <= Abs(new - old) * (Frequency - e1)
    BY <1>1, <1>2, ProductGrows
  <1>4. e1 <= Frequency  BY <1>0
  <1>5. /\ Abs(Numerator(old, new, e1)) \in Nat /\ Abs(Numerator(old, new, e2)) \in Nat
        /\ Abs(Numerator(old, new, e2)) <= Abs(Numerator(old, new, e1))
    BY <1>3, <1>4, NumeratorSize, AbsType
  <1>6. QED  BY <1>0, <1>4, <1>5, DivisionGrows, ProrationSize

\* A plan of the same amount costs nothing.
LEMMA NoDifference ==
    ASSUME NEW old \in Nat, NEW elapsed \in Nat, elapsed <= Frequency
    PROVE  Proration(old, old, elapsed) = 0
  <1>1. Frequency \in Nat \ {0}  BY PlanChangesAssumption
  <1>2. (old - old) * (Frequency - elapsed) = 0  BY <1>1
  <1>3. 0 \div Frequency = 0  BY <1>1
  <1>4. QED  BY <1>2, <1>3 DEF Proration, Abs

-----------------------------------------------------------------------------
(* The invariant                                                           *)

\* What the caller was shown is the preview of the mandate it held then.
ShownIsPreview ==
    offer # NoOffer =>
        /\ offer.plan \in DOMAIN PlanAmounts /\ offer.from \in Mandates
        /\ offer.at \in Nat /\ offer.at <= changeClock /\ offer.effectiveAt \in Nat
        /\ offer.shown = Preview(offer.from, offer.plan, offer.effectiveAt, offer.at)

\* The transaction is of the plan that was shown; it is put off if its moment was
\* still to come when it was built, and signed if that was needed.
BuiltFromOffer ==
    changeTx # NoChange =>
        /\ offer # NoOffer /\ changeTx.plan = offer.plan /\ changeTx.from \in Mandates
        /\ changeTx.builtAt \in Nat /\ offer.at <= changeTx.builtAt
        /\ changeTx.op # "schedule_plan_change" => offer.effectiveAt <= changeTx.builtAt
        /\ RequiresSig(changeTx.from, changeTx.plan) => changeTx.by = "subscriber"

ChangesInv == ChangesTypeOK /\ ShownIsPreview /\ BuiltFromOffer /\ RoundingIsBounded

\* A preview shows an integer.
LEMMA PreviewType ==
    ASSUME NEW m \in Mandates, NEW p \in DOMAIN PlanAmounts, NEW at \in Nat, NEW now \in Nat
    PROVE  /\ Preview(m, p, at, now).amount \in Int
           /\ Preview(m, p, at, now).outcome = "ScheduledChange" <=> at > now
  <1>1. Elapsed(m, now) \in Nat /\ Elapsed(m, now) <= Frequency  BY ElapsedType
  <1>2. m.amount \in Nat /\ PlanAmounts[p] \in Nat  BY PlanChangesAssumption DEF Mandates
  <1> DEFINE amount == Proration(m.amount, PlanAmounts[p], Elapsed(m, now))
  <1>3. amount \in Int  BY <1>1, <1>2, ProrationSize
  <1> HIDE DEF amount
  <1>4. Outcome(amount) \in {"NoOp", "ChargeNow", "CreditNow"}  BY <1>3 DEF Outcome
  <1>5. Preview(m, p, at, now) =
            IF at > now THEN [outcome |-> "ScheduledChange", amount |-> 0]
            ELSE IF m.plan = p /\ m.amount = PlanAmounts[p]
            THEN [outcome |-> "NoOp", amount |-> 0]
            ELSE [outcome |-> Outcome(amount), amount |-> amount]
    BY DEF Preview, amount
  <1>6. QED  BY <1>3, <1>4, <1>5

\* The initial states satisfy the invariant.
LEMMA ChangesInitially == ChangesInit => ChangesInv
  <1> SUFFICES ASSUME ChangesInit  PROVE ChangesInv
    OBVIOUS
  <1> USE PlanChangesAssumption
  <1>1. billed \in Mandates /\ held \in Mandates  BY DEF ChangesInit, Mandates
  <1>2. ChangesTypeOK  BY <1>1 DEF ChangesInit, ChangesTypeOK
  <1>3. RoundingIsBounded  BY DEF ChangesInit, RoundingIsBounded, Abs
  <1>4. QED  BY <1>2, <1>3 DEF ChangesInit, ChangesInv, ShownIsPreview, BuiltFromOffer

\* What is settled when a change lands, and how far it is from the exact amount.
LEMMA DueIsNearExact ==
    ASSUME ChangesInv, changeTx # NoChange
    PROVE  /\ Due(changeTx) \in Int /\ Exact(changeTx) \in Int
           /\ Abs(Due(changeTx) * Frequency - Exact(changeTx)) <= Frequency - 1
  <1>1. CASE changeTx.op = "schedule_plan_change"
    BY <1>1, PlanChangesAssumption DEF Due, Exact, Abs
  <1>2. CASE changeTx.op # "schedule_plan_change"
    <2>1. billed \in Mandates /\ changeClock \in Nat
      BY PlanChangesAssumption DEF ChangesInv, ChangesTypeOK
    <2>2. billed.amount \in Nat /\ PlanAmounts[changeTx.plan] \in Nat
      BY <2>1, PlanChangesAssumption DEF ChangesInv, ShownIsPreview, BuiltFromOffer, Mandates
    <2>3. Elapsed(billed, changeClock) \in Nat /\ Elapsed(billed, changeClock) <= Frequency
      BY <2>1, ElapsedType
    <2>4. /\ Due(changeTx) = Proration(billed.amount, PlanAmounts[changeTx.plan],
                                       Elapsed(billed, changeClock))
          /\ Exact(changeTx) = Numerator(billed.amount, PlanAmounts[changeTx.plan],
                                         Elapsed(billed, changeClock))
      BY <1>2 DEF Due, Exact, Numerator
    <2>5. QED  BY <2>2, <2>3, <2>4, ProrationSize, NumeratorSize
  <1>3. QED  BY <1>1, <1>2

\* Rounding errs by less than a unit more.
LEMMA LandRounds ==
    ASSUME ChangesInv, LandChange
    PROVE  /\ RoundingIsBounded'
           /\ settled' \in [net : Int, exact : Int, changes : 0..MaxChanges]
  <1> DEFINE F == Frequency
             N == settled.net
             E == settled.exact
             C == settled.changes
             D == Due(changeTx)
             X == Exact(changeTx)
  <1>1. N \in Int /\ E \in Int /\ C \in 0..MaxChanges /\ C < MaxChanges /\ C \in Nat
        /\ F \in Nat \ {0} /\ MaxChanges \in Nat
    BY PlanChangesAssumption DEF ChangesInv, ChangesTypeOK, LandChange
  <1>2. D \in Int /\ X \in Int /\ Abs(D * F - X) <= F - 1
    BY DueIsNearExact DEF LandChange
  <1>3. Abs(N * F - E) <= C * (F - 1)
    BY DEF ChangesInv, RoundingIsBounded
  <1>4. settled' = [net |-> N + D, exact |-> E + X, changes |-> C + 1]
    BY DEF LandChange
  <1> HIDE DEF F, N, E, C, D, X
  <1>5. (N + D) * F - (E + X) = (N * F - E) + (D * F - X)
    BY <1>1, <1>2
  <1>6. N * F - E \in Int /\ D * F - X \in Int
    BY <1>1, <1>2
  <1>7. Abs((N + D) * F - (E + X)) <= Abs(N * F - E) + Abs(D * F - X)
    BY <1>5, <1>6, AbsOfSum
  <1>8. C * (F - 1) + (F - 1) = (C + 1) * (F - 1)
    BY <1>1
  <1>9. Abs((N + D) * F - (E + X)) <= (C + 1) * (F - 1)
    <2>1. /\ Abs(N * F - E) \in Int /\ Abs(D * F - X) \in Int
          /\ (N + D) * F - (E + X) \in Int /\ Abs((N + D) * F - (E + X)) \in Int
          /\ C * (F - 1) \in Int /\ F - 1 \in Int
      BY <1>1, <1>2, <1>6, AbsType
    <2>2. QED  BY <1>2, <1>3, <1>7, <1>8, <2>1
  <1>10. RoundingIsBounded'
    BY <1>4, <1>9 DEF RoundingIsBounded, F
  <1>11. QED  BY <1>1, <1>2, <1>4, <1>10

\* Every step keeps the invariant.
LEMMA ChangesStep == ChangesInv /\ [ChangesNext]_changeVars => ChangesInv'
  <1> SUFFICES ASSUME ChangesInv, [ChangesNext]_changeVars  PROVE ChangesInv'
    OBVIOUS
  <1> USE PlanChangesAssumption
  <1>0. /\ ChangesTypeOK /\ ShownIsPreview /\ BuiltFromOffer /\ RoundingIsBounded
        /\ changeClock \in Nat /\ billed \in Mandates /\ held \in Mandates
    BY DEF ChangesInv, ChangesTypeOK
  <1>1. CASE FetchMandate
    BY <1>0, <1>1 DEF FetchMandate, ChangesInv, ChangesTypeOK, ShownIsPreview, BuiltFromOffer,
                      RoundingIsBounded
  <1>2. ASSUME NEW p \in DOMAIN PlanAmounts, NEW at \in PutOff, PreviewPlanChange(p, at)
        PROVE  ChangesInv'
    <2>1. at \in Nat  OBVIOUS
    <2>2. Preview(held, p, at, changeClock).amount \in Int  BY <1>0, <2>1, PreviewType
    <2>3. ShownIsPreview'
      BY <1>0, <1>2, <2>1 DEF PreviewPlanChange, ShownIsPreview
    <2>4. BuiltFromOffer'  BY <1>2 DEF PreviewPlanChange, BuiltFromOffer
    <2>5. ChangesTypeOK'
      BY <1>0, <1>2, <2>2 DEF PreviewPlanChange, ChangesTypeOK
    <2>6. QED
      BY <1>0, <1>2, <2>3, <2>4, <2>5 DEF PreviewPlanChange, ChangesInv, RoundingIsBounded
  <1>3. ASSUME NEW by \in {"subscriber", "merchant"}, Execute(by)  PROVE ChangesInv'
    <2> DEFINE preview == Preview(held, offer.plan, offer.effectiveAt, changeClock)
    <2>1. /\ offer # NoOffer /\ UNCHANGED <<changeClock, billed, held, offer, settled>>
          /\ RequiresSig(held, offer.plan) => by = "subscriber"
          /\ changeTx' = [op |-> IF preview.outcome = "ScheduledChange"
                                 THEN "schedule_plan_change" ELSE "update_mandate_plan",
                          plan |-> offer.plan, by |-> by, builtAt |-> changeClock,
                          from |-> held]
      BY <1>3 DEF Execute
    <2>2. preview.outcome = "ScheduledChange" <=> offer.effectiveAt > changeClock
      BY <1>0, <2>1, PreviewType DEF ShownIsPreview
    <2> HIDE DEF preview
    <2>3. BuiltFromOffer'
      <3>1. changeTx'.op # "schedule_plan_change" => offer.effectiveAt <= changeClock
        BY <1>0, <2>1, <2>2 DEF ShownIsPreview
      <3>2. offer.at <= changeClock  BY <1>0, <2>1 DEF ShownIsPreview
      <3>3. QED  BY <1>0, <2>1, <3>1, <3>2 DEF BuiltFromOffer, RequiresSig
    <2>4. QED
      BY <1>0, <2>1, <2>3 DEF ChangesInv, ChangesTypeOK, ShownIsPreview, RoundingIsBounded
  <1>4. CASE LandChange
    <2>1. changeTx' = NoChange /\ offer' = NoOffer /\ UNCHANGED <<changeClock, held>>
      BY <1>4 DEF LandChange
    <2>2. billed' \in Mandates
      <3>1. changeTx.plan \in DOMAIN PlanAmounts /\ PlanAmounts[changeTx.plan] \in Nat
        BY <1>0, <1>4 DEF LandChange, BuiltFromOffer, ShownIsPreview
      <3>2. QED  BY <1>0, <1>4, <3>1 DEF LandChange, Mandates
    <2>3. QED
      BY <1>0, <1>4, <2>1, <2>2, LandRounds
         DEF ChangesInv, ChangesTypeOK, ShownIsPreview, BuiltFromOffer
  <1>5. CASE DropChange
    BY <1>0, <1>5 DEF DropChange, ChangesInv, ChangesTypeOK, ShownIsPreview, BuiltFromOffer,
                      RoundingIsBounded
  <1>6. CASE Pull
    <2>1. billed' \in Mandates  BY <1>0, <1>6 DEF Pull, Mandates
    <2>2. QED
      BY <1>0, <1>6, <2>1 DEF Pull, ChangesInv, ChangesTypeOK, ShownIsPreview, BuiltFromOffer,
                              RoundingIsBounded
  <1>7. CASE Tick
    <2>1. changeClock' \in 0..MaxChangeTime /\ changeClock <= changeClock' /\ changeClock' \in Nat
      BY <1>0, <1>7 DEF Tick, ChangesTypeOK
    <2>2. ShownIsPreview'
      BY <1>0, <1>7, <2>1 DEF Tick, ShownIsPreview
    <2>3. QED
      BY <1>0, <1>7, <2>1, <2>2 DEF Tick, ChangesInv, ChangesTypeOK, BuiltFromOffer,
                                    RequiresSig, RoundingIsBounded
  <1>8. CASE UNCHANGED changeVars
    BY <1>0, <1>8 DEF changeVars, ChangesInv, ChangesTypeOK, ShownIsPreview, BuiltFromOffer,
                      RequiresSig, RoundingIsBounded
  <1>9. QED
    BY <1>1, <1>2, <1>3, <1>4, <1>5, <1>6, <1>7, <1>8 DEF ChangesNext

-----------------------------------------------------------------------------
(* What the caller was shown                                               *)

\* A change that lands on the mandate it was shown for, built once it was no longer
\* put off, settles no more than was shown: time has only passed.
LEMMA LandsAsShown ==
    ASSUME ChangesInv, LandChange, billed = offer.from,
           ~(offer.at < offer.effectiveAt /\ offer.effectiveAt <= changeTx.builtAt)
    PROVE  Abs(Due(changeTx)) <= Abs(offer.shown.amount)
  <1> USE PlanChangesAssumption
  <1>0. /\ offer # NoOffer /\ changeTx # NoChange /\ ShownIsPreview /\ BuiltFromOffer
        /\ billed \in Mandates /\ changeClock \in Nat
    BY DEF ChangesInv, BuiltFromOffer, LandChange, ChangesTypeOK
  <1> DEFINE p == offer.plan
             e1 == Elapsed(billed, offer.at)
             e2 == Elapsed(billed, changeClock)
  <1>1. /\ p \in DOMAIN PlanAmounts /\ changeTx.plan = p
        /\ offer.at \in Nat /\ offer.at <= changeClock /\ offer.effectiveAt \in Nat
        /\ changeTx.builtAt \in Nat
        /\ offer.shown = Preview(billed, p, offer.effectiveAt, offer.at)
    BY <1>0 DEF ShownIsPreview, BuiltFromOffer
  <1>2. /\ billed.amount \in Nat /\ PlanAmounts[p] \in Nat
        /\ e1 \in Nat /\ e2 \in Nat /\ e1 <= e2 /\ e1 <= Frequency /\ e2 <= Frequency
    BY <1>0, <1>1, ElapsedType, ElapsedGrows DEF Mandates
  <1>3. offer.shown.amount \in Int  BY <1>0, <1>1, PreviewType
  <1>4. CASE changeTx.op = "schedule_plan_change"
    BY <1>3, <1>4, AbsType DEF Due, Abs
  <1>5. CASE changeTx.op # "schedule_plan_change"
    <2>1. Due(changeTx) = Proration(billed.amount, PlanAmounts[p], e2)
      BY <1>1, <1>5 DEF Due
    <2>2. ~(offer.effectiveAt > offer.at)
      BY <1>0, <1>1, <1>5 DEF BuiltFromOffer
    <2>3. CASE billed.amount = PlanAmounts[p]
      <3>1. Due(changeTx) = 0  BY <1>2, <2>1, <2>3, NoDifference
      <3>2. QED  BY <1>3, <3>1, AbsType DEF Abs
    <2>4. CASE billed.amount # PlanAmounts[p]
      <3>1. offer.shown.amount = Proration(billed.amount, PlanAmounts[p], e1)
        BY <1>1, <2>2, <2>4 DEF Preview
      <3> HIDE DEF p, e1, e2
      <3>2. QED  BY <1>2, <2>1, <3>1, ProrationShrinks
    <2>5. QED  BY <2>3, <2>4
  <1>6. QED  BY <1>4, <1>5

\* A step that is not the landing of a change settles nothing.
LEMMA OnlyLandingSettles ==
    ASSUME ChangesInv, [ChangesNext]_changeVars, Lands
    PROVE  LandChange /\ settled'.net - settled.net = Due(changeTx)
  <1>1. settled.changes \in Int /\ settled.net \in Int
    BY DEF ChangesInv, ChangesTypeOK
  <1>2. settled' # settled  BY <1>1 DEF Lands
  <1>3. LandChange
    BY <1>2 DEF ChangesNext, FetchMandate, PreviewPlanChange, Execute, DropChange, Pull, Tick,
                changeVars
  <1>4. Due(changeTx) \in Int  BY <1>3, DueIsNearExact DEF LandChange
  <1>5. QED  BY <1>1, <1>3, <1>4 DEF LandChange

-----------------------------------------------------------------------------
\* The invariant holds in every reachable state.
THEOREM ChangesInvariance == ChangesSpec => []ChangesInv
  BY ChangesInitially, ChangesStep, PTL DEF ChangesSpec

\* previewPlanChange and execute: nobody is charged or credited more than was shown,
\* rounding errs by less than a unit a change, whatever the prices, the period and the
\* times, and no transaction lacks a signature it needs.
THEOREM ChangesCostWhatWasShown == ChangesSpec => ChangesAsShown
  <1>1. ChangesInv /\ [ChangesNext]_changeVars =>
            [Lands => \/ Abs(settled'.net - settled.net) <= Abs(offer.shown.amount)
                      \/ billed # offer.from \/ changeTx.from # offer.from
                      \/ offer.at < offer.effectiveAt /\ offer.effectiveAt <= changeTx.builtAt]_changeVars
    BY OnlyLandingSettles, LandsAsShown
  <1>2. ChangesInv => RoundingIsBounded  BY DEF ChangesInv
  <1>3. ChangesInv => UpgradeSigned
    BY DEF ChangesInv, BuiltFromOffer, RequiresSig, UpgradeSigned, Authorized
  <1>4. QED
    BY <1>1, <1>2, <1>3, ChangesInvariance, PTL DEF ChangesSpec, ChangesAsShown, NoMoreThanShown

-----------------------------------------------------------------------------
(* Induction, and values of digits                                         *)

\* A set of natural numbers has a least one.
LEMMA LeastNumber ==
    ASSUME NEW T \in SUBSET Nat, T # {}
    PROVE  \E m \in T : \A n \in T : m <= n
  <1> DEFINE R == OpToRel(<, Nat)
  <1>1. IsWellFoundedOn(R, Nat)  BY NatLessThanWellFounded
  <1>2. PICK m \in T : \A n \in T : <<n, m>> \notin R
    <2> HIDE DEF R
    <2>1. QED  BY <1>1, WFMin
  <1>3. \A n \in T : ~(n < m)  BY <1>2 DEF OpToRel
  <1>4. QED  BY <1>3

\* What satisfies the recurrence of the value of digits is that value.
LEMMA ValuesAre ==
    ASSUME NEW s, NEW n \in Nat, Len(s) = n, \A k \in 1..n : s[k] \in Nat,
           NEW e \in [0..n -> Nat], e[0] = 0,
           \A k \in 1..n : e[k] = 10 * e[k - 1] + s[k]
    PROVE  Number(s) = e[n]
  <1> DEFINE value[k \in 0..Len(s)] == IF k = 0 THEN 0 ELSE 10 * value[k - 1] + s[k]
  <1>1. e = [k \in 0..Len(s) |-> IF k = 0 THEN 0 ELSE 10 * e[k - 1] + s[k]]
    OBVIOUS
  <1>2. value = [k \in 0..Len(s) |-> IF k = 0 THEN 0 ELSE 10 * value[k - 1] + s[k]]
    BY <1>1
  <1>3. Number(s) = value[n]
    BY DEF Number
  <1> HIDE DEF value
  <1>4. \A k \in 0..n : value[k] = e[k]
    <2> DEFINE T == {k \in 0..n : value[k] # e[k]}
    <2> SUFFICES ASSUME T # {}  PROVE FALSE
      OBVIOUS
    <2>0. T \in SUBSET Nat
      OBVIOUS
    <2>1. PICK m \in T : \A k \in T : m <= k
      <3> HIDE DEF T
      <3>1. QED  BY <2>0, LeastNumber
    <2>2. m \in 0..n /\ m # 0
      BY <1>2
    <2>3. m - 1 \in 0..n /\ m - 1 \notin T
      <3>1. m - 1 \in 0..n /\ ~(m <= m - 1)  BY <2>2
      <3> HIDE DEF T
      <3>2. QED  BY <2>1, <3>1
    <2>4. value[m - 1] = e[m - 1]
      BY <2>3
    <2>5. value[m] = 10 * value[m - 1] + s[m]
      BY <1>2, <2>2
    <2>6. e[m] = 10 * e[m - 1] + s[m]
      <3>1. m \in 1..n  BY <2>2
      <3>2. QED  BY <3>1
    <2>7. value[m] = e[m]
      BY <2>4, <2>5, <2>6
    <2>8. QED  BY <2>1, <2>7
  <1>5. QED  BY <1>3, <1>4

\* The value of every sequence of digits is such a value.
LEMMA ValuesExist ==
    ASSUME NEW s, NEW n \in Nat, Len(s) = n, \A k \in 1..n : s[k] \in Nat
    PROVE  \E e \in [0..n -> Nat] : e[0] = 0 /\ \A k \in 1..n : e[k] = 10 * e[k - 1] + s[k]
  <1> DEFINE Good(m) == \E e \in [0..m -> Nat] :
                          e[0] = 0 /\ \A k \in 1..m : e[k] = 10 * e[k - 1] + s[k]
             T == {m \in 0..n : ~Good(m)}
  <1> SUFFICES ASSUME T # {}  PROVE FALSE
    <2>1. n \in 0..n  OBVIOUS
    <2>2. T = {} => Good(n)  BY <2>1
    <2> HIDE DEF T
    <2>3. QED  BY <2>2
  <1>1. T \in SUBSET Nat
    OBVIOUS
  <1>2. PICK m \in T : \A k \in T : m <= k
    <2> HIDE DEF T
    <2>1. QED  BY <1>1, LeastNumber
  <1>3. Good(0)
    <2> DEFINE e == [k \in 0..0 |-> 0]
    <2>1. e \in [0..0 -> Nat] /\ e[0] = 0 /\ \A k \in 1..0 : e[k] = 10 * e[k - 1] + s[k]
      OBVIOUS
    <2> HIDE DEF e
    <2>2. QED  BY <2>1
  <1>4. m \in 1..n
    <2>1. m # 0  BY <1>2, <1>3
    <2>2. QED  BY <2>1
  <1>5. Good(m - 1)
    <2>1. m - 1 \in 0..n /\ ~(m <= m - 1)  BY <1>4
    <2>2. m - 1 \notin T
      <3> HIDE DEF T
      <3>1. QED  BY <1>2, <2>1
    <2>3. QED  BY <2>1, <2>2
  <1>6. PICK g \in [0..m - 1 -> Nat] : g[0] = 0 /\ \A k \in 1..m - 1 : g[k] = 10 * g[k - 1] + s[k]
    BY <1>5
  <1>7. Good(m)
    <2> DEFINE e == [k \in 0..m |-> IF k < m THEN g[k] ELSE 10 * g[m - 1] + s[m]]
    <2>1. s[m] \in Nat /\ g[m - 1] \in Nat  BY <1>4
    <2>2. e \in [0..m -> Nat]  BY <1>4, <2>1
    <2>3. e[0] = 0  BY <1>4, <1>6
    <2>4. ASSUME NEW k \in 1..m  PROVE e[k] = 10 * e[k - 1] + s[k]
      <3>1. CASE k < m
        <4>1. k \in 1..m - 1 /\ k - 1 \in 0..m - 1 /\ k - 1 < m  BY <1>4, <3>1
        <4>2. QED  BY <1>6, <3>1, <4>1
      <3>2. CASE k = m
        BY <1>4, <3>2
      <3>3. QED  BY <3>1, <3>2
    <2> HIDE DEF e
    <2>5. QED  BY <2>2, <2>3, <2>4
  <1>8. QED  BY <1>2, <1>7

\* The value of digits follows the recurrence.
LEMMA NumberIsTheirs ==
    ASSUME NEW s \in Seq(Nat)
    PROVE  \E e \in [0..Len(s) -> Nat] :
              /\ e[0] = 0 /\ \A k \in 1..Len(s) : e[k] = 10 * e[k - 1] + s[k]
              /\ Number(s) = e[Len(s)]
  <1>1. Len(s) \in Nat /\ \A k \in 1..Len(s) : s[k] \in Nat
    OBVIOUS
  <1>2. PICK e \in [0..Len(s) -> Nat] :
           e[0] = 0 /\ \A k \in 1..Len(s) : e[k] = 10 * e[k - 1] + s[k]
    BY <1>1, ValuesExist
  <1>3. Number(s) = e[Len(s)]
    BY <1>1, <1>2, ValuesAre
  <1>4. QED  BY <1>2, <1>3

\* A digit that is appended is worth one, and the others ten times as much.
LEMMA NumberOfAppend ==
    ASSUME NEW s \in Seq(Nat), NEW d \in Nat
    PROVE  Number(s) \in Nat /\ Number(Append(s, d)) = 10 * Number(s) + d
  <1> DEFINE n == Len(s)
             t == Append(s, d)
  <1>1. /\ n \in Nat /\ t \in Seq(Nat) /\ Len(t) = n + 1
        /\ t[n + 1] = d /\ \A k \in 1..n : t[k] = s[k] /\ s[k] \in Nat
    OBVIOUS
  <1> HIDE DEF n, t
  <1>2. PICK e \in [0..Len(t) -> Nat] :
           /\ e[0] = 0 /\ \A k \in 1..Len(t) : e[k] = 10 * e[k - 1] + t[k]
           /\ Number(t) = e[Len(t)]
    BY <1>1, NumberIsTheirs
  <1>3. Number(s) = e[n]
    <2> DEFINE g == [k \in 0..n |-> e[k]]
    <2>0. n \in Nat /\ \A k \in 0..n : k \in 0..Len(t)
      BY <1>1
    <2>1. g \in [0..n -> Nat] /\ g[0] = 0 /\ g[n] = e[n]
      BY <1>2, <2>0
    <2>2. ASSUME NEW k \in 1..n  PROVE g[k] = 10 * g[k - 1] + s[k]
      <3>1. k \in 1..Len(t) /\ k \in 0..n /\ k - 1 \in 0..n  BY <1>1
      <3>2. QED  BY <1>1, <1>2, <3>1
    <2>3. Len(s) = n /\ \A k \in 1..n : s[k] \in Nat
      BY <1>1 DEF n
    <2> HIDE DEF g
    <2>4. QED  BY <2>0, <2>1, <2>2, <2>3, ValuesAre
  <1>4. e[n + 1] = 10 * e[n] + d
    <2>1. n + 1 \in 1..Len(t) /\ (n + 1) - 1 = n  BY <1>1
    <2>2. QED  BY <1>1, <1>2, <2>1
  <1>5. e[n] \in Nat  BY <1>1, <1>2
  <1>6. QED  BY <1>1, <1>2, <1>3, <1>4, <1>5 DEF t

\* Zeros are a sequence.
LEMMA ZerosType ==
    ASSUME NEW z \in Nat
    PROVE  Zeros(z) \in Seq(Nat) /\ Len(Zeros(z)) = z /\ \A k \in 1..z : Zeros(z)[k] = 0
  BY DEF Zeros

\* Zeros before digits are worth nothing.
LEMMA NumberOfPadded ==
    ASSUME NEW s \in Seq(Nat), NEW z \in Nat
    PROVE  Zeros(z) \o s \in Seq(Nat) /\ Number(Zeros(z) \o s) = Number(s)
  <1> DEFINE n == Len(s)
             zeros == Zeros(z)
             t == zeros \o s
  <1>1. zeros \in Seq(Nat) /\ Len(zeros) = z /\ \A k \in 1..z : zeros[k] = 0
    BY ZerosType
  <1> HIDE DEF zeros
  <1>2. /\ t \in Seq(Nat) /\ Len(t) = Len(zeros) + Len(s)
        /\ \A k \in 1..Len(zeros) + Len(s) :
             t[k] = IF k <= Len(zeros) THEN zeros[k] ELSE s[k - Len(zeros)]
    BY <1>1, ConcatProperties
  <1>3. n \in Nat
    OBVIOUS
  <1>4. /\ Len(t) = z + n
        /\ \A k \in 1..z + n : t[k] = IF k <= z THEN 0 ELSE s[k - z]
    BY <1>1, <1>2
  <1>5. PICK e \in [0..n -> Nat] :
           /\ e[0] = 0 /\ \A k \in 1..n : e[k] = 10 * e[k - 1] + s[k]
           /\ Number(s) = e[n]
    BY NumberIsTheirs
  <1> HIDE DEF n, t
  <1>6. Number(t) = e[n]
    <2> DEFINE m == z + n
               g == [k \in 0..m |-> IF k <= z THEN 0 ELSE e[k - z]]
    <2>1. m \in Nat
      BY <1>3
    <2>2. ASSUME NEW k \in 0..m, ~(k <= z)  PROVE k - z \in 1..n
      BY <1>3, <2>2
    <2>3. g \in [0..m -> Nat]
      BY <1>5, <2>2
    <2>4. g[0] = 0 /\ g[m] = e[n]
      <3>1. CASE n = 0  BY <1>3, <1>5, <3>1
      <3>2. CASE n # 0
        <4>1. ~(m <= z) /\ m - z = n /\ m \in 0..m /\ 0 \in 0..m /\ 0 <= z  BY <1>3, <3>2
        <4>2. QED  BY <4>1
      <3>3. QED  BY <3>1, <3>2
    <2>5. ASSUME NEW k \in 1..m  PROVE g[k] = 10 * g[k - 1] + t[k]
      <3>1. k \in 0..m /\ k - 1 \in 0..m  BY <2>1
      <3>2. CASE k <= z
        <4>1. k - 1 <= z /\ t[k] = 0  BY <1>3, <1>4, <3>2
        <4>2. QED  BY <3>1, <3>2, <4>1
      <3>3. CASE k = z + 1
        <4>1. k - 1 <= z /\ ~(k <= z) /\ k - z = 1 /\ 1 \in 1..n  BY <1>3, <3>3
        <4>2. g[k - 1] = 0 /\ g[k] = e[1] /\ t[k] = s[1]  BY <1>4, <3>1, <4>1
        <4>3. e[1] = 10 * e[1 - 1] + s[1]  BY <1>5, <4>1
        <4>4. QED  BY <1>5, <4>2, <4>3
      <3>4. CASE k > z + 1
        <4> DEFINE j == k - z
        <4>1. /\ j \in 1..n /\ ~(k <= z) /\ ~(k - 1 <= z) /\ (k - 1) - z = j - 1
          BY <1>3, <3>4
        <4>2. g[k] = e[j] /\ t[k] = s[j]
          BY <1>4, <3>1, <4>1
        <4>3. g[k - 1] = e[(k - 1) - z]
          BY <3>1, <4>1
        <4>4. e[j] = 10 * e[j - 1] + s[j]
          <5> HIDE DEF j
          <5>1. QED  BY <1>5, <4>1
        <4> HIDE DEF j, g
        <4>5. QED  BY <4>1, <4>2, <4>3, <4>4
      <3>5. QED  BY <1>3, <3>2, <3>3, <3>4
    <2>6. \A k \in 1..m : t[k] \in Nat
      BY <1>2, <1>4
    <2>7. Len(t) = m
      BY <1>4
    <2> HIDE DEF g, m
    <2>8. QED  BY <2>1, <2>3, <2>4, <2>5, <2>6, <2>7, ValuesAre
  <1>7. QED  BY <1>2, <1>5, <1>6 DEF t, zeros

-----------------------------------------------------------------------------
(* Digits                                                                  *)

\* The digits of the numbers up to a bound.
DigitsUpTo(N, f) ==
    f = [n \in 0..N |-> IF n < 10 THEN <<n>> ELSE Append(f[n \div 10], n % 10)]

\* A tenth of a number is smaller.
LEMMA Tenth ==
    ASSUME NEW n \in Nat, n >= 10
    PROVE  n \div 10 \in 0..n - 1 /\ n % 10 \in 0..9 /\ n = 10 * (n \div 10) + (n % 10)
  OBVIOUS

\* They are the same up to any bound.
LEMMA DigitsAgree ==
    ASSUME NEW N \in Nat, NEW M \in Nat, NEW f, NEW g, DigitsUpTo(N, f), DigitsUpTo(M, g),
           NEW n \in 0..N, n \in 0..M
    PROVE  f[n] = g[n]
  <1> DEFINE T == {k \in 0..N : k \in 0..M /\ f[k] # g[k]}
  <1> SUFFICES ASSUME T # {}  PROVE FALSE
    OBVIOUS
  <1>1. T \in SUBSET Nat
    OBVIOUS
  <1>2. PICK m \in T : \A k \in T : m <= k
    <2> HIDE DEF T
    <2>1. QED  BY <1>1, LeastNumber
  <1>3. /\ f[m] = IF m < 10 THEN <<m>> ELSE Append(f[m \div 10], m % 10)
        /\ g[m] = IF m < 10 THEN <<m>> ELSE Append(g[m \div 10], m % 10)
    <2>1. m \in 0..N /\ m \in 0..M  OBVIOUS
    <2> HIDE DEF T
    <2>2. f[m] = IF m < 10 THEN <<m>> ELSE Append(f[m \div 10], m % 10)
      BY <2>1 DEF DigitsUpTo
    <2>3. g[m] = IF m < 10 THEN <<m>> ELSE Append(g[m \div 10], m % 10)
      BY <2>1 DEF DigitsUpTo
    <2>4. QED  BY <2>2, <2>3
  <1>4. m >= 10
    BY <1>3
  <1>5. m \div 10 \notin T /\ m \div 10 \in 0..N /\ m \div 10 \in 0..M
    <2>1. m \in Nat /\ m \in 0..N /\ m \in 0..M  OBVIOUS
    <2>2. m \div 10 \in 0..m - 1  BY <1>4, <2>1, Tenth
    <2> HIDE DEF T
    <2>3. QED  BY <1>2, <2>1, <2>2
  <1>6. f[m \div 10] = g[m \div 10]
    BY <1>5
  <1>7. QED  BY <1>3, <1>6

\* They exist up to any bound.
LEMMA DigitsExistUpTo ==
    ASSUME NEW N \in Nat
    PROVE  \E f : DigitsUpTo(N, f)
  <1> DEFINE T == {k \in 0..N : ~\E f : DigitsUpTo(k, f)}
  <1> SUFFICES ASSUME T # {}  PROVE FALSE
    <2>1. N \in 0..N  OBVIOUS
    <2>2. T = {} => \E f : DigitsUpTo(N, f)  BY <2>1
    <2> HIDE DEF T
    <2>3. QED  BY <2>2
  <1>1. T \in SUBSET Nat
    OBVIOUS
  <1>2. PICK m \in T : \A k \in T : m <= k
    <2> HIDE DEF T
    <2>1. QED  BY <1>1, LeastNumber
  <1>3. m \in Nat /\ m \in 0..N
    OBVIOUS
  <1>4. CASE m = 0
    <2> DEFINE f == [n \in 0..0 |-> <<n>>]
    <2>1. DigitsUpTo(0, f)  BY DEF DigitsUpTo
    <2> HIDE DEF f
    <2>2. QED  BY <1>4, <2>1
  <1>5. CASE m > 0
    <2>1. m - 1 \in 0..N /\ ~(m <= m - 1)  BY <1>3, <1>5
    <2>2. m - 1 \notin T
      <3> HIDE DEF T
      <3>1. QED  BY <1>2, <2>1
    <2>3. PICK g : DigitsUpTo(m - 1, g)
      BY <2>1, <2>2
    <2> DEFINE f == [n \in 0..m |-> IF n < m THEN g[n]
                                   ELSE IF m < 10 THEN <<m>> ELSE Append(g[m \div 10], m % 10)]
    <2>4. ASSUME NEW n \in 0..m
          PROVE  f[n] = IF n < 10 THEN <<n>> ELSE Append(f[n \div 10], n % 10)
      <3>1. n >= 10 => n \div 10 \in 0..n - 1 /\ n \div 10 < m /\ n \div 10 \in 0..m
        BY <1>3, Tenth
      <3>2. n >= 10 => f[n \div 10] = g[n \div 10]
        BY <3>1
      <3>3. CASE n < m
        <4>1. n \in 0..m - 1  BY <1>3, <3>3
        <4>2. g[n] = IF n < 10 THEN <<n>> ELSE Append(g[n \div 10], n % 10)
          BY <2>3, <4>1 DEF DigitsUpTo
        <4>3. f[n] = g[n]  BY <3>3
        <4> HIDE DEF f
        <4>4. QED  BY <3>2, <4>2, <4>3
      <3>4. CASE n = m
        <4>1. f[n] = IF m < 10 THEN <<m>> ELSE Append(g[m \div 10], m % 10)  BY <1>3, <3>4
        <4> HIDE DEF f
        <4>2. QED  BY <3>2, <3>4, <4>1
      <3>5. QED  BY <1>3, <3>3, <3>4
    <2>5. DOMAIN f = 0..m /\ f = [n \in 0..m |-> f[n]]
      OBVIOUS
    <2> HIDE DEF f
    <2>6. DigitsUpTo(m, f)
      BY <2>4, <2>5 DEF DigitsUpTo
    <2>7. QED  BY <2>6
  <1>6. QED  BY <1>3, <1>4, <1>5

\* So the definition defines them.
LEMMA DigitsDefined ==
    ASSUME NEW n \in Nat
    PROVE  Digits[n] = IF n < 10 THEN <<n>> ELSE Append(Digits[n \div 10], n % 10)
  <1> DEFINE These(k) == CHOOSE f : DigitsUpTo(k, f)
             all == [k \in Nat |-> These(k)[k]]
  <1>1. \A k \in Nat : DigitsUpTo(k, These(k))
    BY DigitsExistUpTo
  <1>2. ASSUME NEW k \in Nat
        PROVE  all[k] = IF k < 10 THEN <<k>> ELSE Append(all[k \div 10], k % 10)
    <2>1. DigitsUpTo(k, These(k))  BY <1>1
    <2>2. all[k] = These(k)[k]  OBVIOUS
    <2> HIDE DEF These
    <2>3. These(k)[k] = IF k < 10 THEN <<k>> ELSE Append(These(k)[k \div 10], k % 10)
      <3>1. k \in 0..k  OBVIOUS
      <3> DEFINE h == These(k)
      <3>2. h = [j \in 0..k |-> IF j < 10 THEN <<j>> ELSE Append(h[j \div 10], j % 10)]
        BY <2>1 DEF DigitsUpTo
      <3> HIDE DEF h
      <3>3. h[k] = IF k < 10 THEN <<k>> ELSE Append(h[k \div 10], k % 10)
        BY <3>1, <3>2
      <3>4. QED  BY <3>3 DEF h
    <2>4. CASE k >= 10
      <3>1. k \div 10 \in Nat /\ k \div 10 \in 0..k  BY <2>4, Tenth
      <3>2. DigitsUpTo(k \div 10, These(k \div 10))  BY <1>1, <3>1
      <3>3. These(k)[k \div 10] = These(k \div 10)[k \div 10]
        <4>1. k \div 10 \in 0..k \div 10  BY <3>1
        <4>2. QED  BY <2>1, <3>1, <3>2, <4>1, DigitsAgree
      <3>4. all[k \div 10] = These(k \div 10)[k \div 10]  BY <3>1
      <3> HIDE DEF all
      <3>5. QED  BY <2>2, <2>3, <2>4, <3>3, <3>4
    <2>5. QED  BY <2>2, <2>3, <2>4
  <1>3. all = [k \in Nat |-> all[k]]
    OBVIOUS
  <1> HIDE DEF all
  <1>4. all = [k \in Nat |-> IF k < 10 THEN <<k>> ELSE Append(all[k \div 10], k % 10)]
    BY <1>2, <1>3
  <1>5. Digits = [k \in Nat |-> IF k < 10 THEN <<k>> ELSE Append(Digits[k \div 10], k % 10)]
    BY <1>4 DEF Digits
  <1>6. QED  BY <1>5

\* The digits of a number are worth the number.
LEMMA NumberOfDigits ==
    ASSUME NEW n \in Nat
    PROVE  Digits[n] \in Seq(Nat) /\ Len(Digits[n]) \in Nat \ {0} /\ Number(Digits[n]) = n
  <1> DEFINE Good(k) == /\ Digits[k] \in Seq(Nat) /\ Len(Digits[k]) \in Nat \ {0}
                        /\ Number(Digits[k]) = k
             T == {k \in Nat : ~Good(k)}
  <1> SUFFICES ASSUME T # {}  PROVE FALSE
    <2>1. T = {} => Good(n)  OBVIOUS
    <2> HIDE DEF T
    <2>2. QED  BY <2>1
  <1>1. PICK m \in T : \A k \in T : m <= k
    <2>1. T \in SUBSET Nat  OBVIOUS
    <2> HIDE DEF T
    <2>2. QED  BY <2>1, LeastNumber
  <1>2. m \in Nat /\ ~Good(m)
    OBVIOUS
  <1>3. CASE m < 10
    <2>1. Digits[m] = <<m>>  BY <1>2, <1>3, DigitsDefined
    <2>2. Digits[m] = Append(<<>>, m) /\ <<>> \in Seq(Nat)  BY <2>1
    <2>3. Number(Digits[m]) = 10 * Number(<<>>) + m  BY <1>2, <2>2, NumberOfAppend
    <2>4. Number(<<>>) = 0
      <3> DEFINE e == [k \in 0..0 |-> 0]
      <3>1. e \in [0..0 -> Nat] /\ e[0] = 0  OBVIOUS
      <3>2. Len(<<>>) = 0 /\ 0 \in Nat  OBVIOUS
      <3>3. \A k \in 1..0 : e[k] = 10 * e[k - 1] + <<>>[k] /\ <<>>[k] \in Nat  OBVIOUS
      <3> HIDE DEF e
      <3>4. QED  BY <3>1, <3>2, <3>3, ValuesAre
    <2>5. QED  BY <1>2, <2>1, <2>3, <2>4
  <1>4. CASE m >= 10
    <2>1. Digits[m] = Append(Digits[m \div 10], m % 10)
      <3>1. m \in Nat /\ ~(m < 10)  BY <1>2, <1>4
      <3> HIDE DEF T
      <3>2. QED  BY <3>1, DigitsDefined
    <2>2. m \div 10 \in Nat /\ ~(m <= m \div 10) /\ m % 10 \in Nat /\ m = 10 * (m \div 10) + (m % 10)
      BY <1>2, <1>4, Tenth
    <2>3. m \div 10 \notin T
      <3> HIDE DEF T
      <3>1. QED  BY <1>1, <2>2
    <2>4. Good(m \div 10)
      BY <2>2, <2>3
    <2>5. Number(Digits[m]) = 10 * (m \div 10) + (m % 10)
      BY <2>1, <2>2, <2>4, NumberOfAppend
    <2>6. Digits[m] \in Seq(Nat) /\ Len(Digits[m]) \in Nat \ {0}
      BY <2>1, <2>2, <2>4
    <2>7. QED  BY <1>2, <2>2, <2>5, <2>6
  <1>5. QED  BY <1>2, <1>3, <1>4

-----------------------------------------------------------------------------
(* Amounts shown and read                                                  *)

\* A set of numbers below a bound has a greatest one, and Max is it.
LEMMA GreatestNumber ==
    ASSUME NEW S \in SUBSET Nat, S # {}, NEW bound \in Nat, \A k \in S : k <= bound
    PROVE  Max(S) \in S /\ \A k \in S : k <= Max(S)
  <1> DEFINE T == {d \in 0..bound : bound - d \in S}
  <1>1. T \in SUBSET Nat
    OBVIOUS
  <1>2. T # {}
    <2>1. PICK k \in S : TRUE  OBVIOUS
    <2>2. bound - k \in 0..bound /\ bound - (bound - k) = k  BY <2>1
    <2>3. bound - k \in T  BY <2>1, <2>2
    <2>4. QED  BY <2>3
  <1>3. PICK d \in T : \A c \in T : d <= c
    <2> HIDE DEF T
    <2>1. QED  BY <1>1, <1>2, LeastNumber
  <1>4. bound - d \in S
    OBVIOUS
  <1>5. ASSUME NEW k \in S  PROVE k <= bound - d
    <2>1. bound - k \in 0..bound /\ bound - (bound - k) = k  BY <1>5
    <2>2. bound - k \in T  BY <2>1
    <2>3. d <= bound - k  BY <1>3, <2>2
    <2>4. d \in Int  OBVIOUS
    <2>5. QED  BY <2>1, <2>3, <2>4
  <1>6. \E x \in S : \A y \in S : x >= y
    BY <1>4, <1>5
  <1>7. Max(S) \in S /\ \A y \in S : Max(S) >= y
    BY <1>6 DEF Max
  <1>8. QED  BY <1>7

\* Two sequences are equal when they are as long and agree everywhere.
LEMMA SameSequences ==
    ASSUME NEW s \in Seq(Nat), NEW t \in Seq(Nat), NEW n \in Nat, Len(s) = n, Len(t) = n,
           \A k \in 1..n : s[k] = t[k]
    PROVE  s = t
  <1>1. s \in [1..n -> Nat] /\ t \in [1..n -> Nat]  BY LenProperties
  <1>2. QED  BY <1>1

\* The beginning of a sequence.
LEMMA Beginning ==
    ASSUME NEW s \in Seq(Nat), NEW n \in Nat, n \in 1..Len(s)
    PROVE  /\ SubSeq(s, 1, n) \in Seq(Nat) /\ Len(SubSeq(s, 1, n)) = n
           /\ \A k \in 1..n : SubSeq(s, 1, n)[k] = s[k]
  <1>1. Len(s) \in Nat /\ \A k \in 1..Len(s) : s[k] \in Nat  BY LenProperties, ElementOfSeq
  <1>2. \A k \in 1..n : k \in 1..Len(s)  BY <1>1
  <1>3. SubSeq(s, 1, n) = [k \in 1..n |-> s[k]]
    <2>1. SubSeq(s, 1, n) = [k \in 1..(n - 1 + 1) |-> s[k + 1 - 1]]  OBVIOUS
    <2>2. \A k \in 1..n : k + 1 - 1 = k  OBVIOUS
    <2>3. QED  BY <2>1, <2>2
  <1>4. QED  BY <1>1, <1>2, <1>3

\* What is joined is read in order.
LEMMA Joined ==
    ASSUME NEW s \in Seq(Nat), NEW t \in Seq(Nat), NEW n \in Nat, NEW m \in Nat,
           Len(s) = n, Len(t) = m
    PROVE  /\ s \o t \in Seq(Nat) /\ Len(s \o t) = n + m
           /\ \A k \in 1..n : (s \o t)[k] = s[k]
  <1>1. s \o t \in Seq(Nat) /\ Len(s \o t) = n + m
    BY ConcatProperties
  <1>2. \A k \in 1..n + m : (s \o t)[k] = IF k <= n THEN s[k] ELSE t[k - n]
    BY ConcatProperties
  <1>3. QED  BY <1>1, <1>2

\* What formatAmount shows, parseAmount reads as the same amount, for any number
\* of decimals.
LEMMA AmountsReadBack ==
    ASSUME NEW n \in Nat
    PROVE  ParseAmount(FormatAmount(n)) = n
  <1> DEFINE digits == Digits[n]
             z == Max({Decimals + 1 - Len(digits), 0})
             padded == Zeros(z) \o digits
             point == Len(padded) - Decimals
             places == {point} \cup {k \in point + 1..Len(padded) : padded[k] # 0}
             last == Max(places)
             whole == SubSeq(padded, 1, point)
             fraction == SubSeq(padded, point + 1, last)
  <1>1. digits \in Seq(Nat) /\ Len(digits) \in Nat \ {0} /\ Number(digits) = n
    BY NumberOfDigits
  <1>2. Decimals \in Nat
    BY PlanChangesAssumption
  <1>3. FormatAmount(n) = [whole |-> whole, fraction |-> fraction]
    BY DEF FormatAmount
  <1> HIDE DEF digits
  <1>4. z \in Nat /\ z + Len(digits) >= Decimals + 1
    <2> DEFINE S == {Decimals + 1 - Len(digits), 0}
    <2>1. \E x \in S : \A y \in S : x >= y  BY <1>1, <1>2
    <2>2. Max(S) \in S /\ \A y \in S : Max(S) >= y
      <3> HIDE DEF S
      <3>1. QED  BY <2>1 DEF Max
    <2>3. QED  BY <1>1, <1>2, <2>2
  <1> HIDE DEF z
  <1>5. padded \in Seq(Nat) /\ Number(padded) = n
    BY <1>1, <1>4, NumberOfPadded
  <1>6. Len(padded) = z + Len(digits)
    <2>1. Zeros(z) \in Seq(Nat) /\ Len(Zeros(z)) = z  BY <1>4, ZerosType
    <2>2. QED  BY <1>1, <2>1, ConcatProperties
  <1> HIDE DEF padded
  <1>7. Len(padded) \in Nat /\ point \in Nat \ {0} /\ point <= Len(padded)
    BY <1>1, <1>2, <1>4, <1>6
  <1>8. /\ last \in places
        /\ \A k \in places : k <= last
    <2>1. places \in SUBSET Nat /\ places # {}  BY <1>7
    <2>2. \A k \in places : k <= Len(padded)  BY <1>7
    <2> HIDE DEF places
    <2>3. QED  BY <1>7, <2>1, <2>2, GreatestNumber
  <1>9. last \in Nat /\ point <= last /\ last <= Len(padded)
    BY <1>7, <1>8
  <1>10. \A k \in last + 1..Len(padded) : padded[k] = 0
    <2>1. ASSUME NEW k \in last + 1..Len(padded), padded[k] # 0  PROVE FALSE
      <3>1. k \in point + 1..Len(padded)  BY <1>7, <1>9
      <3>2. k \in places  BY <2>1, <3>1
      <3>3. k <= last  BY <1>8, <3>2
      <3>4. QED  BY <1>7, <1>9, <3>3
    <2>2. QED  BY <2>1
  <1> HIDE DEF places, last
  <1>11. Len(padded) = point + Decimals
    BY <1>2, <1>7
  <1> HIDE DEF point
  <1> DEFINE rest == Decimals - Len(fraction)
             shown == whole \o fraction
  <1>12. /\ whole \in Seq(Nat) /\ Len(whole) = point
         /\ fraction \in Seq(Nat) /\ Len(fraction) = last - point
    BY <1>5, <1>7, <1>9, SubSeqProperties
  <1>13. rest \in Nat /\ rest = Len(padded) - last
    BY <1>2, <1>7, <1>9, <1>11, <1>12
  <1>14. shown = SubSeq(padded, 1, last)
    BY <1>5, <1>7, <1>9, ConcatAdjacentSubSeq
  <1>15. shown \in Seq(Nat) /\ Len(shown) = last /\ \A k \in 1..last : shown[k] = padded[k]
    <2>1. last \in 1..Len(padded)  BY <1>7, <1>9
    <2> HIDE DEF shown
    <2>2. QED  BY <1>5, <1>9, <1>14, <2>1, Beginning
  <1> HIDE DEF shown, rest
  <1>16. shown \o Zeros(rest) = padded
    <2> DEFINE zeros == Zeros(rest)
    <2>1. zeros \in Seq(Nat) /\ Len(zeros) = rest /\ \A k \in 1..rest : zeros[k] = 0
      BY <1>13, ZerosType
    <2> HIDE DEF zeros
    <2> DEFINE all == shown \o zeros
    <2>2. /\ all \in Seq(Nat) /\ Len(all) = last + rest
          /\ \A k \in 1..last : all[k] = shown[k]
          /\ \A k \in 1..rest : all[last + k] = zeros[k]
      <3>1. shown \in Seq(Nat) /\ Len(shown) = last /\ last \in Nat /\ rest \in Nat
        BY <1>9, <1>13, <1>15
      <3> HIDE DEF all
      <3>2. /\ shown \o zeros \in Seq(Nat) /\ Len(shown \o zeros) = last + rest
            /\ \A k \in 1..last : (shown \o zeros)[k] = shown[k]
            /\ \A k \in 1..rest : (shown \o zeros)[last + k] = zeros[k]
        <4>1. zeros \in Seq(Nat) /\ Len(zeros) = rest  BY <2>1
        <4>2. shown \o zeros \in Seq(Nat) /\ Len(shown \o zeros) = last + rest
          BY <3>1, <4>1, Joined
        <4>3. \A k \in 1..last : (shown \o zeros)[k] = shown[k]
          BY <3>1, <4>1, Joined
        <4>4. ASSUME NEW k \in 1..rest  PROVE (shown \o zeros)[last + k] = zeros[k]
          <5>1. last + k \in 1..Len(shown) + Len(zeros) /\ ~(last + k <= Len(shown))
                /\ last + k - Len(shown) = k
            BY <3>1, <4>1
          <5>2. QED  BY <3>1, <4>1, <5>1, ConcatProperties
        <4>5. QED  BY <4>2, <4>3, <4>4
      <3>3. QED  BY <3>2 DEF all
    <2> HIDE DEF all
    <2>3. Len(padded) = last + rest
      BY <1>7, <1>9, <1>13
    <2>4. ASSUME NEW k \in 1..Len(padded)  PROVE all[k] = padded[k]
      <3>1. CASE k \in 1..last
        BY <1>15, <2>2, <3>1
      <3>2. CASE k \in last + 1..last + rest
        <4>1. k - last \in 1..rest /\ last + (k - last) = k  BY <1>9, <1>13, <3>2
        <4>2. zeros[k - last] = 0  BY <2>1, <4>1
        <4>3. padded[k] = 0  BY <1>10, <2>3, <3>2
        <4>4. all[last + (k - last)] = zeros[k - last]  BY <2>2, <4>1
        <4>5. QED  BY <4>1, <4>2, <4>3, <4>4
      <3>3. QED  BY <1>9, <1>13, <2>3, <3>1, <3>2
    <2>5. all = padded
      BY <1>5, <1>7, <2>2, <2>3, <2>4, SameSequences
    <2>6. QED  BY <2>5 DEF all, zeros
  <1>17. ~(whole = <<>> \/ Len(fraction) > Decimals)
    <2>1. Len(<<>>) = 0  OBVIOUS
    <2>2. Len(whole) # 0 /\ ~(Len(fraction) > Decimals)
      <3> HIDE DEF whole, fraction
      <3>1. QED  BY <1>2, <1>7, <1>9, <1>11, <1>12
    <2> HIDE DEF whole, fraction
    <2>3. QED  BY <2>1, <2>2
  <1>18. ParseAmount(FormatAmount(n)) = Number(shown \o Zeros(rest))
    <2> DEFINE text == FormatAmount(n)
    <2>1. text.whole = whole /\ text.fraction = fraction
      <3>1. text = [whole |-> whole, fraction |-> fraction]  BY <1>3
      <3> HIDE DEF whole, fraction, text
      <3>2. QED  BY <3>1
    <2>2. ParseAmount(text) = Number(whole \o fraction \o Zeros(Decimals - Len(fraction)))
      <3> HIDE DEF whole, fraction, text
      <3>1. QED  BY <1>17, <2>1 DEF ParseAmount
    <2>3. QED  BY <2>2 DEF shown, rest
  <1>19. QED  BY <1>5, <1>16, <1>18

\* What was shown is an integer, and so reads back.
LEMMA InvariantReadsBack == ChangesInv => ShownReadsBack
  <1> SUFFICES ASSUME ChangesInv, offer # NoOffer
               PROVE  ParseAmount(FormatAmount(Abs(offer.shown.amount))) = Abs(offer.shown.amount)
    BY DEF ShownReadsBack
  <1>1. Abs(offer.shown.amount) \in Nat
    BY AbsType DEF ChangesInv, ChangesTypeOK
  <1>2. QED  BY <1>1, AmountsReadBack

\* formatAmount and parseAmount: whatever amount is shown, for any token, is read back
\* as the same amount.
THEOREM ShownIsReadBack == ChangesSpec => []ShownReadsBack
  BY InvariantReadsBack, ChangesInvariance, PTL
=============================================================================
