------------------------------ MODULE Streams ------------------------------
(***************************************************************************)
(* Streams: a merchant is paid by the second.  The SDK builds the          *)
(* instructions (src/src/instructions/), tells what has accrued            *)
(* (src/src/accrued.ts) and changes the rate (the stream part of           *)
(* src/src/builders/upgrade-builder.ts); the command line calls them       *)
(* (src/cli/commands/stream/).                                             *)
(*                                                                         *)
(* Transactions land in any order, any time after they were built, or not  *)
(* at all.  The program is not part of the SDK: its refusals are those its *)
(* IDL names, and that pausing, cancelling and a change of the rate settle *)
(* first is read off the accounts their instructions carry.                *)
(***************************************************************************)
EXTENDS Integers, FiniteSets

CONSTANTS
    Rates,          \* the rates that are asked for
    Caps,           \* the caps that are asked for, with NoCap
    MinSettle,      \* minSettleInterval
    MaxStreamTime,  \* bound: the chain's clock
    MaxStreamTxs,   \* bound: transactions sent in all
    NoCap           \* maxStreamed = null

ASSUME StreamsAssumption ==
    /\ Rates \subseteq Nat \ {0}
    /\ Caps \subseteq Nat \cup {NoCap}
    /\ MinSettle \in Nat
    /\ MaxStreamTime \in Nat
    /\ MaxStreamTxs \in Nat
    /\ NoCap \notin Nat

VARIABLES
    streamClock,
    streamCounter,  \* stream_counter of the MerchantState account
    stream,         \* the StreamMandate account
    streamTxs,      \* the transactions under way, by their numbers
    streamTxCount,
    creation        \* how the last buildCreateStreamMandateInstruction ended

streamVars == <<streamClock, streamCounter, stream, streamTxs, streamTxCount, creation>>

\* Before the account exists its status is "absent".
Stream == [status : {"absent", "active", "paused", "cancelled"}, rate : Nat,
           maxRate : Nat, lastSettled : Nat, total : Nat, cap : Nat \cup {NoCap}]

NoRate == 0     \* an option that is not given: no rate is zero

StreamOps == {"create", "execute", "pause", "resume", "cancel", "update"}

\* index: the counter a creation was built with; base: the rate and the ceiling
\* an update was computed from; wanted: those it is to bring about.
StreamTx == [op : StreamOps, id : 1..MaxStreamTxs, index : Nat, rate : Nat,
             maxRate : Nat, cap : Nat \cup {NoCap}, by : {"subscriber", "merchant"},
             base : Nat \X Nat, wanted : Nat \X Nat]

StreamsTypeOK ==
    /\ streamClock \in 0..MaxStreamTime
    /\ streamCounter \in 0..1
    /\ stream \in Stream
    /\ streamTxs \subseteq StreamTx
    /\ streamTxCount \in 0..MaxStreamTxs
    /\ creation \in {"none", "built", "threw"}

StreamsInit ==
    /\ streamClock = 0
    /\ streamCounter = 0
    /\ stream = [status |-> "absent", rate |-> 0, maxRate |-> 0, lastSettled |-> 0,
                 total |-> 0, cap |-> NoCap]
    /\ streamTxs = {}
    /\ streamTxCount = 0
    /\ creation = "none"

-----------------------------------------------------------------------------
(* What has accrued                                                        *)

Least(a, b) == IF a <= b THEN a ELSE b

\* accruedNow; for a cancelled stream it throws, and there is nothing.
AccruedNow(m, now) ==
    LET gross == (now - m.lastSettled) * m.rate
    IN IF m.status # "active" \/ now < m.lastSettled THEN 0
       ELSE IF m.cap = NoCap THEN gross
       ELSE IF m.cap <= m.total THEN 0
       ELSE Least(gross, m.cap - m.total)

-----------------------------------------------------------------------------
(* The builders                                                            *)

EmptyTx == [op |-> "execute", id |-> 1, index |-> 0, rate |-> NoRate,
            maxRate |-> NoRate, cap |-> NoCap, by |-> "subscriber",
            base |-> <<0, 0>>, wanted |-> <<0, 0>>]

SendStreamTx(t) ==
    /\ streamTxCount < MaxStreamTxs
    /\ streamTxCount' = streamTxCount + 1
    /\ streamTxs' = streamTxs \cup {[t EXCEPT !.id = streamTxCount + 1]}
    /\ UNCHANGED <<streamClock, streamCounter, stream>>

\* The length of the data of create_stream_mandate: the discriminator, two rates,
\* the optional cap and the interval.
CreateDataLength(cap) == 8 + 8 + 8 + (IF cap = NoCap THEN 1 ELSE 9) + 4

\* The interval is written at a fixed place; it must lie inside the data.
IntervalFits(cap) == 33 + 4 <= CreateDataLength(cap)

\* buildCreateStreamMandateInstruction reads the counter of the merchant, and
\* throws if the data cannot be written.
CreateStream(rate, maxRate, cap) ==
    /\ stream.status = "absent"
    /\ IF IntervalFits(cap)
       THEN /\ SendStreamTx([EmptyTx EXCEPT !.op = "create", !.rate = rate, !.cap = cap,
                               !.maxRate = maxRate, !.index = streamCounter])
            /\ creation' = "built"
       ELSE /\ creation' = "threw"
            /\ UNCHANGED <<streamClock, streamCounter, stream, streamTxs, streamTxCount>>

\* The other builders fetch the stream, which must exist.
BuildFor(op) ==
    /\ stream.status # "absent"
    /\ SendStreamTx([EmptyTx EXCEPT !.op = op])
    /\ UNCHANGED creation

ExecuteStream == BuildFor("execute")
PauseStream == BuildFor("pause")
ResumeStream == BuildFor("resume")
CancelStream == BuildFor("cancel")

\* previewStreamRateChange.
RequiresSubscriberSig(rate, ceiling, maxRate) == ceiling > maxRate \/ rate > maxRate

\* Mutant: the wanted rate is compared with the ceiling.
RateOption_Ceiling(rate, base) == IF rate = base[2] THEN NoRate ELSE rate

\* Only what is to change is sent.
RateOption(rate, base) == IF rate = base[1] THEN NoRate ELSE rate
CeilingOption(ceiling, base) == IF ceiling = base[2] THEN NoRate ELSE ceiling

\* UpgradeBuilder.execute for a stream, with a stream that was fetched earlier:
\* base is its rate and its ceiling.  A ceiling that is not given is the rate.
\* It throws without a needed signature, and when there is nothing to change.
UpgradeRate(rate, ceiling, by) ==
    LET base == <<stream.rate, stream.maxRate>> IN
    /\ stream.status # "absent"
    /\ RequiresSubscriberSig(rate, ceiling, base[2]) => by = "subscriber"
    /\ <<rate, ceiling>> # base
    /\ SendStreamTx([EmptyTx EXCEPT !.op = "update", !.by = by,
                       !.rate = RateOption(rate, base),
                       !.maxRate = CeilingOption(ceiling, base),
                       !.base = base, !.wanted = <<rate, ceiling>>])
    /\ UNCHANGED creation

-----------------------------------------------------------------------------
(* The program                                                             *)

\* What accrued is paid, whatever moves it.
Settled(m) == [m EXCEPT !.total = @ + AccruedNow(m, streamClock),
                        !.lastSettled = IF m.status = "active" THEN streamClock ELSE @]

Given(option, otherwise) == IF option = NoRate THEN otherwise ELSE option

UpdatedRate(t) == Given(t.rate, stream.rate)
UpdatedCeiling(t) == Given(t.maxRate, stream.maxRate)

\* The refusals, by the numbers of the IDL; 0 is for addresses that do not match.
StreamRefusals(t) ==
    {code \in {0, 12700, 12701, 12702, 12703, 12709, 12716} :
       CASE code = 0 ->
              t.op = "create" /\ (t.index # streamCounter \/ stream.status # "absent")
         [] code = 12700 -> t.op = "execute" /\ stream.status # "active"
         [] code = 12701 -> t.op = "pause" /\ stream.status # "active"
         [] code = 12702 -> t.op # "create" /\ stream.status = "cancelled"
         [] code = 12703 -> /\ t.op = "execute"
                            /\ streamClock < stream.lastSettled + MinSettle
         [] code = 12709 -> \/ t.op = "create" /\ t.maxRate < t.rate
                            \/ t.op = "update" /\ UpdatedCeiling(t) < UpdatedRate(t)
         [] code = 12716 -> /\ t.op = "update" /\ t.by # "subscriber"
                            /\ \/ UpdatedCeiling(t) > stream.maxRate
                               \/ UpdatedRate(t) > stream.maxRate}

Applied(t) ==
    CASE t.op = "create" ->
           [status |-> "active", rate |-> t.rate, maxRate |-> t.maxRate,
            lastSettled |-> streamClock, total |-> 0, cap |-> t.cap]
      [] t.op = "execute" -> Settled(stream)
      [] t.op = "pause" -> [Settled(stream) EXCEPT !.status = "paused"]
      [] t.op = "resume" ->
           IF stream.status = "paused"
           THEN [stream EXCEPT !.status = "active", !.lastSettled = streamClock]
           ELSE stream
      [] t.op = "cancel" -> [Settled(stream) EXCEPT !.status = "cancelled"]
      [] t.op = "update" -> [Settled(stream) EXCEPT !.rate = UpdatedRate(t),
                                                    !.maxRate = UpdatedCeiling(t)]

Executes(t) ==
    /\ t \in streamTxs
    /\ StreamRefusals(t) = {}
    /\ stream' = Applied(t)

LandStreamTx(t) ==
    /\ t \in streamTxs
    /\ streamTxs' = streamTxs \ {t}
    /\ IF StreamRefusals(t) = {}
       THEN /\ stream' = Applied(t)
            /\ streamCounter' = IF t.op = "create" THEN streamCounter + 1 ELSE streamCounter
       ELSE UNCHANGED <<stream, streamCounter>>
    /\ UNCHANGED <<streamClock, streamTxCount, creation>>

DropStreamTx(t) ==
    /\ t \in streamTxs
    /\ streamTxs' = streamTxs \ {t}
    /\ UNCHANGED <<streamClock, streamCounter, stream, streamTxCount, creation>>

StreamTick ==
    /\ streamClock < MaxStreamTime
    /\ streamClock' = streamClock + 1
    /\ UNCHANGED <<streamCounter, stream, streamTxs, streamTxCount, creation>>

StreamsNext ==
    \/ \E rate \in Rates, maxRate \in Rates, cap \in Caps : CreateStream(rate, maxRate, cap)
    \/ ExecuteStream \/ PauseStream \/ ResumeStream \/ CancelStream
    \/ \E rate \in Rates, ceiling \in Rates, by \in {"subscriber", "merchant"} :
         UpgradeRate(rate, ceiling, by)
    \/ \E t \in streamTxs : LandStreamTx(t) \/ DropStreamTx(t)
    \/ StreamTick

StreamsSpec == StreamsInit /\ [][StreamsNext]_streamVars

-----------------------------------------------------------------------------
(* Properties                                                              *)

Earned == stream.total + AccruedNow(stream, streamClock)

\* What the SDK says the merchant has earned, paid or accrued, never shrinks,
\* however settlements, pauses, resumptions, new rates and cancellations follow
\* one another, and never exceeds the cap.
NothingEarnedIsLost == [][Earned' >= Earned]_streamVars

EarnedWithinCap == stream.cap # NoCap => Earned <= stream.cap

\* The SDK asks for the subscriber's signature whenever the program will: an
\* update is refused for it only if another one landed since it was computed.
SignatureForeseen ==
    \A t \in streamTxs :
      12716 \in StreamRefusals(t) => t.base # <<stream.rate, stream.maxRate>>

\* An update that is executed brings about the rate and the ceiling that were
\* asked for, although it sends only what differs from an earlier read; another
\* update in between is the only exception.
UpdateIsWhatWasWanted ==
    [][\A t \in streamTxs :
         Executes(t) /\ t.op = "update" /\ t \notin streamTxs'
           => \/ <<stream'.rate, stream'.maxRate>> = t.wanted
              \/ t.base # <<stream.rate, stream.maxRate>>]_streamVars

\* The cap of a stream is optional ("Optional cap in raw token base units",
\* src/cli/commands/stream/create.ts:30): building a stream without one works.
CapIsOptional == creation # "threw"

\* Together, of all transactions in any order: nothing the merchant earned is
\* lost, the cap holds, and updates are signed and do what they were made for.
StreamsSafe ==
    /\ NothingEarnedIsLost /\ []EarnedWithinCap
    /\ []SignatureForeseen /\ UpdateIsWhatWasWanted
=============================================================================
