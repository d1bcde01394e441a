---------------------------- MODULE Subscriptions ----------------------------
(***************************************************************************)
(* The subscription calls of the SDK's clients (src/src/client.ts), the    *)
(* mandates of one merchant they create and cancel on the chain, and the   *)
(* billing schedules they keep at the keeper (src/src/schedule.ts).        *)
(*                                                                         *)
(* A lifecycle call first sends a transaction and waits for it, then tells *)
(* the keeper.  Calls of several clients (subscribers, the admin) run at   *)
(* once.  A transaction, and a request to the keeper, outlives its call:   *)
(* it may still take effect after the call was rejected.                   *)
(*                                                                         *)
(* What may go wrong is chosen by the constant Faults:                     *)
(*   "rpc"     waiting for a transaction, or reading the mandate after it, *)
(*             fails although the transaction lands                        *)
(*   "drop"    a transaction that was sent never lands                     *)
(*   "keeper"  the keeper refuses a request, or its answer is lost         *)
(*   "config"  the client has no keeper endpoint of its own, and reading   *)
(*             KeeperConfig from the chain fails                           *)
(***************************************************************************)
EXTENDS Naturals

CONSTANTS
    Subscribers,
    Calls,          \* bound: the calls made of the SDK, each made once
    MaxMandates,    \* bound: mandates of the merchant
    StrictKeeper,   \* a DELETE for an unknown schedule is not answered "ok"
    Faults,
    Admin,          \* the wallet of the protocol admin
    None            \* no value

ASSUME SubscriptionsAssumption ==
    /\ MaxMandates \in Nat
    /\ StrictKeeper \in BOOLEAN
    /\ Faults \subseteq {"rpc", "drop", "keeper", "config"}
    /\ Admin \notin Subscribers
    /\ None \notin Subscribers \cup {Admin}

VARIABLES
    counter,    \* merchantState.mandateCounter
    owner,      \* owner[i]: the subscriber of mandate i, or None
    status,     \* status[i]: of mandate i
    schedules,  \* the mandates the keeper has a schedule for
    job,        \* job[c]: what call c is to do, or None before it is made
    pc,         \* pc[c]: where call c is
    tx,         \* tx[c]: the transaction of call c
    request     \* request[c]: the request of call c to the keeper

chainVars == <<counter, owner, status>>
vars == <<chainVars, schedules, job, pc, tx, request>>

Index == 0..(MaxMandates - 1)
Creates == {"createSubscription", "wrapAndSubscribe"}
Cancels == {"cancelSubscription", "adminCancel"}
Repairs == {"registerBillingSchedule", "cancelBillingSchedule"}

Job == [op : Creates \cup Cancels \cup Repairs,
        by : Subscribers \cup {Admin}, index : Index]

ASSUME NoneIsNoJob == None \notin Job

TypeOK ==
    /\ counter \in 0..MaxMandates
    /\ owner \in [Index -> Subscribers \cup {None}]
    /\ status \in [Index -> {"none", "active", "cancelled"}]
    /\ schedules \subseteq Index
    /\ job \in [Calls -> Job \cup {None}]
    /\ pc \in [Calls -> {"idle", "confirming", "syncing", "resolved", "rejected"}]
    /\ tx \in [Calls -> {"none", "sent", "landed", "failed", "dropped"}]
    /\ request \in [Calls -> {"none", "sent", "ok", "error"}]

Init ==
    /\ counter = 0
    /\ owner = [i \in Index |-> None]
    /\ status = [i \in Index |-> "none"]
    /\ schedules = {}
    /\ job = [c \in Calls |-> None]
    /\ pc = [c \in Calls |-> "idle"]
    /\ tx = [c \in Calls |-> "none"]
    /\ request = [c \in Calls |-> "none"]

-----------------------------------------------------------------------------
(* A call is made                                                          *)

\* The instruction is built for mandate i and its transaction is sent.
Send(c, op, by, i) ==
    /\ pc[c] = "idle"
    /\ job' = [job EXCEPT ![c] = [op |-> op, by |-> by, index |-> i]]
    /\ pc' = [pc EXCEPT ![c] = "confirming"]
    /\ tx' = [tx EXCEPT ![c] = "sent"]
    /\ UNCHANGED <<chainVars, schedules, request>>

\* Mutant: the address is derived from the counter the merchant will have.
SubscribeIndex_Next == counter + 1

\* Mutant: the address is derived from the counter the last mandate had.
SubscribeIndex_Last == counter - 1

\* buildSubscribeInstruction derives the address of the new mandate from the
\* merchant's counter as it reads it now.
SubscribeIndex == counter

CreateSubscription(c, s) ==
    /\ counter < MaxMandates
    /\ Send(c, "createSubscription", s, SubscribeIndex)

WrapAndSubscribe(c, s) ==
    /\ counter < MaxMandates
    /\ Send(c, "wrapAndSubscribe", s, SubscribeIndex)

\* The caller names a mandate that exists; nothing is read about its status.
CancelSubscription(c, i) ==
    /\ status[i] # "none"
    /\ Send(c, "cancelSubscription", owner[i], i)

AdminCancel(c, i) ==
    /\ status[i] # "none"
    /\ Send(c, "adminCancel", Admin, i)

About(c, i) == job[c] # None /\ job[c].index = i

\* One of the two methods that only talk to the keeper, which a caller uses to
\* repair what a rejected call has left behind, once, or again after a failure.
Repair(c, op, i) ==
    /\ pc[c] = "idle"
    /\ \A d \in Calls : About(d, i) /\ job[d].op = op => pc[d] = "rejected"
    /\ job' = [job EXCEPT ![c] = [op |-> op, by |-> owner[i], index |-> i]]
    /\ pc' = [pc EXCEPT ![c] = "syncing"]
    /\ request' = [request EXCEPT ![c] = "sent"]
    /\ UNCHANGED <<chainVars, schedules, tx>>

\* A call of ops has changed mandate i, and was rejected all the same.
LeftBehind(i, ops) ==
    \E c \in Calls : /\ About(c, i) /\ job[c].op \in ops
                     /\ tx[c] = "landed" /\ pc[c] = "rejected"

RegisterBillingSchedule(c, i) ==
    /\ status[i] = "active"
    /\ LeftBehind(i, Creates)
    /\ Repair(c, "registerBillingSchedule", i)

CancelBillingSchedule(c, i) ==
    /\ status[i] = "cancelled"
    /\ LeftBehind(i, Cancels)
    /\ Repair(c, "cancelBillingSchedule", i)

-----------------------------------------------------------------------------
(* The chain (external)                                                    *)

\* subscribe creates the account at the address it is given, which must be
\* the one derived from the counter as it is now.
LandCreate(c) ==
    /\ job[c].index = counter
    /\ counter' = counter + 1
    /\ owner' = [owner EXCEPT ![counter] = job[c].by]
    /\ status' = [status EXCEPT ![counter] = "active"]

\* cancel and admin_cancel want an active mandate (error 6001).
LandCancel(c) ==
    /\ status[job[c].index] = "active"
    /\ status' = [status EXCEPT ![job[c].index] = "cancelled"]
    /\ UNCHANGED <<counter, owner>>

Land(c) ==
    /\ tx[c] = "sent"
    /\ \/ job[c].op \in Creates /\ LandCreate(c)
       \/ job[c].op \in Cancels /\ LandCancel(c)
    /\ tx' = [tx EXCEPT ![c] = "landed"]
    /\ UNCHANGED <<schedules, job, pc, request>>

\* The program returns an error.
Fail(c) ==
    /\ tx[c] = "sent"
    /\ \/ job[c].op \in Creates /\ job[c].index # counter
       \/ job[c].op \in Cancels /\ status[job[c].index] # "active"
    /\ tx' = [tx EXCEPT ![c] = "failed"]
    /\ UNCHANGED <<chainVars, schedules, job, pc, request>>

Drop(c) ==
    /\ "drop" \in Faults
    /\ tx[c] = "sent"
    /\ tx' = [tx EXCEPT ![c] = "dropped"]
    /\ UNCHANGED <<chainVars, schedules, job, pc, request>>

-----------------------------------------------------------------------------
(* The call waits for its transaction                                      *)

\* Mutant: the keeper is told as soon as the transaction is sent.
Confirm_Sent(c) ==
    /\ pc[c] = "confirming"
    /\ tx[c] \in {"sent", "landed"}
    /\ pc' = [pc EXCEPT ![c] = "syncing"]
    /\ UNCHANGED <<chainVars, schedules, job, tx, request>>

\* sendV0Transaction returns the signature and the mandate is read.
Confirm(c) ==
    /\ pc[c] = "confirming"
    /\ tx[c] = "landed"
    /\ pc' = [pc EXCEPT ![c] = "syncing"]
    /\ UNCHANGED <<chainVars, schedules, job, tx, request>>

\* Mutant: the instruction is built and sent again.
ConfirmFails_Resends(c) ==
    /\ pc[c] = "confirming"
    /\ tx[c] \in {"failed", "dropped"} \/ "rpc" \in Faults
    /\ job' = [job EXCEPT ![c].index =
                  IF job[c].op \in Creates THEN counter ELSE @]
    /\ tx' = [tx EXCEPT ![c] = "sent"]
    /\ UNCHANGED <<chainVars, schedules, pc, request>>

\* The transaction failed or expired, or waiting for it or reading the
\* mandate threw: the call is rejected, whatever becomes of the transaction.
ConfirmFails(c) ==
    /\ pc[c] = "confirming"
    /\ tx[c] \in {"failed", "dropped"} \/ "rpc" \in Faults
    /\ pc' = [pc EXCEPT ![c] = "rejected"]
    /\ UNCHANGED <<chainVars, schedules, job, tx, request>>

-----------------------------------------------------------------------------
(* The call tells the keeper                                               *)

\* registerScheduleForMandate, cancelScheduleForMandate: the keeper's
\* endpoint is resolved and the request sent.
SyncKeeper(c) ==
    /\ pc[c] = "syncing"
    /\ request[c] = "none"
    /\ request' = [request EXCEPT ![c] = "sent"]
    /\ UNCHANGED <<chainVars, schedules, job, pc, tx>>

\* resolveKeeperOptionsForLifecycleSync catches the error of reading
\* KeeperConfig; without an endpoint the keeper is left alone.
SkipKeeper(c) ==
    /\ "config" \in Faults
    /\ pc[c] = "syncing"
    /\ request[c] = "none"
    /\ pc' = [pc EXCEPT ![c] = "resolved"]
    /\ UNCHANGED <<chainVars, schedules, job, tx, request>>

Registers(c) == job[c].op \in Creates \cup {"registerBillingSchedule"}

\* The keeper (external) carries out a POST or a DELETE.
KeeperAccepts(c) ==
    /\ request[c] = "sent"
    /\ Registers(c) \/ job[c].index \in schedules \/ ~StrictKeeper
    /\ schedules' = IF Registers(c) THEN schedules \cup {job[c].index}
                                    ELSE schedules \ {job[c].index}
    /\ request' = [request EXCEPT ![c] = "ok"]
    /\ UNCHANGED <<chainVars, job, pc, tx>>

KeeperRefuses(c) ==
    /\ request[c] = "sent"
    /\ \/ "keeper" \in Faults
       \/ StrictKeeper /\ ~Registers(c) /\ job[c].index \notin schedules
    /\ request' = [request EXCEPT ![c] = "error"]
    /\ UNCHANGED <<chainVars, schedules, job, pc, tx>>

\* { success: true }: the call resolves.
Resolve(c) ==
    /\ pc[c] = "syncing"
    /\ request[c] = "ok"
    /\ pc' = [pc EXCEPT ![c] = "resolved"]
    /\ UNCHANGED <<chainVars, schedules, job, tx, request>>

\* Mutant: a refused request does not reject the call.
SyncFails_Resolves(c) ==
    /\ pc[c] = "syncing"
    /\ request[c] = "error" \/ (request[c] # "none" /\ "keeper" \in Faults)
    /\ pc' = [pc EXCEPT ![c] = "resolved"]
    /\ UNCHANGED <<chainVars, schedules, job, tx, request>>

\* { success: false }: the keeper said no, or fetch threw, in which case the
\* request may have been carried out, or may yet be.  A lifecycle call throws.
SyncFails(c) ==
    /\ pc[c] = "syncing"
    /\ request[c] = "error" \/ (request[c] # "none" /\ "keeper" \in Faults)
    /\ pc' = [pc EXCEPT ![c] = "rejected"]
    /\ UNCHANGED <<chainVars, schedules, job, tx, request>>

-----------------------------------------------------------------------------
Make(c) ==
    \/ \E s \in Subscribers : CreateSubscription(c, s) \/ WrapAndSubscribe(c, s)
    \/ \E i \in Index : \/ CancelSubscription(c, i) \/ AdminCancel(c, i)
                        \/ RegisterBillingSchedule(c, i)
                        \/ CancelBillingSchedule(c, i)

Execute(c) == Land(c) \/ Fail(c)

Wait(c) == Confirm(c) \/ ConfirmFails(c)

Sync(c) == SyncKeeper(c) \/ SkipKeeper(c) \/ Resolve(c) \/ SyncFails(c)

Keeper(c) == KeeperAccepts(c) \/ KeeperRefuses(c)

Next ==
    \E c \in Calls : \/ Make(c) \/ Execute(c) \/ Drop(c)
                     \/ Wait(c) \/ Sync(c) \/ Keeper(c)

Spec == Init /\ [][Next]_vars

-----------------------------------------------------------------------------
(* What the SDK tells a caller who asks                                    *)

\* The account at the address derived from subscriber s and counter value i.
MandateExists(s, i) == \E j \in Index : j = i /\ owner[j] = s

\* validateSubscribe, for a plan that is active.
CanSubscribe(s) == ~MandateExists(s, counter)

-----------------------------------------------------------------------------
(* Properties                                                              *)

CreatedBy(c, i) == About(c, i) /\ job[c].op \in Creates /\ tx[c] = "landed"

\* Every mandate was created by exactly one call, for the subscriber who made
\* it, and every call creates the mandate at the address it goes on to report
\* and register: also when calls race for one counter value, and when a call
\* does not learn what became of its transaction (client.ts:1110-1132).
OneMandatePerCall ==
    /\ \A i \in Index : status[i] # "none" =>
          \E c \in Calls : /\ CreatedBy(c, i) /\ job[c].by = owner[i]
                           /\ \A d \in Calls \ {c} : ~CreatedBy(d, i)
    /\ \A c \in Calls, i \in Index : CreatedBy(c, i) => status[i] # "none"

\* A lifecycle call fails on the chain only because another call of its kind
\* got there first: of the subscribers racing for one counter value one wins,
\* and a cancel is refused only because the mandate has been cancelled.
LoserHasRival ==
    \A c \in Calls, kind \in {Creates, Cancels} :
        tx[c] = "failed" /\ job[c].op \in kind =>
            \E d \in Calls \ {c} :
                /\ job[d] # None /\ job[d].op \in kind
                /\ job[d].index = job[c].index /\ tx[d] = "landed"

\* The keeper is never told of a mandate before it exists, so what it has a
\* schedule for is a mandate (client.ts:697-733).
ScheduledExists == \A i \in schedules : status[i] # "none"

\* The caller of c was told that it went well, or has repaired what it left.
Mended(c) ==
    \/ pc[c] = "resolved"
    \/ /\ pc[c] = "rejected"
       /\ \E d \in Calls :
             /\ About(d, job[c].index) /\ pc[d] = "resolved"
             /\ job[d].op = IF job[c].op \in Cancels THEN "cancelBillingSchedule"
                                                    ELSE "registerBillingSchedule"

Settled(i) ==
    \A c \in Calls :
        About(c, i) /\ (tx[c] = "landed" \/ job[c].op \in Repairs) => Mended(c)

\* Chain and keeper disagree about a mandate only while a call about it is
\* still running, or after one was rejected and its keeper request was not
\* repaired: callers that heed what they are told leave no schedule for a
\* cancelled mandate, and no active one that is never billed.
NoSilentDivergence ==
    \A i \in Index : Settled(i) => (i \in schedules <=> status[i] = "active")

\* validateSubscribe refuses a subscriber who has a subscription to the plan
\* (preflight.ts:112, "Subscription already exists for this subscriber and
\* plan").
SubscribedIsDetected ==
    \A s \in Subscribers :
        (\E i \in Index : owner[i] = s /\ status[i] = "active") => ~CanSubscribe(s)
=============================================================================
