------------------------ MODULE SubscriptionsProofs ------------------------
(***************************************************************************)
(* Theorems about Subscriptions, for any subscribers, any number of calls  *)
(* and mandates and, but for the last one, any faults.                     *)
(***************************************************************************)
EXTENDS Subscriptions, TLAPS

Has(c, ops) == job[c] # None /\ job[c].op \in ops

\* How far a call is, and what it has done so far, agree.
CallInOrder(c) ==
    /\ pc[c] = "idle" => job[c] = None /\ tx[c] = "none" /\ request[c] = "none"
    /\ pc[c] # "idle" => job[c] # None
    /\ pc[c] = "confirming" => request[c] = "none"
    /\ tx[c] # "none" <=> Has(c, Creates \cup Cancels)
    /\ request[c] # "none" \/ pc[c] \in {"syncing", "resolved"} =>
          Has(c, Repairs) \/ tx[c] = "landed"

\* What a call is about, and what has become of it.
CallIsAbout(c) ==
    /\ Has(c, Creates) => job[c].by \in Subscribers /\ job[c].index <= counter
    /\ Has(c, Creates) /\ tx[c] = "landed" => status[job[c].index] # "none"
    /\ Has(c, Cancels \cup Repairs) => status[job[c].index] # "none"
    /\ Has(c, Cancels) /\ tx[c] = "landed" => status[job[c].index] = "cancelled"
    /\ Has(c, {"cancelBillingSchedule"}) => status[job[c].index] = "cancelled"

\* The merchant's mandates are numbered without gaps.
Numbered == \A i \in Index : /\ status[i] # "none" <=> i < counter
                             /\ i < counter => owner[i] \in Subscribers

CancelledBy(c, i) == About(c, i) /\ job[c].op \in Cancels /\ tx[c] = "landed"

\* What happened to a mandate was done by a call.
HasCreator(i) ==
    status[i] # "none" => \E c \in Calls : /\ CreatedBy(c, i) /\ job[c].by = owner[i]
                                           /\ \A d \in Calls \ {c} : ~CreatedBy(d, i)
HasCanceller(i) == status[i] = "cancelled" => \E c \in Calls : CancelledBy(c, i)

SubsInv ==
    /\ TypeOK
    /\ \A c \in Calls : CallInOrder(c) /\ CallIsAbout(c)
    /\ Numbered
    /\ \A i \in Index : HasCreator(i) /\ HasCanceller(i)
    /\ LoserHasRival
    /\ ScheduledExists

-----------------------------------------------------------------------------
(* The keeper, when it does not fail and refuses to delete what it does    *)
(* not have                                                                *)

\* Call c tells the keeper to bill mandate i.
Posts(c, i) == About(c, i) /\ Registers(c) /\ pc[c] \in {"syncing", "resolved"}

\* The keeper is asked at most once to bill a mandate: a repair is made only of
\* a call that was rejected before it asked.
PostedOnce == \A i \in Index : \A c, d \in Calls : Posts(c, i) /\ Posts(d, i) => c = d

\* A repair was made of a call that has given up.
RepairsRejected ==
    \A d \in Calls : Has(d, {"registerBillingSchedule"}) =>
        \E c \in Calls : CreatedBy(c, job[d].index) /\ pc[c] = "rejected"

\* A request to bill is never refused; who was told that it went well asked.
KeeperAnswers(c) ==
    /\ Has(c, Creates \cup {"registerBillingSchedule"}) =>
          /\ request[c] # "error"
          /\ pc[c] = "rejected" => request[c] = "none"
    /\ pc[c] = "resolved" => request[c] = "ok"
    /\ request[c] = "sent" => pc[c] = "syncing"
    /\ Has(c, {"registerBillingSchedule"}) => request[c] # "none"

\* It has done so.
Posted(c, i) == Posts(c, i) /\ request[c] = "ok"
Deleted(c, i) == About(c, i) /\ ~Registers(c) /\ request[c] = "ok"

\* What the keeper has a schedule for: what it was told to bill and not yet told
\* to forget.
ScheduleHasCause(i) ==
    /\ i \in schedules => \E c \in Calls : Posted(c, i)
    /\ \A d \in Calls : Deleted(d, i) => i \notin schedules /\ \E c \in Calls : Posted(c, i)
    /\ (\E c \in Calls : Posted(c, i)) /\ i \notin schedules => \E d \in Calls : Deleted(d, i)

KeeperInv ==
    /\ PostedOnce
    /\ RepairsRejected
    /\ \A c \in Calls : KeeperAnswers(c)
    /\ \A i \in Index : ScheduleHasCause(i)

\* The keeper does not fail, and its endpoint is known.
ReliableKeeper == StrictKeeper /\ "keeper" \notin Faults /\ "config" \notin Faults

-----------------------------------------------------------------------------
(* Steps after which no more transactions have landed                      *)

\* A call that was made stays the same call, and no transaction lands.
NoneLands ==
    /\ UNCHANGED chainVars
    /\ \A d \in Calls : /\ job[d] # None => job'[d] = job[d]
                        /\ tx'[d] = "landed" <=> tx[d] = "landed"

\* While nothing lands, who created and who cancelled a mandate stays,
LEMMA CreatorsStay ==
    ASSUME SubsInv, NoneLands, NEW i
    PROVE  \A c \in Calls : /\ CreatedBy(c, i)' <=> CreatedBy(c, i)
                            /\ CancelledBy(c, i)' <=> CancelledBy(c, i)
                            /\ CreatedBy(c, i) => job'[c] = job[c]
  <1> SUFFICES ASSUME NEW c \in Calls
               PROVE  /\ CreatedBy(c, i)' <=> CreatedBy(c, i)
                      /\ CancelledBy(c, i)' <=> CancelledBy(c, i)
                      /\ CreatedBy(c, i) => job'[c] = job[c]
    OBVIOUS
  <1>1. tx[c] = "landed" => job[c] # None
    BY DEF SubsInv, CallInOrder, Has
  <1>2. tx'[c] = "landed" <=> tx[c] = "landed"  BY DEF NoneLands
  <1>3. job[c] # None => job'[c] = job[c]  BY DEF NoneLands
  <1>4. QED  BY <1>1, <1>2, <1>3 DEF CreatedBy, CancelledBy, About

\* and so does the account of every mandate.
LEMMA HistoryStays ==
    ASSUME SubsInv, NoneLands
    PROVE  Numbered' /\ \A i \in Index : HasCreator(i)' /\ HasCanceller(i)'
  <1>1. UNCHANGED <<counter, owner, status>>  BY DEF NoneLands, chainVars
  <1>2. Numbered'  BY <1>1 DEF SubsInv, Numbered
  <1>3. ASSUME NEW i \in Index  PROVE HasCreator(i)' /\ HasCanceller(i)'
    <2>1. HasCreator(i) /\ HasCanceller(i)  BY DEF SubsInv
    <2>2. \A c \in Calls : /\ CreatedBy(c, i)' <=> CreatedBy(c, i)
                           /\ CancelledBy(c, i)' <=> CancelledBy(c, i)
                           /\ CreatedBy(c, i) => job'[c] = job[c]
      BY CreatorsStay
    <2>3. HasCreator(i)'
      <3>1. CASE status[i] # "none"
        <4>1. PICK c \in Calls : /\ CreatedBy(c, i) /\ job[c].by = owner[i]
                                 /\ \A d \in Calls \ {c} : ~CreatedBy(d, i)
          BY <2>1, <3>1 DEF HasCreator
        <4>2. /\ CreatedBy(c, i)' /\ job'[c].by = owner'[i]
              /\ \A d \in Calls \ {c} : ~CreatedBy(d, i)'
          BY <1>1, <2>2, <4>1
        <4>3. QED  BY <4>2 DEF HasCreator
      <3>2. CASE status[i] = "none"  BY <1>1, <3>2 DEF HasCreator
      <3>3. QED  BY <3>1, <3>2
    <2>4. HasCanceller(i)'  BY <1>1, <2>1, <2>2 DEF HasCanceller
    <2>5. QED  BY <2>3, <2>4
  <1>4. QED  BY <1>2, <1>3

\* A call whose transaction fails has, and keeps, a rival.
Rival(c, kind) ==
    \E d \in Calls \ {c} : /\ job[d] # None /\ job[d].op \in kind
                           /\ job[d].index = job[c].index /\ tx[d] = "landed"

\* A rival stays one,
LEMMA RivalsStay ==
    ASSUME SubsInv,
           \A d \in Calls : /\ job[d] # None => job'[d] = job[d]
                            /\ tx[d] = "landed" => tx'[d] = "landed",
           NEW c \in Calls, job[c] # None, NEW kind, Rival(c, kind)
    PROVE  Rival(c, kind)'
  BY DEF Rival

\* so a call that lost goes on to have lost against somebody.
LEMMA LosersStay ==
    ASSUME SubsInv,
           \A d \in Calls : /\ job[d] # None => job'[d] = job[d]
                            /\ tx[d] = "landed" => tx'[d] = "landed"
                            /\ tx'[d] = "failed" => tx[d] = "failed"
    PROVE  LoserHasRival'
  <1> SUFFICES ASSUME NEW c \in Calls, NEW kind \in {Creates, Cancels},
                      tx'[c] = "failed", job'[c].op \in kind
               PROVE  Rival(c, kind)'
    BY DEF LoserHasRival, Rival
  <1>1. tx[c] = "failed" /\ job[c] # None /\ job'[c] = job[c]
    BY DEF SubsInv, CallInOrder, Has
  <1>2. Rival(c, kind)  BY <1>1 DEF SubsInv, LoserHasRival, Rival
  <1>3. QED  BY <1>1, <1>2, RivalsStay

-----------------------------------------------------------------------------
(* A call is made                                                          *)

\* A call that sends a transaction keeps the invariant.
LEMMA SendKeeps ==
    ASSUME SubsInv, NEW c \in Calls, NEW op, NEW by, NEW i \in Index, Send(c, op, by, i),
           \/ op \in Creates /\ by \in Subscribers /\ i <= counter
           \/ op \in Cancels /\ by \in Subscribers \cup {Admin} /\ status[i] # "none"
    PROVE  SubsInv'
  <1> DEFINE j == [op |-> op, by |-> by, index |-> i]
  <1>0. /\ job \in [Calls -> Job \cup {None}]
        /\ pc \in [Calls -> {"idle", "confirming", "syncing", "resolved", "rejected"}]
        /\ tx \in [Calls -> {"none", "sent", "landed", "failed", "dropped"}]
        /\ \A d \in Calls : CallInOrder(d) /\ CallIsAbout(d)
    BY DEF SubsInv, TypeOK
  <1>1. j \in Job /\ j # None /\ j.op = op /\ j.by = by /\ j.index = i
    BY NoneIsNoJob DEF Job
  <1>2. /\ pc[c] = "idle" /\ job[c] = None /\ tx[c] = "none" /\ request[c] = "none"
        /\ job' = [job EXCEPT ![c] = j]
        /\ pc' = [pc EXCEPT ![c] = "confirming"] /\ tx' = [tx EXCEPT ![c] = "sent"]
        /\ UNCHANGED <<counter, owner, status, schedules, request>>
    BY <1>0 DEF Send, CallInOrder, chainVars
  <1> HIDE DEF j
  <1>3. TypeOK'  BY <1>1, <1>2 DEF SubsInv, TypeOK
  <1>4. /\ job'[c] = j /\ pc'[c] = "confirming" /\ tx'[c] = "sent" /\ request'[c] = "none"
        /\ \A d \in Calls \ {c} : /\ job'[d] = job[d] /\ pc'[d] = pc[d] /\ tx'[d] = tx[d]
                                  /\ request'[d] = request[d]
    BY <1>0, <1>2
  <1>5. NoneLands  BY <1>2, <1>4 DEF NoneLands, chainVars
  <1>6. ASSUME NEW d \in Calls  PROVE CallInOrder(d)' /\ CallIsAbout(d)'
    <2>1. CASE d = c
      BY <1>1, <1>2, <1>4, <2>1 DEF CallInOrder, CallIsAbout, Has, Creates, Cancels, Repairs
    <2>2. CASE d # c
      BY <1>0, <1>2, <1>4, <2>2 DEF CallInOrder, CallIsAbout, Has
    <2>3. QED  BY <2>1, <2>2
  <1>7. LoserHasRival'
    <2>1. \A d \in Calls : /\ job[d] # None => job'[d] = job[d]
                           /\ tx[d] = "landed" => tx'[d] = "landed"
                           /\ tx'[d] = "failed" => tx[d] = "failed"
      BY <1>2, <1>4
    <2>2. QED  BY <2>1, LosersStay
  <1>8. ScheduledExists'  BY <1>2 DEF SubsInv, ScheduledExists
  <1>9. QED  BY <1>3, <1>5, <1>6, <1>7, <1>8, HistoryStays DEF SubsInv

\* So does one that goes to the keeper only.
LEMMA RepairKeeps ==
    ASSUME SubsInv, NEW c \in Calls, NEW op \in Repairs, NEW i \in Index, Repair(c, op, i),
           IF op = "cancelBillingSchedule" THEN status[i] = "cancelled" ELSE status[i] = "active"
    PROVE  SubsInv' /\ NoneLands
  <1> DEFINE j == [op |-> op, by |-> owner[i], index |-> i]
  <1>0. /\ job \in [Calls -> Job \cup {None}]
        /\ pc \in [Calls -> {"idle", "confirming", "syncing", "resolved", "rejected"}]
        /\ request \in [Calls -> {"none", "sent", "ok", "error"}]
        /\ \A d \in Calls : CallInOrder(d) /\ CallIsAbout(d)
    BY DEF SubsInv, TypeOK
  <1>1. owner[i] \in Subscribers  BY DEF SubsInv, Numbered, Repairs
  <1>2. j \in Job /\ j # None /\ j.op = op /\ j.by = owner[i] /\ j.index = i
    BY <1>1, NoneIsNoJob DEF Job
  <1>3. /\ pc[c] = "idle" /\ job[c] = None /\ tx[c] = "none" /\ request[c] = "none"
        /\ job' = [job EXCEPT ![c] = j]
        /\ pc' = [pc EXCEPT ![c] = "syncing"] /\ request' = [request EXCEPT ![c] = "sent"]
        /\ UNCHANGED <<counter, owner, status, schedules, tx>>
    BY <1>0 DEF Repair, CallInOrder, chainVars
  <1> HIDE DEF j
  <1>4. TypeOK'  BY <1>2, <1>3 DEF SubsInv, TypeOK
  <1>5. /\ job'[c] = j /\ pc'[c] = "syncing" /\ request'[c] = "sent" /\ tx'[c] = "none"
        /\ \A d \in Calls \ {c} : /\ job'[d] = job[d] /\ pc'[d] = pc[d] /\ tx'[d] = tx[d]
                                  /\ request'[d] = request[d]
    BY <1>0, <1>3
  <1>6. NoneLands  BY <1>3, <1>5 DEF NoneLands, chainVars
  <1>7. ASSUME NEW d \in Calls  PROVE CallInOrder(d)' /\ CallIsAbout(d)'
    <2>1. CASE d = c
      BY <1>2, <1>3, <1>5, <2>1 DEF CallInOrder, CallIsAbout, Has, Creates, Cancels, Repairs
    <2>2. CASE d # c
      BY <1>0, <1>3, <1>5, <2>2 DEF CallInOrder, CallIsAbout, Has
    <2>3. QED  BY <2>1, <2>2
  <1>8. LoserHasRival'
    <2>1. \A d \in Calls : /\ job[d] # None => job'[d] = job[d]
                           /\ tx[d] = "landed" => tx'[d] = "landed"
                           /\ tx'[d] = "failed" => tx[d] = "failed"
      BY <1>3, <1>5
    <2>2. QED  BY <2>1, LosersStay
  <1>9. ScheduledExists'  BY <1>3 DEF SubsInv, ScheduledExists
  <1>10. QED  BY <1>4, <1>6, <1>7, <1>8, <1>9, HistoryStays DEF SubsInv

\* So does every call that is made.
LEMMA MakeKeeps ==
    ASSUME SubsInv, NEW c \in Calls, Make(c)
    PROVE  SubsInv'
  <1>0. counter \in 0..MaxMandates /\ MaxMandates \in Nat
    BY SubscriptionsAssumption DEF SubsInv, TypeOK
  <1>1. ASSUME NEW s \in Subscribers, CreateSubscription(c, s) \/ WrapAndSubscribe(c, s)
        PROVE  SubsInv'
    <2>1. counter \in Index  BY <1>0, <1>1 DEF CreateSubscription, WrapAndSubscribe, Index
    <2>2. PICK op \in Creates : Send(c, op, s, counter)
      BY <1>1 DEF CreateSubscription, WrapAndSubscribe, SubscribeIndex, Creates
    <2>3. QED  BY <1>0, <2>1, <2>2, SendKeeps
  <1>2. ASSUME NEW i \in Index, CancelSubscription(c, i) \/ AdminCancel(c, i)
        PROVE  SubsInv'
    <2>1. status[i] # "none" /\ owner[i] \in Subscribers
      BY <1>2 DEF CancelSubscription, AdminCancel, SubsInv, Numbered
    <2>2. PICK op \in Cancels, by \in Subscribers \cup {Admin} : Send(c, op, by, i)
      BY <1>2, <2>1 DEF CancelSubscription, AdminCancel, Cancels
    <2>3. QED  BY <2>1, <2>2, SendKeeps
  <1>3. ASSUME NEW i \in Index, RegisterBillingSchedule(c, i) \/ CancelBillingSchedule(c, i)
        PROVE  SubsInv'
    <2>1. PICK op \in Repairs :
             /\ Repair(c, op, i)
             /\ IF op = "cancelBillingSchedule" THEN status[i] = "cancelled"
                                                ELSE status[i] = "active"
      BY <1>3 DEF RegisterBillingSchedule, CancelBillingSchedule, Repairs
    <2>2. QED  BY <2>1, RepairKeeps
  <1>4. QED  BY <1>1, <1>2, <1>3 DEF Make

-----------------------------------------------------------------------------
(* A call, or the keeper, goes on: nothing on the chain changes            *)

\* Steps that keep the stages of a call in order keep the invariant.
LEMMA GoesOnKeeps ==
    ASSUME SubsInv, NEW c \in Calls, pc[c] # "idle",
           UNCHANGED <<chainVars, job>>,
           NEW p \in {"confirming", "syncing", "resolved", "rejected"},
           NEW x \in {tx[c], "dropped"}, x # tx[c] => tx[c] = "sent",
           NEW r \in {"none", "sent", "ok", "error"},
           pc' = [pc EXCEPT ![c] = p], tx' = [tx EXCEPT ![c] = x],
           request' = [request EXCEPT ![c] = r],
           p = "confirming" => r = "none",
           r # "none" \/ p \in {"syncing", "resolved"} => Has(c, Repairs) \/ tx[c] = "landed",
           schedules' \subseteq Index, ScheduledExists'
    PROVE  SubsInv' /\ NoneLands
  <1>0. /\ pc \in [Calls -> {"idle", "confirming", "syncing", "resolved", "rejected"}]
        /\ tx \in [Calls -> {"none", "sent", "landed", "failed", "dropped"}]
        /\ request \in [Calls -> {"none", "sent", "ok", "error"}]
        /\ \A d \in Calls : CallInOrder(d) /\ CallIsAbout(d)
        /\ UNCHANGED <<counter, owner, status, job>>
    BY DEF SubsInv, TypeOK, chainVars
  <1>1. TypeOK'
    BY <1>0 DEF SubsInv, TypeOK
  <1>2. /\ pc'[c] = p /\ tx'[c] = x /\ request'[c] = r
        /\ \A d \in Calls \ {c} : /\ pc'[d] = pc[d] /\ tx'[d] = tx[d]
                                  /\ request'[d] = request[d]
    BY <1>0
  <1>3. NoneLands  BY <1>0, <1>2 DEF NoneLands, chainVars
  <1>4. ASSUME NEW d \in Calls  PROVE CallInOrder(d)' /\ CallIsAbout(d)'
    <2>1. CASE d = c  BY <1>0, <1>2, <2>1 DEF CallInOrder, CallIsAbout, Has
    <2>2. CASE d # c  BY <1>0, <1>2, <2>2 DEF CallInOrder, CallIsAbout, Has
    <2>3. QED  BY <2>1, <2>2
  <1>5. LoserHasRival'
    <2>1. \A d \in Calls : /\ job[d] # None => job'[d] = job[d]
                           /\ tx[d] = "landed" => tx'[d] = "landed"
                           /\ tx'[d] = "failed" => tx[d] = "failed"
      BY <1>0, <1>2
    <2>2. QED  BY <2>1, LosersStay
  <1>6. QED  BY <1>1, <1>3, <1>4, <1>5, HistoryStays DEF SubsInv

\* The steps of a call, and of the keeper, that change nothing on the chain.
GoesOn(c) == Drop(c) \/ Wait(c) \/ Sync(c) \/ Keeper(c)

\* Waiting, the sync with the keeper and the keeper itself are such steps.
LEMMA QuietKeeps ==
    ASSUME SubsInv, NEW c \in Calls, GoesOn(c)
    PROVE  SubsInv' /\ NoneLands
  <1>0. /\ pc \in [Calls -> {"idle", "confirming", "syncing", "resolved", "rejected"}]
        /\ tx \in [Calls -> {"none", "sent", "landed", "failed", "dropped"}]
        /\ request \in [Calls -> {"none", "sent", "ok", "error"}]
        /\ CallInOrder(c) /\ CallIsAbout(c) /\ schedules \subseteq Index
    BY DEF SubsInv, TypeOK
  <1>1. pc = [pc EXCEPT ![c] = pc[c]] /\ tx = [tx EXCEPT ![c] = tx[c]]
        /\ request = [request EXCEPT ![c] = request[c]]
    BY <1>0
  <1>2. pc[c] # "idle"
    BY <1>0 DEF GoesOn, Drop, Wait, Confirm, ConfirmFails, Sync, SyncKeeper, SkipKeeper, Resolve,
                SyncFails, Keeper, KeeperAccepts, KeeperRefuses, CallInOrder
  <1>3. schedules' = schedules => ScheduledExists' \/ ~UNCHANGED chainVars
    BY DEF SubsInv, ScheduledExists, chainVars
  <1>4. CASE Drop(c)
    <2>1. /\ UNCHANGED <<chainVars, job>> /\ schedules' = schedules
          /\ pc' = pc /\ request' = request /\ tx[c] = "sent"
          /\ tx' = [tx EXCEPT ![c] = "dropped"]
      BY <1>4 DEF Drop
    <2>2. pc[c] \in {"confirming", "syncing", "resolved", "rejected"}  BY <1>0, <1>2
    <2>3. request[c] \in {"none", "sent", "ok", "error"}  BY <1>0
    <2>4. QED  BY <1>0, <1>1, <1>2, <1>3, <2>1, <2>2, <2>3, GoesOnKeeps DEF CallInOrder
  <1>5. CASE Wait(c) \/ Sync(c)
    <2>1. /\ UNCHANGED <<chainVars, job>> /\ schedules' = schedules /\ tx' = tx
      BY <1>5 DEF Wait, Sync, Confirm, ConfirmFails, SyncKeeper, SkipKeeper, Resolve, SyncFails,
                  chainVars
    <2>2. PICK p \in {"confirming", "syncing", "resolved", "rejected"},
               r \in {"none", "sent", "ok", "error"} :
             /\ pc' = [pc EXCEPT ![c] = p] /\ request' = [request EXCEPT ![c] = r]
             /\ p = "confirming" => r = "none"
             /\ r # "none" \/ p \in {"syncing", "resolved"} =>
                  Has(c, Repairs) \/ tx[c] = "landed"
      <3>1. CASE Confirm(c) \/ ConfirmFails(c)
        BY <1>0, <1>1, <3>1 DEF Confirm, ConfirmFails, CallInOrder
      <3>2. CASE Sync(c)
        <4>1. pc[c] = "syncing" /\ (Has(c, Repairs) \/ tx[c] = "landed")
          BY <1>0, <3>2 DEF Sync, SyncKeeper, SkipKeeper, Resolve, SyncFails, CallInOrder
        <4>2. CASE SyncKeeper(c)  BY <1>0, <1>1, <4>1, <4>2 DEF SyncKeeper
        <4>3. CASE SkipKeeper(c)  BY <1>0, <1>1, <4>1, <4>3 DEF SkipKeeper
        <4>4. CASE Resolve(c)  BY <1>0, <1>1, <4>1, <4>4 DEF Resolve
        <4>5. CASE SyncFails(c)  BY <1>0, <1>1, <4>1, <4>5 DEF SyncFails
        <4>6. QED  BY <3>2, <4>2, <4>3, <4>4, <4>5 DEF Sync
      <3>3. QED  BY <1>5, <3>1, <3>2 DEF Wait
    <2>3. QED  BY <1>0, <1>1, <1>2, <1>3, <2>1, <2>2, GoesOnKeeps
  <1>6. CASE Keeper(c)
    <2>1. /\ request[c] = "sent" /\ UNCHANGED <<chainVars, job, pc, tx>>
          /\ pc[c] # "confirming" /\ (Has(c, Repairs) \/ tx[c] = "landed")
      BY <1>0, <1>6 DEF Keeper, KeeperAccepts, KeeperRefuses, CallInOrder
    <2>2. PICK r \in {"ok", "error"} : request' = [request EXCEPT ![c] = r]
      BY <1>6 DEF Keeper, KeeperAccepts, KeeperRefuses
    <2>3. /\ job[c] # None /\ job[c].index \in Index /\ status[job[c].index] # "none"
      <3>1. job[c] # None  BY <1>0, <1>2 DEF CallInOrder
      <3>2. job[c] \in Job  BY <3>1 DEF SubsInv, TypeOK
      <3>3. Has(c, Creates) \/ Has(c, Cancels) \/ Has(c, Repairs)
        BY <3>1, <3>2 DEF Job, Has
      <3>4. ~Has(c, Repairs) => tx[c] = "landed"  BY <2>1
      <3>5. QED  BY <1>0, <3>1, <3>2, <3>3, <3>4 DEF CallIsAbout, Has, Job
    <2>4. schedules' \subseteq Index /\ ScheduledExists'
      <3>1. schedules' \subseteq schedules \cup {job[c].index} /\ status' = status
        BY <1>6, <2>1 DEF Keeper, KeeperAccepts, KeeperRefuses, chainVars
      <3>2. QED  BY <1>0, <2>3, <3>1 DEF SubsInv, ScheduledExists
    <2>5. pc[c] \in {"confirming", "syncing", "resolved", "rejected"}  BY <1>0, <1>2
    <2>6. QED  BY <1>1, <1>2, <2>1, <2>2, <2>4, <2>5, GoesOnKeeps
  <1>7. QED  BY <1>4, <1>5, <1>6 DEF GoesOn

-----------------------------------------------------------------------------
(* A transaction is executed                                               *)

\* A transaction that fails lost against a rival that landed.
LEMMA FailKeeps ==
    ASSUME SubsInv, NEW c \in Calls, Fail(c)
    PROVE  SubsInv' /\ NoneLands
  <1>0. /\ tx \in [Calls -> {"none", "sent", "landed", "failed", "dropped"}]
        /\ \A d \in Calls : CallInOrder(d) /\ CallIsAbout(d)
        /\ tx[c] = "sent" /\ tx' = [tx EXCEPT ![c] = "failed"]
        /\ UNCHANGED <<counter, owner, status, schedules, job, pc, request>>
    BY DEF SubsInv, TypeOK, Fail, chainVars
  <1>1. TypeOK'  BY <1>0 DEF SubsInv, TypeOK
  <1>2. tx'[c] = "failed" /\ \A d \in Calls \ {c} : tx'[d] = tx[d]  BY <1>0
  <1>3. NoneLands  BY <1>0, <1>2 DEF NoneLands, chainVars
  <1>4. ASSUME NEW d \in Calls  PROVE CallInOrder(d)' /\ CallIsAbout(d)'
    <2>1. CASE d = c  BY <1>0, <1>2, <2>1 DEF CallInOrder, CallIsAbout, Has
    <2>2. CASE d # c  BY <1>0, <1>2, <2>2 DEF CallInOrder, CallIsAbout, Has
    <2>3. QED  BY <2>1, <2>2
  <1>5. LoserHasRival'
    <2>1. job[c] # None /\ job[c] \in Job  BY <1>0 DEF CallInOrder, Has, SubsInv, TypeOK
    <2> DEFINE i == job[c].index
    <2>2. i \in Index  BY <2>1 DEF Job
    <2>3. ASSUME NEW kind \in {Creates, Cancels}, job[c].op \in kind
          PROVE  Rival(c, kind)
      <3>1. CASE kind = Creates
        <4>1. job[c].op \notin Cancels  BY <2>3, <3>1 DEF Creates, Cancels
        <4>2. i # counter /\ i <= counter
          BY <1>0, <2>1, <2>3, <3>1, <4>1 DEF Fail, CallIsAbout, Has
        <4>3. counter \in Nat /\ i \in Nat  BY <2>2, SubscriptionsAssumption DEF SubsInv, TypeOK, Index
        <4>4. status[i] # "none"  BY <2>2, <4>2, <4>3 DEF SubsInv, Numbered
        <4>5. PICK d \in Calls : CreatedBy(d, i)  BY <2>2, <4>4 DEF SubsInv, HasCreator
        <4>6. QED  BY <1>0, <3>1, <4>5 DEF CreatedBy, About, Rival
      <3>2. CASE kind = Cancels
        <4>1. job[c].op \notin Creates  BY <2>3, <3>2 DEF Creates, Cancels
        <4>2. status[i] # "active" /\ status[i] # "none"
          BY <1>0, <2>1, <2>3, <3>2, <4>1 DEF Fail, CallIsAbout, Has
        <4>3. status[i] = "cancelled"  BY <2>2, <4>2 DEF SubsInv, TypeOK
        <4>4. PICK d \in Calls : CancelledBy(d, i)  BY <2>2, <4>3 DEF SubsInv, HasCanceller
        <4>5. QED  BY <1>0, <3>2, <4>4 DEF CancelledBy, About, Rival
      <3>3. QED  BY <3>1, <3>2
    <2> HIDE DEF i
    <2>4. SUFFICES ASSUME NEW d \in Calls, NEW kind \in {Creates, Cancels},
                          tx'[d] = "failed", job'[d].op \in kind
                   PROVE  Rival(d, kind)'
      BY DEF LoserHasRival, Rival
    <2>5. Rival(d, kind) /\ job[d] # None
      <3>1. CASE d = c  BY <1>0, <2>1, <2>3, <2>4, <3>1
      <3>2. CASE d # c
        <4>1. tx[d] = "failed" /\ job[d].op \in kind  BY <1>0, <1>2, <2>4, <3>2
        <4>2. QED  BY <1>0, <4>1 DEF SubsInv, LoserHasRival, Rival, CallInOrder, Has
      <3>3. QED  BY <3>1, <3>2
    <2>6. QED  BY <1>0, <1>2, <2>5, RivalsStay
  <1>6. ScheduledExists'  BY <1>0 DEF SubsInv, ScheduledExists
  <1>7. QED  BY <1>1, <1>3, <1>4, <1>5, <1>6, HistoryStays DEF SubsInv

\* A transaction that lands makes, or cancels, the mandate of its call.
LEMMA LandKeeps ==
    ASSUME SubsInv, NEW c \in Calls, Land(c)
    PROVE  SubsInv'
  <1> USE SubscriptionsAssumption
  <1>0. /\ tx \in [Calls -> {"none", "sent", "landed", "failed", "dropped"}]
        /\ owner \in [Index -> Subscribers \cup {None}]
        /\ status \in [Index -> {"none", "active", "cancelled"}]
        /\ counter \in 0..MaxMandates
        /\ \A d \in Calls : CallInOrder(d) /\ CallIsAbout(d)
        /\ tx[c] = "sent" /\ tx' = [tx EXCEPT ![c] = "landed"]
        /\ UNCHANGED <<schedules, job, pc, request>>
    BY DEF SubsInv, TypeOK, Land
  <1>1. tx'[c] = "landed" /\ \A d \in Calls \ {c} : tx'[d] = tx[d]  BY <1>0
  <1>2. job[c] # None /\ job[c] \in Job /\ Has(c, Creates \cup Cancels)
    BY <1>0 DEF CallInOrder, Has, SubsInv, TypeOK
  <1> DEFINE i == job[c].index
  <1>3. i \in Index  BY <1>2 DEF Job
  <1>4. \A d \in Calls \ {c} : \A n : /\ CreatedBy(d, n)' <=> CreatedBy(d, n)
                                      /\ CancelledBy(d, n)' <=> CancelledBy(d, n)
    BY <1>0, <1>1 DEF CreatedBy, CancelledBy, About
  <1>5. LoserHasRival'
    <2>1. \A d \in Calls : /\ job[d] # None => job'[d] = job[d]
                           /\ tx[d] = "landed" => tx'[d] = "landed"
                           /\ tx'[d] = "failed" => tx[d] = "failed"
      BY <1>0, <1>1
    <2>2. QED  BY <2>1, LosersStay
  <1>6. \A d \in Calls : CallInOrder(d)'
    <2>1. SUFFICES ASSUME NEW d \in Calls  PROVE CallInOrder(d)'  OBVIOUS
    <2>2. CASE d = c  BY <1>0, <1>1, <2>2 DEF CallInOrder, Has
    <2>3. CASE d # c  BY <1>0, <1>1, <2>3 DEF CallInOrder, Has
    <2>4. QED  BY <2>2, <2>3
  \* The call that lands had not landed.
  <1>7. \A n : ~CreatedBy(c, n) /\ ~CancelledBy(c, n)  BY <1>0 DEF CreatedBy, CancelledBy
  <1>8. CASE job[c].op \in Creates
    <2>0. job[c].op \notin Cancels  BY <1>8 DEF Creates, Cancels
    <2>1. /\ i = counter /\ counter' = counter + 1
          /\ owner' = [owner EXCEPT ![counter] = job[c].by]
          /\ status' = [status EXCEPT ![counter] = "active"]
      BY <1>8, <2>0 DEF Land, LandCreate
    <2>2. job[c].by \in Subscribers  BY <1>0, <1>2, <1>8 DEF CallIsAbout, Has
    <2>3. counter \in Index /\ counter \in Nat /\ counter + 1 \in 0..MaxMandates
      BY <1>0, <1>3, <2>1 DEF Index
    <2>4. TypeOK'  BY <1>0, <2>1, <2>2, <2>3 DEF SubsInv, TypeOK
    <2>5. status[counter] = "none"  BY <1>0, <2>3 DEF SubsInv, Numbered
    <2>6. /\ status'[counter] = "active" /\ owner'[counter] = job[c].by
          /\ \A n \in Index \ {counter} : status'[n] = status[n] /\ owner'[n] = owner[n]
      BY <1>0, <2>1, <2>3
    <2>7. Numbered'
      <3>1. SUFFICES ASSUME NEW n \in Index
                     PROVE  /\ status'[n] # "none" <=> n < counter'
                            /\ n < counter' => owner'[n] \in Subscribers
        BY DEF Numbered
      <3>2. n \in Nat  BY DEF Index
      <3>3. CASE n = counter  BY <2>1, <2>2, <2>3, <2>6, <3>2, <3>3
      <3>4. CASE n # counter
        <4>1. n < counter' <=> n < counter  BY <2>1, <2>3, <3>2, <3>4
        <4>2. QED  BY <2>6, <3>4, <4>1 DEF SubsInv, Numbered
      <3>5. QED  BY <3>3, <3>4
    <2>8. ASSUME NEW d \in Calls  PROVE CallIsAbout(d)'
      <3>1. CASE d = c
        <4>1. ~Has(c, Cancels)' /\ ~Has(c, Repairs)' /\ ~Has(c, {"cancelBillingSchedule"})'
          BY <1>0, <1>8 DEF Has, Creates, Cancels, Repairs
        <4>2. job'[c].by \in Subscribers /\ job'[c].index <= counter'
          BY <1>0, <2>1, <2>2, <2>3
        <4>3. status'[job'[c].index] # "none"  BY <1>0, <2>1, <2>6
        <4>4. QED  BY <3>1, <4>1, <4>2, <4>3 DEF CallIsAbout, Has
      <3>2. CASE d # c /\ job[d] # None
        <4>1. job[d] \in Job /\ job[d].index \in Index /\ job[d].index \in Nat
          BY <3>2 DEF SubsInv, TypeOK, Job, Index
        <4> DEFINE n == job[d].index
        <4>2. /\ status[n] # "none" => status'[n] = status[n]
          BY <2>5, <2>6, <4>1
        <4>3. n <= counter => n <= counter'  BY <2>1, <2>3, <4>1
        <4>4. CallIsAbout(d) /\ tx'[d] = tx[d] /\ job'[d] = job[d]  BY <1>0, <1>1, <3>2
        <4>5. status[n] \in {"none", "active", "cancelled"}  BY <1>0, <4>1
        <4> HIDE DEF n
        <4>6. QED  BY <4>2, <4>3, <4>4, <4>5 DEF CallIsAbout, Has, n
      <3>3. CASE d # c /\ job[d] = None  BY <1>0, <3>3 DEF CallIsAbout, Has
      <3>4. QED  BY <3>1, <3>2, <3>3
    <2>9. ASSUME NEW n \in Index  PROVE HasCreator(n)'
      <3>1. CASE n = counter
        <4>1. CreatedBy(c, n)' /\ job'[c].by = owner'[n]
          BY <1>0, <1>1, <1>2, <1>8, <2>1, <2>6, <3>1 DEF CreatedBy, About
        <4>2. ASSUME NEW d \in Calls \ {c}, CreatedBy(d, n)  PROVE FALSE
          BY <1>0, <2>5, <3>1, <4>2 DEF CreatedBy, About, CallIsAbout, Has
        <4>3. \A d \in Calls \ {c} : ~CreatedBy(d, n)'  BY <1>4, <4>2
        <4>4. QED  BY <4>1, <4>3 DEF HasCreator
      <3>2. CASE n # counter /\ status[n] # "none"
        <4>1. PICK e \in Calls : /\ CreatedBy(e, n) /\ job[e].by = owner[n]
                                 /\ \A d \in Calls \ {e} : ~CreatedBy(d, n)
          BY <3>2 DEF SubsInv, HasCreator
        <4>2. e # c  BY <1>7, <4>1
        <4>3. CreatedBy(e, n)' /\ job'[e].by = owner'[n]  BY <1>0, <1>4, <2>6, <3>2, <4>1, <4>2
        <4>4. ~CreatedBy(c, n)'  BY <1>0, <2>1, <3>2 DEF CreatedBy, About
        <4>5. \A d \in Calls \ {e} : ~CreatedBy(d, n)'  BY <1>4, <4>1, <4>4
        <4>6. QED  BY <4>3, <4>5 DEF HasCreator
      <3>3. CASE n # counter /\ status[n] = "none"  BY <2>6, <3>3 DEF HasCreator
      <3>4. QED  BY <3>1, <3>2, <3>3
    <2>10. ASSUME NEW n \in Index  PROVE HasCanceller(n)'
      <3>1. CASE n = counter  BY <2>6, <3>1 DEF HasCanceller
      <3>2. CASE n # counter /\ status[n] = "cancelled"
        <4>1. PICK e \in Calls : CancelledBy(e, n)  BY <3>2 DEF SubsInv, HasCanceller
        <4>2. CancelledBy(e, n)'  BY <1>4, <1>7, <4>1
        <4>3. QED  BY <4>2 DEF HasCanceller
      <3>3. CASE n # counter /\ status[n] # "cancelled"  BY <2>6, <3>3 DEF HasCanceller
      <3>4. QED  BY <3>1, <3>2, <3>3
    <2>11. ScheduledExists'
      BY <1>0, <2>5, <2>6 DEF SubsInv, TypeOK, ScheduledExists
    <2>12. QED
      BY <1>5, <1>6, <2>4, <2>7, <2>8, <2>9, <2>10, <2>11 DEF SubsInv
  <1>9. CASE job[c].op \in Cancels
    <2>0. job[c].op \notin Creates  BY <1>9 DEF Creates, Cancels
    <2>1. /\ status[i] = "active" /\ status' = [status EXCEPT ![i] = "cancelled"]
          /\ UNCHANGED <<counter, owner>>
      BY <1>9, <2>0 DEF Land, LandCancel
    <2>2. TypeOK'  BY <1>0, <1>3, <2>1 DEF SubsInv, TypeOK
    <2>3. status'[i] = "cancelled" /\ \A n \in Index \ {i} : status'[n] = status[n]
      BY <1>0, <1>3, <2>1
    <2>4. \A n \in Index : status'[n] # "none" <=> status[n] # "none"
      BY <2>1, <2>3
    <2>5. Numbered'  BY <2>1, <2>4 DEF SubsInv, Numbered
    <2>6. ASSUME NEW d \in Calls  PROVE CallIsAbout(d)'
      <3>1. CASE d = c
        BY <1>0, <1>1, <1>2, <1>9, <2>1, <2>3, <3>1
           DEF CallIsAbout, Has, Creates, Cancels, Repairs
      <3>2. CASE d # c /\ job[d] # None
        <4>1. job[d] \in Job /\ job[d].index \in Index
          BY <3>2 DEF SubsInv, TypeOK, Job
        <4> DEFINE n == job[d].index
        <4>2. /\ status'[n] # "none" <=> status[n] # "none"
              /\ status[n] = "cancelled" => status'[n] = "cancelled"
          BY <2>3, <2>4, <4>1
        <4>3. CallIsAbout(d) /\ tx'[d] = tx[d] /\ job'[d] = job[d]  BY <1>0, <1>1, <3>2
        <4> HIDE DEF n
        <4>4. QED  BY <2>1, <4>2, <4>3 DEF CallIsAbout, Has, n
      <3>3. CASE d # c /\ job[d] = None  BY <1>0, <3>3 DEF CallIsAbout, Has
      <3>4. QED  BY <3>1, <3>2, <3>3
    <2>7. ASSUME NEW n \in Index  PROVE HasCreator(n)'
      <3>1. ~CreatedBy(c, n)'  BY <1>0, <2>0 DEF CreatedBy
      <3>2. CASE status[n] # "none"
        <4>1. PICK e \in Calls : /\ CreatedBy(e, n) /\ job[e].by = owner[n]
                                 /\ \A d \in Calls \ {e} : ~CreatedBy(d, n)
          BY <3>2 DEF SubsInv, HasCreator
        <4>2. CreatedBy(e, n)' /\ job'[e].by = owner'[n]  BY <1>0, <1>4, <1>7, <2>1, <4>1
        <4>3. \A d \in Calls \ {e} : ~CreatedBy(d, n)'  BY <1>4, <3>1, <4>1
        <4>4. QED  BY <4>2, <4>3 DEF HasCreator
      <3>3. CASE status[n] = "none"  BY <2>4, <3>3 DEF HasCreator
      <3>4. QED  BY <3>2, <3>3
    <2>8. ASSUME NEW n \in Index  PROVE HasCanceller(n)'
      <3>1. CASE n = i
        <4>1. CancelledBy(c, n)'
          BY <1>0, <1>1, <1>2, <1>9, <3>1 DEF CancelledBy, About
        <4>2. QED  BY <4>1 DEF HasCanceller
      <3>2. CASE n # i /\ status[n] = "cancelled"
        <4>1. PICK e \in Calls : CancelledBy(e, n)  BY <3>2 DEF SubsInv, HasCanceller
        <4>2. CancelledBy(e, n)'  BY <1>4, <1>7, <4>1
        <4>3. QED  BY <4>2 DEF HasCanceller
      <3>3. CASE n # i /\ status[n] # "cancelled"  BY <2>3, <3>3 DEF HasCanceller
      <3>4. QED  BY <3>1, <3>2, <3>3
    <2>9. ScheduledExists'
      BY <1>0, <2>4 DEF SubsInv, TypeOK, ScheduledExists
    <2>10. QED  BY <1>5, <1>6, <2>2, <2>5, <2>6, <2>7, <2>8, <2>9 DEF SubsInv
  <1>10. QED  BY <1>2, <1>8, <1>9 DEF Has

-----------------------------------------------------------------------------
(* The theorems, with any faults                                           *)

\* The invariant holds at first.
LEMMA SubsInitially == Init => SubsInv
  <1> SUFFICES ASSUME Init  PROVE SubsInv  OBVIOUS
  <1>1. TypeOK  BY SubscriptionsAssumption DEF Init, TypeOK
  <1>2. \A c \in Calls : CallInOrder(c) /\ CallIsAbout(c)
    BY DEF Init, CallInOrder, CallIsAbout, Has
  <1>3. \A i \in Index : status[i] = "none" /\ ~(i < counter)
    BY SubscriptionsAssumption DEF Init, Index
  <1>4. Numbered /\ \A i \in Index : HasCreator(i) /\ HasCanceller(i)
    BY <1>3 DEF Numbered, HasCreator, HasCanceller
  <1>5. LoserHasRival /\ ScheduledExists  BY DEF Init, LoserHasRival, ScheduledExists
  <1>6. QED  BY <1>1, <1>2, <1>4, <1>5 DEF SubsInv

\* Nothing happens.
LEMMA SubsStutter ==
    ASSUME SubsInv, UNCHANGED vars
    PROVE  SubsInv'
  <1> USE DEF vars, chainVars
  <1>1. TypeOK'  BY DEF SubsInv, TypeOK
  <1>2. \A c \in Calls : CallInOrder(c)' /\ CallIsAbout(c)'
    BY DEF SubsInv, CallInOrder, CallIsAbout, Has
  <1>3. NoneLands  BY DEF NoneLands
  <1>4. LoserHasRival'  BY LosersStay
  <1>5. ScheduledExists'  BY DEF SubsInv, ScheduledExists
  <1>6. QED  BY <1>1, <1>2, <1>3, <1>4, <1>5, HistoryStays DEF SubsInv

\* Every step keeps it.
LEMMA SubsStep ==
    ASSUME SubsInv, [Next]_vars
    PROVE  SubsInv'
  <1>1. ASSUME NEW c \in Calls, Make(c)  PROVE SubsInv'  BY <1>1, MakeKeeps
  <1>2. ASSUME NEW c \in Calls, Execute(c)  PROVE SubsInv'
    BY <1>2, LandKeeps, FailKeeps DEF Execute
  <1>3. ASSUME NEW c \in Calls, GoesOn(c)  PROVE SubsInv'  BY <1>3, QuietKeeps
  <1>4. QED  BY <1>1, <1>2, <1>3, SubsStutter DEF Next, GoesOn

\* The invariant holds in every state that can be reached.
THEOREM SubsInvariance == Spec => []SubsInv
  BY SubsInitially, SubsStep, PTL DEF Spec

\* Every variable keeps its type.
THEOREM SubsTypeCorrect == Spec => []TypeOK
  <1>1. SubsInv => TypeOK  BY DEF SubsInv
  <1>2. QED  BY <1>1, SubsInvariance, PTL

\* Whatever races and faults there are, each mandate was created by one call,
\* at the address that call goes on to report.
THEOREM MandatesHaveOneCall == Spec => []OneMandatePerCall
  <1>1. SubsInv => OneMandatePerCall
    <2> SUFFICES ASSUME SubsInv  PROVE OneMandatePerCall  OBVIOUS
    <2>1. \A i \in Index : HasCreator(i)  BY DEF SubsInv
    <2>2. ASSUME NEW c \in Calls, NEW i \in Index, CreatedBy(c, i)  PROVE status[i] # "none"
      BY <2>2 DEF SubsInv, CreatedBy, About, CallIsAbout, Has
    <2>3. QED  BY <2>1, <2>2 DEF OneMandatePerCall, HasCreator
  <1>2. QED  BY <1>1, SubsInvariance, PTL

\* A call fails on the chain only because another one of its kind got there first.
THEOREM LosersHaveRivals == Spec => []LoserHasRival
  <1>1. SubsInv => LoserHasRival  BY DEF SubsInv
  <1>2. QED  BY <1>1, SubsInvariance, PTL

\* The keeper is never told of a mandate before it exists.
THEOREM SchedulesExist == Spec => []ScheduledExists
  <1>1. SubsInv => ScheduledExists  BY DEF SubsInv
  <1>2. QED  BY <1>1, SubsInvariance, PTL

-----------------------------------------------------------------------------
(* The keeper's schedules, when the keeper is reliable                     *)

\* A step that neither makes a repair nor lets a call begin to tell the keeper,
\* nor lets the keeper do what it is told.
LEMMA NothingPosted ==
    ASSUME KeeperInv, schedules' = schedules,
           \A d \in Calls : /\ Has(d, {"registerBillingSchedule"})' =>
                                 Has(d, {"registerBillingSchedule"}) /\ job'[d] = job[d]
                            /\ pc[d] = "rejected" => pc'[d] = "rejected",
           \A d \in Calls, n \in Index :
                            /\ CreatedBy(d, n) => CreatedBy(d, n)'
                            /\ Posts(d, n)' => Posts(d, n)
                            /\ Posted(d, n)' <=> Posted(d, n)
                            /\ Deleted(d, n)' <=> Deleted(d, n),
           \A d \in Calls : KeeperAnswers(d)',
           \A d \in Calls : Has(d, {"registerBillingSchedule"}) => job[d].index \in Index
    PROVE  KeeperInv'
  <1>1. PostedOnce'  BY DEF KeeperInv, PostedOnce
  <1>2. RepairsRejected'
    <2>1. SUFFICES ASSUME NEW d \in Calls, Has(d, {"registerBillingSchedule"})'
                   PROVE  (\E c \in Calls : CreatedBy(c, job[d].index) /\ pc[c] = "rejected")'
      BY DEF RepairsRejected
    <2>2. PICK c \in Calls : CreatedBy(c, job[d].index) /\ pc[c] = "rejected"
      BY <2>1 DEF KeeperInv, RepairsRejected
    <2>3. job'[d] = job[d] /\ job[d].index \in Index  BY <2>1
    <2>4. PICK n \in Index : n = job[d].index  BY <2>3
    <2>5. CreatedBy(c, n)' /\ pc'[c] = "rejected"  BY <2>2, <2>4
    <2>6. job'[d].index = n  BY <2>3, <2>4
    <2>7. (CreatedBy(c, job[d].index) /\ pc[c] = "rejected")'  BY <2>5, <2>6 DEF CreatedBy, About
    <2>8. QED  BY <2>7
  <1>3. ASSUME NEW n \in Index  PROVE ScheduleHasCause(n)'
    <2>1. \A d \in Calls : /\ Posted(d, n)' <=> Posted(d, n)
                           /\ Deleted(d, n)' <=> Deleted(d, n)
      OBVIOUS
    <2>2. ScheduleHasCause(n)  BY DEF KeeperInv
    <2>3. QED  BY <2>1, <2>2 DEF ScheduleHasCause
  <1>4. QED  BY <1>1, <1>2, <1>3 DEF KeeperInv

\* The call that created a mandate is the only one.
LEMMA OneCreator ==
    ASSUME SubsInv, NEW i \in Index, NEW c \in Calls, NEW d \in Calls,
           CreatedBy(c, i), CreatedBy(d, i)
    PROVE  c = d
  <1>1. status[i] # "none"  BY DEF SubsInv, CreatedBy, About, CallIsAbout, Has
  <1>2. PICK e \in Calls : \A f \in Calls \ {e} : ~CreatedBy(f, i)
    BY <1>1 DEF SubsInv, HasCreator
  <1>3. QED  BY <1>2

\* Who tells the keeper to bill is the call that created the mandate, or the
\* repair of it.
LEMMA PostersAre ==
    ASSUME SubsInv, NEW i \in Index, NEW c \in Calls, Posts(c, i)
    PROVE  CreatedBy(c, i) \/ Has(c, {"registerBillingSchedule"})
  BY DEF SubsInv, Posts, About, Registers, CallInOrder, CreatedBy, Has, Repairs, Creates

\* A call is about a mandate that can be.
LEMMA IndexType ==
    ASSUME SubsInv, NEW d \in Calls, job[d] # None
    PROVE  job[d].index \in Index
  BY DEF SubsInv, TypeOK, Job

\* Transactions are executed, or lost.
LEMMA ExecuteKeepsKeeper ==
    ASSUME SubsInv, KeeperInv, NEW c \in Calls, Land(c) \/ Fail(c) \/ Drop(c)
    PROVE  KeeperInv'
  <1>1. /\ UNCHANGED <<schedules, job, pc, request>>
        /\ tx[c] = "sent" /\ \E x \in {"landed", "failed", "dropped"} : tx' = [tx EXCEPT ![c] = x]
        /\ tx \in [Calls -> {"none", "sent", "landed", "failed", "dropped"}]
    BY DEF Land, Fail, Drop, SubsInv, TypeOK
  <1>2. \A d \in Calls : tx[d] = "landed" => tx'[d] = "landed"  BY <1>1
  <1>3. ASSUME NEW d \in Calls, NEW n \in Index
        PROVE  /\ CreatedBy(d, n) => CreatedBy(d, n)'
               /\ Posts(d, n)' => Posts(d, n)
               /\ Posted(d, n)' <=> Posted(d, n)
               /\ Deleted(d, n)' <=> Deleted(d, n)
    BY <1>1, <1>2 DEF CreatedBy, Posts, Posted, Deleted, About, Registers
  <1>4. \A d \in Calls : KeeperAnswers(d)'  BY <1>1 DEF KeeperInv, KeeperAnswers, Has
  <1>5. \A d \in Calls : Has(d, {"registerBillingSchedule"}) => job[d].index \in Index
    BY IndexType DEF Has
  <1>6. QED  BY <1>1, <1>3, <1>4, <1>5, NothingPosted DEF Has

\* A lifecycle call is made.
LEMMA SendKeepsKeeper ==
    ASSUME SubsInv, KeeperInv, NEW c \in Calls, NEW op \in Creates \cup Cancels, NEW by, NEW i,
           Send(c, op, by, i)
    PROVE  KeeperInv'
  <1> DEFINE j == [op |-> op, by |-> by, index |-> i]
  <1>1. /\ pc[c] = "idle" /\ job[c] = None /\ tx[c] = "none" /\ request[c] = "none"
        /\ job' = [job EXCEPT ![c] = j] /\ pc' = [pc EXCEPT ![c] = "confirming"]
        /\ tx' = [tx EXCEPT ![c] = "sent"] /\ UNCHANGED <<schedules, request>>
        /\ j.op \in Creates \cup Cancels
    BY DEF Send, SubsInv, CallInOrder
  <1> HIDE DEF j
  <1>2. /\ job'[c] = j /\ pc'[c] = "confirming" /\ tx'[c] = "sent" /\ request'[c] = "none"
        /\ \A d \in Calls \ {c} : /\ job'[d] = job[d] /\ pc'[d] = pc[d] /\ tx'[d] = tx[d]
                                  /\ request'[d] = request[d]
    BY <1>1 DEF SubsInv, TypeOK
  <1>3. ASSUME NEW d \in Calls, NEW n \in Index
        PROVE  /\ CreatedBy(d, n) => CreatedBy(d, n)'
               /\ Posts(d, n)' => Posts(d, n)
               /\ Posted(d, n)' <=> Posted(d, n)
               /\ Deleted(d, n)' <=> Deleted(d, n)
    <2>1. CASE d = c
      BY <1>1, <1>2, <2>1 DEF CreatedBy, Posts, Posted, Deleted, About, Registers
    <2>2. CASE d # c
      BY <1>1, <1>2, <2>2 DEF CreatedBy, Posts, Posted, Deleted, About, Registers
    <2>3. QED  BY <2>1, <2>2
  <1>4. ASSUME NEW d \in Calls  PROVE KeeperAnswers(d)'
    <2>1. CASE d = c
      BY <1>1, <1>2, <2>1 DEF KeeperAnswers, Has, Creates, Cancels
    <2>2. CASE d # c  BY <1>2, <2>2 DEF KeeperInv, KeeperAnswers, Has
    <2>3. QED  BY <2>1, <2>2
  <1>5. \A d \in Calls : Has(d, {"registerBillingSchedule"}) => job[d].index \in Index
    BY IndexType DEF Has
  <1>6. ASSUME NEW d \in Calls
        PROVE  /\ Has(d, {"registerBillingSchedule"})' =>
                     Has(d, {"registerBillingSchedule"}) /\ job'[d] = job[d]
               /\ pc[d] = "rejected" => pc'[d] = "rejected"
    <2>1. CASE d = c  BY <1>1, <1>2, <2>1 DEF Has, Creates, Cancels
    <2>2. CASE d # c  BY <1>2, <2>2 DEF Has
    <2>3. QED  BY <2>1, <2>2
  <1>7. QED  BY <1>1, <1>3, <1>4, <1>5, <1>6, NothingPosted

\* What the keeper has been told stays as it is.
LEMMA CausesStay ==
    ASSUME KeeperInv, schedules' = schedules, NEW n \in Index,
           \A d \in Calls : /\ Posted(d, n)' <=> Posted(d, n)
                            /\ Deleted(d, n)' <=> Deleted(d, n)
    PROVE  ScheduleHasCause(n)'
  <1>1. ScheduleHasCause(n)  BY DEF KeeperInv
  <1>2. QED  BY <1>1 DEF ScheduleHasCause

\* A call that creates a mandate begins to tell the keeper: nobody else does.
LEMMA ConfirmKeepsKeeper ==
    ASSUME SubsInv, KeeperInv, NEW c \in Calls, Confirm(c)
    PROVE  KeeperInv'
  <1>1. /\ pc[c] = "confirming" /\ tx[c] = "landed" /\ request[c] = "none"
        /\ pc' = [pc EXCEPT ![c] = "syncing"]
        /\ UNCHANGED <<schedules, job, tx, request>>
    BY DEF Confirm, SubsInv, CallInOrder
  <1>2. pc'[c] = "syncing" /\ \A d \in Calls \ {c} : pc'[d] = pc[d]
    BY <1>1 DEF SubsInv, TypeOK
  <1>3. job[c] # None /\ job[c].op \in Creates \cup Cancels
    BY <1>1 DEF SubsInv, CallInOrder, Has
  <1>4. \A d \in Calls \ {c} : \A n : Posts(d, n)' <=> Posts(d, n)
    BY <1>1, <1>2 DEF Posts, About, Registers
  <1>5. ASSUME NEW n \in Index, NEW d \in Calls \ {c}, Posts(c, n)', Posts(d, n)'  PROVE FALSE
    <2>1. CreatedBy(c, n)
      BY <1>1, <1>3, <1>5 DEF Posts, About, Registers, CreatedBy, Creates, Cancels
    <2>2. Posts(d, n)  BY <1>4, <1>5
    <2>3. CASE CreatedBy(d, n)  BY <2>1, <2>3, OneCreator
    <2>4. CASE Has(d, {"registerBillingSchedule"})
      <3>1. job[d].index = n  BY <2>2 DEF Posts, About
      <3>2. PICK e \in Calls : CreatedBy(e, n) /\ pc[e] = "rejected"
        BY <2>4, <3>1 DEF KeeperInv, RepairsRejected
      <3>3. e = c  BY <2>1, <3>2, OneCreator
      <3>4. QED  BY <1>1, <3>2, <3>3
    <2>5. QED  BY <2>2, <2>3, <2>4, PostersAre
  <1>6. PostedOnce'
    <2>1. ASSUME NEW n \in Index, NEW d \in Calls, NEW e \in Calls, Posts(d, n)', Posts(e, n)'
          PROVE  d = e
      <3>1. CASE d # c /\ e # c
        <4>1. Posts(d, n) /\ Posts(e, n)  BY <1>4, <2>1, <3>1
        <4>2. QED  BY <4>1 DEF KeeperInv, PostedOnce
      <3>2. CASE d = c \/ e = c  BY <1>5, <2>1, <3>2
      <3>3. QED  BY <3>1, <3>2
    <2>2. QED  BY <2>1 DEF PostedOnce
  <1>7. RepairsRejected'
    <2>1. \A d \in Calls : pc[d] = "rejected" => pc'[d] = "rejected"  BY <1>1, <1>2
    <2>2. QED  BY <1>1, <2>1 DEF KeeperInv, RepairsRejected, Has, CreatedBy, About
  <1>8. ASSUME NEW d \in Calls  PROVE KeeperAnswers(d)'
    <2>1. CASE d = c
      BY <1>1, <1>2, <1>3, <2>1 DEF KeeperAnswers, Has, Creates, Cancels
    <2>2. CASE d # c  BY <1>1, <1>2, <2>2 DEF KeeperInv, KeeperAnswers, Has
    <2>3. QED  BY <2>1, <2>2
  <1>9. ASSUME NEW n \in Index  PROVE ScheduleHasCause(n)'
    <2>1. \A d \in Calls : /\ Posted(d, n)' <=> Posted(d, n)
                           /\ Deleted(d, n)' <=> Deleted(d, n)
      <3>1. \A d \in Calls : Deleted(d, n)' <=> Deleted(d, n)
        BY <1>1 DEF Deleted, About, Registers
      <3>2. ASSUME NEW d \in Calls  PROVE Posted(d, n)' <=> Posted(d, n)
        <4>1. CASE d = c  BY <1>1, <4>1 DEF Posted
        <4>2. CASE d # c  BY <1>1, <1>4, <4>2 DEF Posted
        <4>3. QED  BY <4>1, <4>2
      <3>3. QED  BY <3>1, <3>2
    <2>2. QED  BY <1>1, <2>1, CausesStay
  <1>10. QED  BY <1>6, <1>7, <1>8, <1>9 DEF KeeperInv

\* A repair is made: of a call that has given up, and never twice at once.
LEMMA RepairKeepsKeeper ==
    ASSUME SubsInv, KeeperInv, NEW c \in Calls, NEW i \in Index,
           RegisterBillingSchedule(c, i) \/ CancelBillingSchedule(c, i)
    PROVE  KeeperInv'
  <1>0. PICK op \in Repairs : /\ Repair(c, op, i)
                              /\ op = "registerBillingSchedule" => LeftBehind(i, Creates)
    BY DEF RegisterBillingSchedule, CancelBillingSchedule, Repairs
  <1> DEFINE j == [op |-> op, by |-> owner[i], index |-> i]
  <1>1. /\ pc[c] = "idle" /\ job[c] = None /\ tx[c] = "none" /\ request[c] = "none"
        /\ job' = [job EXCEPT ![c] = j]
        /\ pc' = [pc EXCEPT ![c] = "syncing"] /\ request' = [request EXCEPT ![c] = "sent"]
        /\ UNCHANGED <<schedules, tx>>
    BY <1>0 DEF Repair, SubsInv, CallInOrder
  <1>2. j.op = op /\ j.index = i  OBVIOUS
  <1> HIDE DEF j
  <1>3. /\ job'[c] = j /\ pc'[c] = "syncing" /\ request'[c] = "sent"
        /\ \A d \in Calls \ {c} : /\ job'[d] = job[d] /\ pc'[d] = pc[d]
                                  /\ request'[d] = request[d]
    BY <1>1 DEF SubsInv, TypeOK
  <1>4. ASSUME NEW d \in Calls \ {c}, NEW n
        PROVE  /\ Posts(d, n)' <=> Posts(d, n)
               /\ Deleted(d, n)' <=> Deleted(d, n)
               /\ CreatedBy(d, n)' <=> CreatedBy(d, n)
    BY <1>1, <1>3 DEF Posts, Deleted, CreatedBy, About, Registers
  <1>5. ASSUME NEW n \in Index, NEW d \in Calls \ {c}, Posts(c, n)', Posts(d, n)'  PROVE FALSE
    <2>1. n = i /\ op = "registerBillingSchedule"
      BY <1>2, <1>3, <1>5 DEF Posts, About, Registers, Repairs, Creates
    <2>2. PICK e \in Calls : CreatedBy(e, i) /\ pc[e] = "rejected"
      BY <1>0, <2>1 DEF LeftBehind, CreatedBy
    <2>3. Posts(d, i)  BY <1>4, <1>5, <2>1
    <2>4. CASE CreatedBy(d, i)
      <3>1. d = e  BY <2>2, <2>4, OneCreator
      <3>2. QED  BY <2>2, <2>3, <3>1 DEF Posts
    <2>5. CASE Has(d, {"registerBillingSchedule"})
      <3>1. pc[d] = "rejected"  BY <1>0, <2>1, <2>3, <2>5 DEF Repair, Posts, Has
      <3>2. QED  BY <2>3, <3>1 DEF Posts
    <2>6. QED  BY <2>3, <2>4, <2>5, PostersAre
  <1>6. PostedOnce'
    <2>1. ASSUME NEW n \in Index, NEW d \in Calls, NEW e \in Calls, Posts(d, n)', Posts(e, n)'
          PROVE  d = e
      <3>1. CASE d # c /\ e # c
        <4>1. Posts(d, n) /\ Posts(e, n)  BY <1>4, <2>1, <3>1
        <4>2. QED  BY <4>1 DEF KeeperInv, PostedOnce
      <3>2. CASE d = c \/ e = c  BY <1>5, <2>1, <3>2
      <3>3. QED  BY <3>1, <3>2
    <2>2. QED  BY <2>1 DEF PostedOnce
  <1>7. RepairsRejected'
    <2>1. SUFFICES ASSUME NEW d \in Calls, Has(d, {"registerBillingSchedule"})'
                   PROVE  (\E e \in Calls : CreatedBy(e, job[d].index) /\ pc[e] = "rejected")'
      BY DEF RepairsRejected
    <2> DEFINE n == job'[d].index
    <2>2. PICK e \in Calls : CreatedBy(e, n) /\ pc[e] = "rejected"
      <3>1. CASE d = c
        <4>1. n = i /\ op = "registerBillingSchedule"  BY <1>2, <1>3, <2>1, <3>1 DEF Has
        <4>2. QED  BY <1>0, <4>1 DEF LeftBehind, CreatedBy
      <3>2. CASE d # c
        <4>1. n = job[d].index /\ Has(d, {"registerBillingSchedule"})
          BY <1>3, <2>1, <3>2 DEF Has
        <4>2. QED  BY <4>1 DEF KeeperInv, RepairsRejected
      <3>3. QED  BY <3>1, <3>2
    <2>3. e # c  BY <1>1, <2>2
    <2>4. pc'[e] = "rejected" /\ job'[e] = job[e] /\ tx'[e] = tx[e]  BY <1>1, <1>3, <2>2, <2>3
    <2>5. (CreatedBy(e, job[d].index) /\ pc[e] = "rejected")'
      BY <2>2, <2>4 DEF CreatedBy, About
    <2>6. QED  BY <2>5
  <1>8. ASSUME NEW d \in Calls  PROVE KeeperAnswers(d)'
    <2>1. CASE d = c
      BY <1>3, <2>1 DEF KeeperAnswers, Has
    <2>2. CASE d # c  BY <1>3, <2>2 DEF KeeperInv, KeeperAnswers, Has
    <2>3. QED  BY <2>1, <2>2
  <1>9. ASSUME NEW n \in Index  PROVE ScheduleHasCause(n)'
    <2>1. ASSUME NEW d \in Calls
          PROVE  /\ Posted(d, n)' <=> Posted(d, n)
                 /\ Deleted(d, n)' <=> Deleted(d, n)
      <3>1. CASE d = c  BY <1>1, <1>3, <3>1 DEF Posted, Deleted
      <3>2. CASE d # c  BY <1>3, <1>4, <3>2 DEF Posted
      <3>3. QED  BY <3>1, <3>2
    <2>2. QED  BY <1>1, <2>1, CausesStay
  <1>10. QED  BY <1>6, <1>7, <1>8, <1>9 DEF KeeperInv

\* A call goes on, or ends; or the keeper refuses.
LEMMA CallKeepsKeeper ==
    ASSUME ReliableKeeper, SubsInv, KeeperInv, NEW c \in Calls,
           ConfirmFails(c) \/ Sync(c) \/ KeeperRefuses(c)
    PROVE  KeeperInv'
  <1>0. /\ ~SkipKeeper(c) /\ UNCHANGED <<schedules, job, tx>>
        /\ \A d \in Calls : KeeperAnswers(d) /\ CallInOrder(d)
        /\ pc \in [Calls -> {"idle", "confirming", "syncing", "resolved", "rejected"}]
        /\ request \in [Calls -> {"none", "sent", "ok", "error"}]
    BY DEF ReliableKeeper, SkipKeeper, ConfirmFails, Sync, SyncKeeper, Resolve, SyncFails,
           KeeperRefuses, SubsInv, KeeperInv, TypeOK
  <1>1. \A d \in Calls \ {c} : pc'[d] = pc[d] /\ request'[d] = request[d]
    BY <1>0 DEF ConfirmFails, Sync, SyncKeeper, Resolve, SyncFails, KeeperRefuses
  \* Where the call was, where it is now.
  <1>2. \/ /\ pc[c] = "confirming" /\ pc'[c] = "rejected"
           /\ request[c] = "none" /\ request'[c] = "none"
        \/ /\ pc[c] = "syncing" /\ pc'[c] = "syncing"
           /\ request[c] = "none" /\ request'[c] = "sent"
        \/ /\ pc[c] = "syncing" /\ pc'[c] = "resolved"
           /\ request[c] = "ok" /\ request'[c] = "ok"
        \/ /\ pc[c] = "syncing" /\ pc'[c] = "rejected"
           /\ request[c] = "error" /\ request'[c] = "error"
        \/ /\ pc[c] = "syncing" /\ pc'[c] = "syncing" /\ ~Registers(c)
           /\ request[c] = "sent" /\ request'[c] = "error"
    <2>1. CASE ConfirmFails(c)  BY <1>0, <2>1 DEF ConfirmFails, CallInOrder
    <2>2. CASE SyncKeeper(c)  BY <1>0, <2>2 DEF SyncKeeper
    <2>3. CASE Resolve(c)  BY <1>0, <2>3 DEF Resolve
    <2>4. CASE SyncFails(c)  BY <1>0, <2>4 DEF SyncFails, ReliableKeeper
    <2>5. CASE KeeperRefuses(c)
      BY <1>0, <2>5 DEF KeeperRefuses, ReliableKeeper, KeeperAnswers
    <2>6. QED  BY <1>0, <2>1, <2>2, <2>3, <2>4, <2>5 DEF Sync
  <1>3. job[c] # None  BY <1>0, <1>2 DEF CallInOrder
  <1>4. Registers(c) <=> Has(c, Creates \cup {"registerBillingSchedule"})
    BY <1>3 DEF Registers, Has
  <1>5. ASSUME NEW d \in Calls, NEW n \in Index
        PROVE  /\ CreatedBy(d, n) => CreatedBy(d, n)'
               /\ Posts(d, n)' => Posts(d, n)
               /\ Posted(d, n)' <=> Posted(d, n)
               /\ Deleted(d, n)' <=> Deleted(d, n)
    <2>1. CASE d = c
      <3>1. /\ About(c, n)' <=> About(c, n)
            /\ Registers(c)' <=> Registers(c)
        BY <1>0 DEF About, Registers
      <3>2. QED  BY <1>0, <1>2, <2>1, <3>1 DEF CreatedBy, Posts, Posted, Deleted
    <2>2. CASE d # c
      BY <1>0, <1>1, <2>2 DEF CreatedBy, Posts, Posted, Deleted, About, Registers
    <2>3. QED  BY <2>1, <2>2
  <1>6. ASSUME NEW d \in Calls  PROVE KeeperAnswers(d)'
    <2>1. CASE d = c  BY <1>0, <1>2, <1>4, <2>1 DEF KeeperAnswers, Has
    <2>2. CASE d # c  BY <1>0, <1>1, <2>2 DEF KeeperAnswers, Has
    <2>3. QED  BY <2>1, <2>2
  <1>7. \A d \in Calls : Has(d, {"registerBillingSchedule"}) => job[d].index \in Index
    BY IndexType DEF Has
  <1>8. ASSUME NEW d \in Calls
        PROVE  /\ Has(d, {"registerBillingSchedule"})' =>
                     Has(d, {"registerBillingSchedule"}) /\ job'[d] = job[d]
               /\ pc[d] = "rejected" => pc'[d] = "rejected"
    BY <1>0, <1>1, <1>2 DEF Has
  <1>9. QED  BY <1>0, <1>5, <1>6, <1>7, <1>8, NothingPosted

\* The keeper does what it is told: it is told to bill once, and to forget only
\* what it has.
LEMMA AcceptKeepsKeeper ==
    ASSUME ReliableKeeper, SubsInv, KeeperInv, NEW c \in Calls, KeeperAccepts(c)
    PROVE  KeeperInv'
  <1>0. /\ request[c] = "sent" /\ request' = [request EXCEPT ![c] = "ok"]
        /\ UNCHANGED <<job, pc, tx>>
        /\ \A d \in Calls : KeeperAnswers(d) /\ CallInOrder(d)
        /\ Registers(c) \/ job[c].index \in schedules
        /\ schedules' = IF Registers(c) THEN schedules \cup {job[c].index}
                                        ELSE schedules \ {job[c].index}
    BY DEF KeeperAccepts, ReliableKeeper, KeeperInv, SubsInv
  <1>1. request'[c] = "ok" /\ \A d \in Calls \ {c} : request'[d] = request[d]
    BY <1>0 DEF SubsInv, TypeOK
  <1>2. pc[c] = "syncing" /\ job[c] # None  BY <1>0 DEF KeeperAnswers, CallInOrder
  <1>3. PICK i \in Index : About(c, i)  BY <1>2, IndexType DEF About
  <1>4. \A d \in Calls : \A n : /\ Posts(d, n)' <=> Posts(d, n)
                                /\ CreatedBy(d, n)' <=> CreatedBy(d, n)
    BY <1>0 DEF Posts, CreatedBy, About, Registers
  <1>5. \A d \in Calls \ {c} : \A n : /\ Posted(d, n)' <=> Posted(d, n)
                                      /\ Deleted(d, n)' <=> Deleted(d, n)
    BY <1>0, <1>1 DEF Posts, Posted, Deleted, About, Registers
  <1>6. \A n : ~Posted(c, n) /\ ~Deleted(c, n)  BY <1>0 DEF Posted, Deleted
  <1>7. PostedOnce'  BY <1>4 DEF KeeperInv, PostedOnce
  <1>8. RepairsRejected'
    BY <1>0 DEF KeeperInv, RepairsRejected, Has, CreatedBy, About
  <1>9. ASSUME NEW d \in Calls  PROVE KeeperAnswers(d)'
    <2>1. CASE d = c  BY <1>0, <1>1, <1>2, <2>1 DEF KeeperAnswers, Has
    <2>2. CASE d # c  BY <1>0, <1>1, <2>2 DEF KeeperAnswers, Has
    <2>3. QED  BY <2>1, <2>2
  <1>10. ASSUME NEW n \in Index, n # i  PROVE ScheduleHasCause(n)'
    <2>1. ~About(c, n) /\ ~About(c, n)'  BY <1>0, <1>3, <1>10 DEF About
    <2>2. \A d \in Calls : /\ Posted(d, n)' <=> Posted(d, n)
                           /\ Deleted(d, n)' <=> Deleted(d, n)
      <3>1. ~Posted(c, n)' /\ ~Deleted(c, n)'  BY <2>1 DEF Posted, Posts, Deleted
      <3>2. QED  BY <1>5, <1>6, <3>1
    <2>3. n \in schedules' <=> n \in schedules  BY <1>0, <1>3, <1>10 DEF About
    <2>4. ScheduleHasCause(n)  BY DEF KeeperInv
    <2>5. QED  BY <2>2, <2>3, <2>4 DEF ScheduleHasCause
  <1>11. ScheduleHasCause(i)'
    <2>0. ScheduleHasCause(i)  BY DEF KeeperInv
    <2>1. \A d \in Calls : \A n : About(d, n)' <=> About(d, n)  BY <1>0 DEF About
    <2>2. \A d \in Calls : Registers(d)' <=> Registers(d)  BY <1>0 DEF Registers
    <2>3. CASE Registers(c)
      <3>1. Posts(c, i)  BY <1>2, <1>3, <2>3 DEF Posts
      <3>2. Posted(c, i)'  BY <1>1, <1>4, <3>1 DEF Posted
      <3>3. i \in schedules'  BY <1>0, <1>3, <2>3 DEF About
      <3>4. ASSUME NEW d \in Calls, Deleted(d, i)'  PROVE FALSE
        <4>1. d # c  BY <2>2, <2>3, <3>4 DEF Deleted
        <4>2. Deleted(d, i)  BY <1>5, <3>4, <4>1
        <4>3. PICK e \in Calls : Posted(e, i)  BY <2>0, <4>2 DEF ScheduleHasCause
        <4>4. e = c  BY <3>1, <4>3 DEF KeeperInv, PostedOnce, Posted
        <4>5. QED  BY <1>6, <4>3, <4>4
      <3>5. QED  BY <3>2, <3>3, <3>4 DEF ScheduleHasCause
    <2>4. CASE ~Registers(c)
      <3>1. i \in schedules /\ i \notin schedules'  BY <1>0, <1>3, <2>4 DEF About
      <3>2. PICK e \in Calls : Posted(e, i)  BY <2>0, <3>1 DEF ScheduleHasCause
      <3>3. e # c  BY <1>6, <3>2
      <3>4. Posted(e, i)'  BY <1>5, <3>2, <3>3
      <3>5. Deleted(c, i)'  BY <1>1, <1>3, <2>1, <2>2, <2>4 DEF Deleted
      <3>6. QED  BY <3>1, <3>4, <3>5 DEF ScheduleHasCause
    <2>5. QED  BY <2>3, <2>4
  <1>12. QED  BY <1>7, <1>8, <1>9, <1>10, <1>11 DEF KeeperInv

\* Every step keeps what is known of the keeper.
LEMMA KeeperStep ==
    ASSUME ReliableKeeper, SubsInv, KeeperInv, [Next]_vars
    PROVE  KeeperInv'
  <1>1. ASSUME NEW c \in Calls, Make(c)  PROVE KeeperInv'
    <2>1. ASSUME NEW s \in Subscribers, CreateSubscription(c, s) \/ WrapAndSubscribe(c, s)
          PROVE  KeeperInv'
      <3>1. PICK op \in Creates \cup Cancels : Send(c, op, s, counter)
        BY <2>1 DEF CreateSubscription, WrapAndSubscribe, SubscribeIndex, Creates
      <3>2. QED  BY <3>1, SendKeepsKeeper
    <2>2. ASSUME NEW i \in Index, CancelSubscription(c, i) \/ AdminCancel(c, i)
          PROVE  KeeperInv'
      <3>1. \E op \in Creates \cup Cancels, by \in {owner[i], Admin} : Send(c, op, by, i)
        BY <2>2 DEF CancelSubscription, AdminCancel, Cancels
      <3>2. PICK op \in Creates \cup Cancels, by \in {owner[i], Admin} : Send(c, op, by, i)
        BY <3>1
      <3>3. QED  BY <3>2, SendKeepsKeeper
    <2>3. QED  BY <1>1, <2>1, <2>2, RepairKeepsKeeper DEF Make
  <1>2. ASSUME NEW c \in Calls, Execute(c) \/ Drop(c)  PROVE KeeperInv'
    BY <1>2, ExecuteKeepsKeeper DEF Execute
  <1>3. ASSUME NEW c \in Calls, Wait(c)  PROVE KeeperInv'
    BY <1>3, ConfirmKeepsKeeper, CallKeepsKeeper DEF Wait
  <1>4. ASSUME NEW c \in Calls, Sync(c) \/ Keeper(c)  PROVE KeeperInv'
    BY <1>4, CallKeepsKeeper, AcceptKeepsKeeper DEF Keeper
  <1>5. CASE UNCHANGED vars
    <2> USE <1>5 DEF vars, chainVars
    <2>1. PostedOnce' /\ RepairsRejected'
      BY DEF KeeperInv, PostedOnce, RepairsRejected, Posts, Has, CreatedBy, About, Registers
    <2>2. \A c \in Calls : KeeperAnswers(c)'  BY DEF KeeperInv, KeeperAnswers, Has
    <2>3. \A i \in Index : ScheduleHasCause(i)'
      BY DEF KeeperInv, ScheduleHasCause, Posted, Deleted, Posts, About, Registers
    <2>4. QED  BY <2>1, <2>2, <2>3 DEF KeeperInv
  <1>6. QED  BY <1>1, <1>2, <1>3, <1>4, <1>5 DEF Next

\* At first the keeper knows nothing.
LEMMA KeeperInitially == Init => KeeperInv
  BY DEF Init, KeeperInv, PostedOnce, RepairsRejected, KeeperAnswers, ScheduleHasCause, Posted,
         Deleted, Posts, Has, About

\* Who heeds what the calls tell, and repairs, leaves chain and keeper agreed.
LEMMA SettledAgrees ==
    ASSUME ReliableKeeper, SubsInv, KeeperInv
    PROVE  NoSilentDivergence
  <1> SUFFICES ASSUME NEW i \in Index, Settled(i)
               PROVE  i \in schedules <=> status[i] = "active"
    BY DEF NoSilentDivergence
  <1>0. /\ \A c \in Calls : KeeperAnswers(c) /\ CallInOrder(c) /\ CallIsAbout(c)
        /\ ScheduleHasCause(i) /\ status[i] \in {"none", "active", "cancelled"}
    BY DEF SubsInv, KeeperInv, TypeOK
  <1>1. CASE status[i] = "none"  BY <1>1 DEF SubsInv, ScheduledExists
  \* Its creation, or the repair of it, has told the keeper; nobody cancelled.
  <1>2. CASE status[i] = "active"
    <2>1. PICK c \in Calls : CreatedBy(c, i)  BY <1>2 DEF SubsInv, HasCreator
    <2>2. Mended(c) /\ job[c].op \notin Cancels
      BY <2>1 DEF Settled, CreatedBy, Creates, Cancels
    <2>3. \E d \in Calls : Posted(d, i)
      <3>1. CASE pc[c] = "resolved"
        <4>1. Posted(c, i)
          BY <1>0, <2>1, <3>1 DEF Posted, Posts, CreatedBy, Registers, KeeperAnswers
        <4>2. QED  BY <4>1
      <3>2. CASE pc[c] # "resolved"
        <4>1. PICK d \in Calls : /\ About(d, job[c].index) /\ pc[d] = "resolved"
                                 /\ job[d].op = "registerBillingSchedule"
          BY <2>2, <3>2 DEF Mended
        <4>2. job[c].index = i  BY <2>1 DEF CreatedBy, About
        <4>3. Posted(d, i)  BY <1>0, <4>1, <4>2 DEF Posted, Posts, Registers, KeeperAnswers
        <4>4. QED  BY <4>3
      <3>3. QED  BY <3>1, <3>2
    <2>4. ASSUME NEW d \in Calls, Deleted(d, i)  PROVE FALSE
      <3>1. job[d] \in Job /\ job[d].index = i /\ job[d] # None /\ request[d] = "ok"
        BY <2>4 DEF Deleted, About, SubsInv, TypeOK
      <3>2. Has(d, Cancels) \/ Has(d, {"cancelBillingSchedule"})
        BY <2>4, <3>1 DEF Deleted, Registers, Job, Has, Creates, Cancels, Repairs
      <3>3. Has(d, Cancels) => tx[d] = "landed"
        BY <1>0, <3>1 DEF CallInOrder, Has, Cancels, Repairs
      <3>4. QED  BY <1>0, <1>2, <3>1, <3>2, <3>3 DEF CallIsAbout
    <2>5. QED  BY <1>0, <1>2, <2>3, <2>4 DEF ScheduleHasCause
  \* Its cancellation, or the repair of it, has told the keeper.
  <1>3. CASE status[i] = "cancelled"
    <2>1. PICK c \in Calls : CancelledBy(c, i)  BY <1>3 DEF SubsInv, HasCanceller
    <2>2. Mended(c)  BY <2>1 DEF Settled, CancelledBy
    <2>3. \E d \in Calls : Deleted(d, i)
      <3>1. CASE pc[c] = "resolved"
        <4>1. Deleted(c, i)
          BY <1>0, <2>1, <3>1
             DEF Deleted, CancelledBy, Registers, KeeperAnswers, Creates, Cancels
        <4>2. QED  BY <4>1
      <3>2. CASE pc[c] # "resolved"
        <4>1. PICK d \in Calls : /\ About(d, job[c].index) /\ pc[d] = "resolved"
                                 /\ job[d].op = "cancelBillingSchedule"
          BY <2>1, <2>2, <3>2 DEF Mended, CancelledBy
        <4>2. job[c].index = i  BY <2>1 DEF CancelledBy, About
        <4>3. Deleted(d, i)
          BY <1>0, <4>1, <4>2 DEF Deleted, Registers, KeeperAnswers, Creates
        <4>4. QED  BY <4>3
      <3>3. QED  BY <3>1, <3>2
    <2>4. QED  BY <1>0, <1>3, <2>3 DEF ScheduleHasCause
  <1>4. QED  BY <1>0, <1>1, <1>2, <1>3

\* With a reliable keeper chain and keeper agree about every mandate whose calls
\* have all succeeded or been repaired, however many calls there are, in whatever
\* order their transactions and requests are carried out, and whichever of them
\* are lost or not heard of.
THEOREM ChainAndKeeperAgree == ReliableKeeper /\ Spec => []NoSilentDivergence
  <1>1. ReliableKeeper /\ SubsInv /\ KeeperInv /\ [Next]_vars => KeeperInv'
    BY KeeperStep
  <1>2. ReliableKeeper /\ SubsInv /\ KeeperInv => NoSilentDivergence  BY SettledAgrees
  <1>3. ReliableKeeper /\ [Next]_vars => ReliableKeeper'  BY DEF ReliableKeeper
  <1>4. QED  BY <1>1, <1>2, <1>3, KeeperInitially, SubsInvariance, PTL DEF Spec
=============================================================================
