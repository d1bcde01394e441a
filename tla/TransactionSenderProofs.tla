----------------------- MODULE TransactionSenderProofs -----------------------
(***************************************************************************)
(* Proofs about TransactionSender, for any number of calls, any validity   *)
(* of blockhashes and any number of tries, and about both parts of a       *)
(* client together.                                                        *)
(***************************************************************************)
EXTENDS MCClient, ConfigCacheProofs

Stages == \A c \in Sends : StageOf(c)

\* The invariant holds initially.
LEMMA InitIndInv == SenderInit => SenderInv
<1> USE TransactionSenderAssumption
<1> SUFFICES ASSUME SenderInit
             PROVE  SenderInv
  OBVIOUS
<1>1. SenderTypeOK
  BY DEF SenderInit, SenderTypeOK, Ended
<1>2. OutcomeIsTrue /\ OneConnection /\ TableUsable
  BY DEF SenderInit, OutcomeIsTrue, OneConnection, TableUsable, Ended
<1>3. \A c \in Sends : StageOf(c)
  BY DEF SenderInit, StageOf
<1> QED
  BY <1>1, <1>2, <1>3 DEF SenderInv

\* Every step keeps the types; that a transaction has a table is needed when
\* it lands.
LEMMA TypeStep == SenderTypeOK /\ Stages /\ SenderNext => SenderTypeOK'
<1> USE TransactionSenderAssumption DEF SenderTypeOK, clientVars, chainVars, txVars, Goto, Ended
<1> SUFFICES ASSUME SenderTypeOK, Stages, SenderNext
             PROVE  SenderTypeOK'
  OBVIOUS
<1>1. CASE UpgradeSucceeds \/ UpgradeFails
  BY <1>1 DEF UpgradeSucceeds, UpgradeFails
<1>2. CASE NextBlock
  BY <1>2 DEF NextBlock, OneLess
<1>3. ASSUME NEW c \in Sends, Start(c) \/ NotReady(c) \/ Throws(c)
      PROVE  SenderTypeOK'
  BY <1>3 DEF Start, NotReady, Throws
<1>4. ASSUME NEW c \in Sends, UseTable(c) \/ NeedTable(c) \/ GetSlot(c)
      PROVE  SenderTypeOK'
  BY <1>4 DEF UseTable, NeedTable, GetSlot, SlotTable
<1>5. ASSUME NEW c \in Sends, FetchTable(c)
      PROVE  SenderTypeOK'
  BY <1>5 DEF FetchTable
<1>6. ASSUME NEW c \in Sends, FetchNull(c)
      PROVE  SenderTypeOK'
  BY <1>6 DEF FetchNull
<1>7. ASSUME NEW c \in Sends, Build(c) \/ SendRaw(c) \/ GetExpiry(c)
      PROVE  SenderTypeOK'
  BY <1>7 DEF Build, SendRaw, GetExpiry, Connection
<1>8. ASSUME NEW c \in Sends, Confirmed(c) \/ Failed(c) \/ Expired(c)
      PROVE  SenderTypeOK'
  BY <1>8 DEF Confirmed, Failed, Expired
<1>9. ASSUME NEW c \in Sends, Land(c) \/ Reverts(c)
      PROVE  SenderTypeOK'
  BY <1>9 DEF Land, Reverts, Stages, StageOf
<1> HIDE DEF SenderTypeOK
<1> QED
  BY <1>1, <1>2, <1>3, <1>4, <1>5, <1>6, <1>7, <1>8, <1>9
     DEF SenderNext, Step, Alt, SignAndSend

\* A call that makes no step is where it was, and no step of another call, nor
\* of the chain or the runtime, disturbs it.
LEMMA OthersStep ==
  ASSUME SenderInv, NEW c \in Sends, NEW d \in Sends, c # d, StageOf(d),
         Start(c) \/ Step(c) \/ Land(c) \/ Reverts(c)
  PROVE  StageOf(d)'
<1> USE TransactionSenderAssumption
        DEF SenderInv, SenderTypeOK, StageOf, RuntimeReady, clientVars, chainVars, txVars, Goto
<1>1. CASE Start(c) \/ NotReady(c) \/ Throws(c)
  BY <1>1 DEF Start, NotReady, Throws
<1>2. CASE Alt(c)
  BY <1>2 DEF Alt, UseTable, NeedTable, GetSlot, FetchTable, FetchNull
<1>3. CASE SignAndSend(c)
  BY <1>3 DEF SignAndSend, Build, SendRaw, GetExpiry, Confirmed, Failed, Expired
<1>4. CASE Land(c) \/ Reverts(c)
  BY <1>4 DEF Land, Reverts
<1> QED
  BY <1>1, <1>2, <1>3, <1>4 DEF Step

\* Every step keeps the stage of the call that makes it.
LEMMA OwnStep ==
  ASSUME SenderInv, NEW c \in Sends, StageOf(c),
         Start(c) \/ Step(c) \/ Land(c) \/ Reverts(c)
  PROVE  StageOf(c)'
<1> USE TransactionSenderAssumption
        DEF SenderInv, SenderTypeOK, StageOf, RuntimeReady, clientVars, chainVars, txVars, Goto
<1>1. CASE Start(c) \/ NotReady(c) \/ Throws(c)
  BY <1>1 DEF Start, NotReady, Throws
<1>2. CASE Alt(c)
  BY <1>2 DEF Alt, UseTable, NeedTable, GetSlot, SlotTable, FetchTable, FetchNull
<1>3. CASE Build(c) \/ SendRaw(c) \/ GetExpiry(c)
  BY <1>3 DEF Build, SendRaw, GetExpiry
<1>4. CASE Confirmed(c) \/ Failed(c) \/ Expired(c)
  BY <1>4 DEF Confirmed, Failed, Expired
<1>5. CASE Land(c) \/ Reverts(c)
  BY <1>5 DEF Land, Reverts
<1> QED
  BY <1>1, <1>2, <1>3, <1>4, <1>5 DEF Step, SignAndSend

\* A new block, or the end of the upgrade, keeps the stage of every call.
LEMMA EnvironmentStep ==
  ASSUME SenderInv, NEW c \in Sends, UpgradeSucceeds \/ UpgradeFails \/ NextBlock
  PROVE  StageOf(c)'
<1> USE TransactionSenderAssumption
        DEF SenderInv, SenderTypeOK, StageOf, RuntimeReady, clientVars, chainVars, txVars
<1>1. CASE UpgradeSucceeds \/ UpgradeFails
  BY <1>1 DEF UpgradeSucceeds, UpgradeFails
<1>2. CASE NextBlock
  BY <1>2 DEF NextBlock, OneLess
<1> QED
  BY <1>1, <1>2

\* The three parts together.
LEMMA StagesStep == SenderInv /\ SenderNext => Stages'
<1> SUFFICES ASSUME SenderInv, SenderNext, NEW d \in Sends
             PROVE  StageOf(d)'
  BY DEF Stages
<1>1. StageOf(d)
  BY DEF SenderInv
<1>2. CASE UpgradeSucceeds \/ UpgradeFails \/ NextBlock
  BY <1>2, EnvironmentStep
<1>3. ASSUME NEW c \in Sends, Start(c) \/ Step(c) \/ Land(c) \/ Reverts(c)
      PROVE  StageOf(d)'
  <2>1. CASE c = d
    BY <1>1, <1>3, <2>1, OwnStep
  <2>2. CASE c # d
    BY <1>1, <1>3, <2>2, OthersStep
  <2> QED
    BY <2>1, <2>2
<1> QED
  BY <1>2, <1>3 DEF SenderNext

\* What is cached or used is on the chain, and tables stay there.
LEMMA TableStep == SenderInv /\ SenderNext => TableUsable'
<1> USE TransactionSenderAssumption
        DEF SenderInv, SenderTypeOK, StageOf, TableUsable, clientVars, chainVars, txVars, Goto
<1> SUFFICES ASSUME SenderInv, SenderNext
             PROVE  TableUsable'
  OBVIOUS
<1>1. CASE UpgradeSucceeds \/ UpgradeFails \/ NextBlock
  BY <1>1 DEF UpgradeSucceeds, UpgradeFails, NextBlock
<1>2. ASSUME NEW c \in Sends, Start(c) \/ NotReady(c) \/ Throws(c)
      PROVE  TableUsable'
  BY <1>2 DEF Start, NotReady, Throws
<1>3. ASSUME NEW c \in Sends, UseTable(c) \/ NeedTable(c) \/ FetchTable(c) \/ FetchNull(c)
      PROVE  TableUsable'
  BY <1>3 DEF UseTable, NeedTable, FetchTable, FetchNull
<1>4. ASSUME NEW c \in Sends, GetSlot(c)
      PROVE  TableUsable'
  BY <1>4 DEF GetSlot
<1>5. ASSUME NEW c \in Sends, SignAndSend(c)
      PROVE  TableUsable'
  BY <1>5 DEF SignAndSend, Build, SendRaw, GetExpiry, Confirmed, Failed, Expired
<1>6. ASSUME NEW c \in Sends, Land(c) \/ Reverts(c)
      PROVE  TableUsable'
  BY <1>6 DEF Land, Reverts
<1> HIDE DEF SenderInv, TableUsable
<1> QED
  BY <1>1, <1>2, <1>3, <1>4, <1>5, <1>6 DEF SenderNext, Step, Alt

\* The connection changes only while every call that has begun awaits it.
LEMMA ConnectionStep == SenderInv /\ SenderNext => OneConnection'
<1> USE TransactionSenderAssumption
        DEF SenderInv, SenderTypeOK, StageOf, RuntimeReady, OneConnection, Connection,
            clientVars, chainVars, txVars, Goto, Ended
<1> SUFFICES ASSUME SenderInv, SenderNext
             PROVE  OneConnection'
  OBVIOUS
<1>1. CASE UpgradeSucceeds \/ UpgradeFails \/ NextBlock
  BY <1>1 DEF UpgradeSucceeds, UpgradeFails, NextBlock
<1>2. ASSUME NEW c \in Sends, Start(c) \/ NotReady(c) \/ Throws(c)
      PROVE  OneConnection'
  BY <1>2 DEF Start, NotReady, Throws
<1>3. ASSUME NEW c \in Sends, Alt(c)
      PROVE  OneConnection'
  BY <1>3 DEF Alt, UseTable, NeedTable, GetSlot, FetchTable, FetchNull
<1>4. ASSUME NEW c \in Sends, SignAndSend(c)
      PROVE  OneConnection'
  BY <1>4 DEF SignAndSend, Build, SendRaw, GetExpiry, Confirmed, Failed, Expired
<1>5. ASSUME NEW c \in Sends, Land(c) \/ Reverts(c)
      PROVE  OneConnection'
  BY <1>5 DEF Land, Reverts
<1> HIDE DEF SenderInv, OneConnection
<1> QED
  BY <1>1, <1>2, <1>3, <1>4, <1>5 DEF SenderNext, Step

\* What a call has told its caller stays true.
LEMMA OutcomeStep == SenderInv /\ SenderNext => OutcomeIsTrue'
<1> USE TransactionSenderAssumption
        DEF SenderInv, SenderTypeOK, StageOf, OutcomeIsTrue, Landed, NeverLands,
            clientVars, chainVars, txVars, Goto, Ended
<1> SUFFICES ASSUME SenderInv, SenderNext
             PROVE  OutcomeIsTrue'
  OBVIOUS
<1>1. CASE UpgradeSucceeds \/ UpgradeFails \/ NextBlock
  BY <1>1 DEF UpgradeSucceeds, UpgradeFails, NextBlock, OneLess
<1>2. ASSUME NEW c \in Sends, Start(c) \/ NotReady(c) \/ Throws(c)
      PROVE  OutcomeIsTrue'
  BY <1>2 DEF Start, NotReady, Throws
<1>3. ASSUME NEW c \in Sends, Alt(c)
      PROVE  OutcomeIsTrue'
  BY <1>3 DEF Alt, UseTable, NeedTable, GetSlot, FetchTable, FetchNull
<1>4. ASSUME NEW c \in Sends, Build(c) \/ SendRaw(c) \/ GetExpiry(c)
      PROVE  OutcomeIsTrue'
  BY <1>4 DEF Build, SendRaw, GetExpiry
<1>5. ASSUME NEW c \in Sends, Confirmed(c) \/ Failed(c) \/ Expired(c)
      PROVE  OutcomeIsTrue'
  BY <1>5 DEF Confirmed, Failed, Expired
<1>6. ASSUME NEW c \in Sends, Land(c) \/ Reverts(c)
      PROVE  OutcomeIsTrue'
  BY <1>6 DEF Land, Reverts
<1> HIDE DEF SenderInv, OutcomeIsTrue
<1> QED
  BY <1>1, <1>2, <1>3, <1>4, <1>5, <1>6 DEF SenderNext, Step, SignAndSend

-----------------------------------------------------------------------------
(* Theorems                                                                *)

\* The invariant holds of every behaviour of a client.
THEOREM SenderInvariance == SenderSpec => []SenderInv
<1>1. SenderInv /\ [SenderNext]_senderVars => SenderInv'
  <2>1. CASE SenderNext
    BY <2>1, TypeStep, StagesStep, TableStep, ConnectionStep, OutcomeStep DEF SenderInv, Stages
  <2>2. CASE UNCHANGED senderVars
    BY <2>2 DEF SenderInv, SenderTypeOK, OutcomeIsTrue, Landed, NeverLands, OneConnection, Connection,
                TableUsable, StageOf, RuntimeReady, senderVars, clientVars, chainVars, txVars
  <2> QED
    BY <2>1, <2>2
<1> QED
  BY InitIndInv, <1>1, PTL DEF SenderSpec

\* Every variable keeps its type; a table is looked for at most MaxTries times.
THEOREM SenderTypeCorrect == SenderSpec => []SenderTypeOK
<1>1. SenderInv => SenderTypeOK
  BY DEF SenderInv
<1> QED
  BY SenderInvariance, <1>1, PTL

\* What a caller is told of its transaction is true and stays true.
THEOREM OutcomesAreTrue == SenderSpec => []OutcomeIsTrue
<1>1. SenderInv => OutcomeIsTrue
  BY DEF SenderInv
<1> QED
  BY SenderInvariance, <1>1, PTL

\* A transaction is waited for on the connection it was sent on.
THEOREM ConnectionIsStable == SenderSpec => []OneConnection
<1>1. SenderInv => OneConnection
  BY DEF SenderInv
<1> QED
  BY SenderInvariance, <1>1, PTL

\* Only tables that are on the chain are cached and used.
THEOREM TablesExist == SenderSpec => []TableUsable
<1>1. SenderInv => TableUsable
  BY DEF SenderInv
<1> QED
  BY SenderInvariance, <1>1, PTL

-----------------------------------------------------------------------------
(* Both parts of a client                                                  *)

\* Whichever part a behaviour is of, both invariants hold in every state.
THEOREM ClientInvariance == Spec => [](ConfigInv /\ SenderInv)
<1>1. Init => ConfigInit /\ SenderInit
  BY DEF Init
<1>2. [Next]_vars => [ConfigNext]_configVars /\ [SenderNext]_senderVars
  BY DEF Next, ConfigPart, SenderPart, vars
<1>3. Spec => ConfigSpec /\ SenderSpec
  BY <1>1, <1>2, PTL DEF Spec, ConfigSpec, SenderSpec
<1> QED
  BY <1>3, ConfigInvariance, SenderInvariance, PTL

\* Every variable of both parts keeps its type.
THEOREM ClientTypeCorrect == Spec => []TypeOK
<1>1. ConfigInv /\ SenderInv => TypeOK
  BY DEF ConfigInv, SenderInv, TypeOK
<1> QED
  BY <1>1, ClientInvariance, PTL
=============================================================================
