------------------------------ MODULE MCClient ------------------------------
(***************************************************************************)
(* The two parts of a client that share no state, its config cache and how *)
(* it sends transactions, on small instances, in one run: a behaviour is   *)
(* of one part, the other rests at its initial state.                      *)
(***************************************************************************)
EXTENDS ConfigCache, TransactionSender

VARIABLE part

vars == <<part, configVars, senderVars>>

Init ==
    /\ part \in {"config", "sender"}
    /\ ConfigInit
    /\ SenderInit

ConfigPart ==
    /\ part = "config" /\ ConfigNext
    /\ UNCHANGED <<part, senderVars>>

SenderPart ==
    /\ part = "sender" /\ SenderNext
    /\ UNCHANGED <<part, configVars>>

Next == ConfigPart \/ SenderPart

\* ConfigFairness and SenderFairness, when it is their part that runs.
Fairness ==
    /\ \A k \in Calls :
         /\ WF_configVars(part = "config" /\ Return(k))
         /\ WF_configVars(part = "config" /\ Load(k))
    /\ WF_senderVars(part = "sender" /\ NextBlock)
    /\ WF_senderVars(part = "sender" /\ (UpgradeSucceeds \/ UpgradeFails))
    /\ \A c \in Sends : WF_senderVars(part = "sender" /\ Step(c))

Spec == Init /\ [][Next]_vars /\ Fairness

\* The type invariant of both parts.
TypeOK == ConfigTypeOK /\ SenderTypeOK
=============================================================================
