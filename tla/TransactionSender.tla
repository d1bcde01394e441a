-------------------------- MODULE TransactionSender --------------------------
(***************************************************************************)
(* How a client sends transactions: sendV0Transaction and what it waits    *)
(* for (src/src/client.ts:409-460, 504-555), the lookup table it creates   *)
(* on first use (src/src/alt/lookup-table.ts), and the Helius connection   *)
(* that may replace the one it was given (src/src/helius/provider.ts).     *)
(*                                                                         *)
(* A call may send two transactions, one after the other: one that creates *)
(* the table, if the client has none yet, and its own.  Both go through    *)
(* the same steps, from a blockhash to the end of the wait for it.         *)
(*                                                                         *)
(* Time is counted in blocks.  A blockhash is good for Validity blocks,    *)
(* and heights are kept as the number of blocks still to come until them.  *)
(* The node is taken not to go back in time, and not to lose the           *)
(* notification of a transaction that has landed.                          *)
(***************************************************************************)
EXTENDS Naturals, FiniteSets

CONSTANTS
    Sends,     \* bound: the calls made of the client, each made once
    Validity,  \* blocks a blockhash can be used for
    MaxTries,  \* times a new table is looked for
    Helius,    \* the client was given a heliusApiKey
    NoTable       \* null

ASSUME TransactionSenderAssumption ==
    /\ Validity \in Nat \ {0}
    /\ MaxTries \in Nat \ {0}
    /\ Helius \in BOOLEAN
    /\ NoTable \notin Sends

VARIABLES
    upgrade,     \* where heliusConnectionPromise is
    altAccount,  \* the table the client has cached, or NoTable
    tables,      \* the tables that exist on the chain
    slotTable,   \* the address derived from the current slot, or NoTable
    at,          \* at[c]: where call c is, or how it ended
    kind,        \* kind[c]: the transaction call c is busy with
    table,       \* table[c]: the table call c creates or uses
    tries,       \* tries[c]: times it has looked for the table it created
    tx,          \* tx[c]: what has become of the transaction
    life,        \* life[c]: blocks until its blockhash cannot be used
    patience,    \* patience[c]: blocks until lastValidBlockHeight is past
    sentOn       \* sentOn[c]: the connection it was sent on

clientVars == <<upgrade, altAccount>>
chainVars == <<tables, slotTable>>
txVars == <<tx, life, patience, sentOn>>
senderVars == <<clientVars, chainVars, at, kind, table, tries, txVars>>

Ended == {"resolved", "failed", "expired", "threw", "notFound", "notReady"}

\* A table is named by the first call that derived its address from the slot.
SenderTypeOK ==
    /\ upgrade \in {"none", "pending", "ready", "failed"}
    /\ altAccount \in Sends \cup {NoTable}
    /\ tables \subseteq Sends
    /\ slotTable \in Sends \cup {NoTable}
    /\ at \in [Sends -> {"idle", "starting", "slot", "build", "sign", "expiry",
                         "confirm", "fetch"} \cup Ended]
    /\ kind \in [Sends -> {"table", "main"}]
    /\ table \in [Sends -> Sends \cup {NoTable}]
    /\ tries \in [Sends -> 0..(MaxTries - 1)]
    /\ tx \in [Sends -> {"none", "sent", "landed", "failed"}]
    /\ life \in [Sends -> 0..Validity]
    /\ patience \in [Sends -> 0..Validity]
    /\ sentOn \in [Sends -> {"given", "helius"}]

SenderInit ==
    /\ upgrade = IF Helius THEN "pending" ELSE "none"
    /\ altAccount = NoTable
    /\ tables = {}
    /\ slotTable = NoTable
    /\ at = [c \in Sends |-> "idle"]
    /\ kind = [c \in Sends |-> "table"]
    /\ table = [c \in Sends |-> NoTable]
    /\ tries = [c \in Sends |-> 0]
    /\ tx = [c \in Sends |-> "none"]
    /\ life = [c \in Sends |-> 0]
    /\ patience = [c \in Sends |-> 0]
    /\ sentOn = [c \in Sends |-> "given"]

Goto(c, where) == at' = [at EXCEPT ![c] = where]

-----------------------------------------------------------------------------
(* The runtime of the client                                               *)

\* syncRuntime replaces the connection.
UpgradeSucceeds ==
    /\ upgrade = "pending"
    /\ upgrade' = "ready"
    /\ UNCHANGED <<altAccount, chainVars, at, kind, table, tries, txVars>>

\* The Helius SDK is not installed, or its client cannot be made.
UpgradeFails ==
    /\ upgrade = "pending"
    /\ upgrade' = "failed"
    /\ UNCHANGED <<altAccount, chainVars, at, kind, table, tries, txVars>>

Connection == IF upgrade = "ready" THEN "helius" ELSE "given"

\* A method of the client that changes the chain is called.
Start(c) ==
    /\ at[c] = "idle"
    /\ Goto(c, "starting")
    /\ UNCHANGED <<clientVars, chainVars, kind, table, tries, txVars>>

\* Mutant: the runtime is not waited for.
RuntimeReady_Always == TRUE

RuntimeReady == upgrade \in {"none", "ready"}

\* ensureRuntimeReady throws, for this call and for every later one.
NotReady(c) ==
    /\ at[c] = "starting"
    /\ upgrade = "failed"
    /\ Goto(c, "notReady")
    /\ UNCHANGED <<clientVars, chainVars, kind, table, tries, txVars>>

-----------------------------------------------------------------------------
(* getOrCreateALT                                                          *)

UseTable(c) ==
    /\ at[c] = "starting"
    /\ RuntimeReady
    /\ altAccount # NoTable
    /\ table' = [table EXCEPT ![c] = altAccount]
    /\ kind' = [kind EXCEPT ![c] = "main"]
    /\ Goto(c, "build")
    /\ UNCHANGED <<clientVars, chainVars, tries, txVars>>

NeedTable(c) ==
    /\ at[c] = "starting"
    /\ RuntimeReady
    /\ altAccount = NoTable
    /\ Goto(c, "slot")
    /\ UNCHANGED <<clientVars, chainVars, kind, table, tries, txVars>>

SlotTable(c) == IF slotTable = NoTable THEN c ELSE slotTable

\* Mutant: the table is cached as soon as its address is known.
GetSlot_Caches(c) ==
    /\ at[c] = "slot"
    /\ slotTable' = SlotTable(c)
    /\ table' = [table EXCEPT ![c] = SlotTable(c)]
    /\ altAccount' = SlotTable(c)
    /\ Goto(c, "build")
    /\ UNCHANGED <<upgrade, tables, kind, tries, txVars>>

\* The address is derived from the payer, who is always the wallet, and the
\* slot: two calls that read the same slot derive the same address.
GetSlot(c) ==
    /\ at[c] = "slot"
    /\ slotTable' = SlotTable(c)
    /\ table' = [table EXCEPT ![c] = SlotTable(c)]
    /\ Goto(c, "build")
    /\ UNCHANGED <<clientVars, tables, kind, tries, txVars>>

\* getAddressLookupTable finds the table: it is cached, and the call goes on
\* to its own transaction.
FetchTable(c) ==
    /\ at[c] = "fetch"
    /\ table[c] \in tables
    /\ altAccount' = table[c]
    /\ kind' = [kind EXCEPT ![c] = "main"]
    /\ tx' = [tx EXCEPT ![c] = "none"]
    /\ Goto(c, "build")
    /\ UNCHANGED <<upgrade, chainVars, table, tries, life, patience, sentOn>>

\* Mutant: one try too many.
FetchNull_Extra(c) ==
    /\ at[c] = "fetch"
    /\ IF tries[c] < MaxTries
       THEN tries' = [tries EXCEPT ![c] = @ + 1] /\ UNCHANGED at
       ELSE Goto(c, "notFound") /\ UNCHANGED tries
    /\ UNCHANGED <<clientVars, chainVars, kind, table, txVars>>

\* Mutant: the loop is not bounded.
FetchNull_Forever(c) ==
    /\ at[c] = "fetch"
    /\ tries' = [tries EXCEPT ![c] = (@ + 1) % MaxTries]
    /\ UNCHANGED <<clientVars, chainVars, at, kind, table, txVars>>

\* The node does not show the table at its commitment yet.
FetchNull(c) ==
    /\ at[c] = "fetch"
    /\ IF tries[c] + 1 < MaxTries
       THEN tries' = [tries EXCEPT ![c] = @ + 1] /\ UNCHANGED at
       ELSE Goto(c, "notFound") /\ UNCHANGED tries
    /\ UNCHANGED <<clientVars, chainVars, kind, table, txVars>>

-----------------------------------------------------------------------------
(* signAndSend                                                             *)

\* getLatestBlockhash, and the transaction is compiled.
Build(c) ==
    /\ at[c] = "build"
    /\ life' = [life EXCEPT ![c] = Validity]
    /\ Goto(c, "sign")
    /\ UNCHANGED <<clientVars, chainVars, kind, table, tries, tx, patience, sentOn>>

\* The wallet has signed, however long that took, and the node accepts the
\* transaction if its blockhash can still be used.
SendRaw(c) ==
    /\ at[c] = "sign"
    /\ life[c] > 0
    /\ tx' = [tx EXCEPT ![c] = "sent"]
    /\ sentOn' = [sentOn EXCEPT ![c] = Connection]
    /\ Goto(c, "expiry")
    /\ UNCHANGED <<clientVars, chainVars, kind, table, tries, life, patience>>

\* Mutant: a height that was asked for is kept until it is past.
GetExpiry_Kept(c) ==
    /\ at[c] = "expiry"
    /\ patience' = [patience EXCEPT ![c] = IF @ > 0 THEN @ ELSE Validity]
    /\ Goto(c, "confirm")
    /\ UNCHANGED <<clientVars, chainVars, kind, table, tries, tx, life, sentOn>>

\* getLatestBlockhash once more: the height to wait for is that of a newer
\* blockhash than the transaction's.
GetExpiry(c) ==
    /\ at[c] = "expiry"
    /\ patience' = [patience EXCEPT ![c] = Validity]
    /\ Goto(c, "confirm")
    /\ UNCHANGED <<clientVars, chainVars, kind, table, tries, tx, life, sentOn>>

\* confirmTransaction reports that the transaction has landed.
Confirmed(c) ==
    /\ at[c] = "confirm"
    /\ tx[c] = "landed"
    /\ Goto(c, IF kind[c] = "table" THEN "fetch" ELSE "resolved")
    /\ UNCHANGED <<clientVars, chainVars, kind, table, tries, txVars>>

\* It reports an error of the transaction.
Failed(c) ==
    /\ at[c] = "confirm"
    /\ tx[c] = "failed"
    /\ Goto(c, "failed")
    /\ UNCHANGED <<clientVars, chainVars, kind, table, tries, txVars>>

\* It reports that lastValidBlockHeight is past.
Expired(c) ==
    /\ at[c] = "confirm"
    /\ tx[c] = "sent"
    /\ patience[c] = 0
    /\ Goto(c, "expired")
    /\ UNCHANGED <<clientVars, chainVars, kind, table, tries, txVars>>

\* Any request to the node or the wallet throws, and so does the call.  What
\* was requested may have been done all the same.
Throws(c) ==
    /\ at[c] \in {"slot", "build", "sign", "expiry", "confirm", "fetch"}
    /\ \/ tx' = [tx EXCEPT ![c] = "sent"] /\ at[c] = "sign" /\ life[c] > 0
       \/ UNCHANGED tx
    /\ Goto(c, "threw")
    /\ UNCHANGED <<clientVars, chainVars, kind, table, tries, life, patience, sentOn>>

-----------------------------------------------------------------------------
(* The chain (external)                                                    *)

\* A transaction that creates a table which exists already lands or reverts.
Land(c) ==
    /\ tx[c] = "sent"
    /\ life[c] > 0
    /\ tx' = [tx EXCEPT ![c] = "landed"]
    /\ tables' = IF kind[c] = "table" THEN tables \cup {table[c]} ELSE tables
    /\ UNCHANGED <<clientVars, slotTable, at, kind, table, tries, life, patience, sentOn>>

Reverts(c) ==
    /\ tx[c] = "sent"
    /\ life[c] > 0
    /\ tx' = [tx EXCEPT ![c] = "failed"]
    /\ UNCHANGED <<clientVars, chainVars, at, kind, table, tries, life, patience, sentOn>>

OneLess(n) == IF n = 0 THEN 0 ELSE n - 1

NextBlock ==
    /\ life' = [c \in Sends |-> OneLess(life[c])]
    /\ patience' = [c \in Sends |-> OneLess(patience[c])]
    /\ slotTable' = NoTable
    /\ UNCHANGED <<clientVars, tables, at, kind, table, tries, tx, sentOn>>

-----------------------------------------------------------------------------
Alt(c) == UseTable(c) \/ NeedTable(c) \/ GetSlot(c) \/ FetchTable(c) \/ FetchNull(c)

SignAndSend(c) ==
    Build(c) \/ SendRaw(c) \/ GetExpiry(c) \/ Confirmed(c) \/ Failed(c) \/ Expired(c)

Step(c) == NotReady(c) \/ Alt(c) \/ SignAndSend(c) \/ Throws(c)

SenderNext ==
    \/ UpgradeSucceeds \/ UpgradeFails \/ NextBlock
    \/ \E c \in Sends : Start(c) \/ Step(c) \/ Land(c) \/ Reverts(c)

SenderSpec == SenderInit /\ [][SenderNext]_senderVars

\* Blocks are produced, the Helius client is made or not, and a request or the
\* wallet is answered, or fails.
SenderFairness ==
    /\ WF_senderVars(NextBlock)
    /\ WF_senderVars(UpgradeSucceeds \/ UpgradeFails)
    /\ \A c \in Sends : WF_senderVars(Step(c))

SenderFairSpec == SenderSpec /\ SenderFairness

-----------------------------------------------------------------------------
(* Properties                                                              *)

Landed(c) == kind[c] = "main" /\ tx[c] = "landed"

\* It cannot land any more, whatever the chain does.
NeverLands(c) ==
    \/ kind[c] = "table" \/ tx[c] = "none" \/ tx[c] = "failed"
    \/ tx[c] = "sent" /\ life[c] = 0

\* What a caller is told of its transaction is true and stays true: it has
\* landed when the call resolved, and it has not and never will when the call
\* was rejected for any reason but a failed request, so that the caller can
\* call again without doing twice what it asked for (client.ts:504-540).
OutcomeIsTrue ==
    \A c \in Sends :
        /\ at[c] = "resolved" => Landed(c)
        /\ at[c] \in Ended \ {"resolved", "threw"} => NeverLands(c)

\* A transaction is waited for on the connection it was sent on: the one the
\* client was given is not replaced under a call that uses it
\* (client.ts:409-417, 456-460).
OneConnection ==
    \A c \in Sends : at[c] \in {"expiry", "confirm"} => sentOn[c] = Connection

\* The client caches, and its transactions are compiled with, only a table
\* that is on the chain, also when two calls create one at once or creating it
\* failed (lookup-table.ts:73-96).
TableUsable ==
    /\ altAccount # NoTable => altAccount \in tables
    /\ \A c \in Sends : kind[c] = "main" => table[c] \in tables

\* What the proofs need besides: where a call is, and the state of its
\* transaction that goes with it.
StageOf(c) ==
    /\ at[c] \in {"idle", "starting", "slot", "build", "sign"} => tx[c] = "none"
    /\ at[c] \in {"idle", "starting", "slot", "notReady"} => kind[c] = "table"
    /\ at[c] = "confirm" => life[c] <= patience[c]
    /\ at[c] \in {"build", "sign", "expiry", "confirm", "fetch"} => table[c] # NoTable
    /\ tx[c] # "none" => table[c] # NoTable
    /\ at[c] = "fetch" => table[c] \in tables /\ kind[c] = "table"
    /\ kind[c] = "table" /\ tx[c] = "landed" => table[c] \in tables
    /\ at[c] = "notFound" => kind[c] = "table"
    /\ at[c] \notin {"idle", "starting", "notReady"} => RuntimeReady

SenderInv ==
    /\ SenderTypeOK /\ OutcomeIsTrue /\ OneConnection /\ TableUsable
    /\ \A c \in Sends : StageOf(c)

\* No call is under way for ever, whatever the chain and the node do
\* (client.ts:515-518).
CallsEnd == \A c \in Sends : []<>(at[c] \in {"idle"} \cup Ended)
=============================================================================
