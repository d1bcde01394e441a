# Formal verification of the VelaPay SDK

The SDK (`src/src`, TypeScript) lets subscribers, merchants, keepers and agents
use the Vela billing program on Solana: it builds and sends transactions, reads
accounts, keeps an off-chain keeper informed of subscriptions, previews what an
operation would do, and lets HTTP resources be paid for (x402).  The on-chain
program, the keeper, the RPC nodes and the dashboard are other systems; they
appear here only as the code in `src/src` uses them.

Almost nothing in the SDK is concurrent inside one call.  What is hard is what
happens between its awaits: another call of the same client, another client,
the chain, the keeper or the clock moves between what was read and what is done
with it, and each remote step can fail after it has taken effect.

## Inventory

| component | state it keeps | operations | what makes it correct |
|---|---|---|---|
| x402 middleware (`x402/server.ts`, `nonce-cache.ts`, `proof.ts`) | two maps of nonces per process | challenge, verify, consume | a resource runs at most once per challenge, after a payment is confirmed (its own, unless the proof named another); a failed proof costs nothing |
| paying fetch (`x402/client.ts`) | none beyond one call | fetch, canAfford | what is paid in time is served, if the middleware can read the payment |
| subscription lifecycle (`client.ts`, `instructions/subscribe, cancel, admin-cancel`, `schedule.ts`) | on chain: mandates, counter; at the keeper: schedules | createSubscription, cancelSubscription, adminCancel, register/cancelBillingSchedule | one mandate per call; chain and keeper agree once calls have ended well |
| protocol config cache, transaction sender (`client.ts`, `alt/lookup-table.ts`, `helius/provider.ts`) | config and its promise, Helius promise, lookup table | getProtocolConfig, refreshConfig, sendV0Transaction, getOrCreateALT | one load at a time; nothing older than the last refresh is served; outcomes are told truly |
| agent mandates (`accounts/fetchers.ts`, `validators/preflight.ts`, `x402/client.ts`) | on chain: agent mandate, its wrapped balance | checkAgentBudget, verifyAgentMandate, validateAgentPull, canAfford | what the SDK calls affordable, the program accepts |
| billing cycle (`instructions/request-validation, execute-pull, request-billing-record`, `validators/preflight.ts`, `accounts/deserialize.ts:354`) | on chain: mandate, approval, requests | validatePullPayment, isPullApprovalCurrent, the three builders | what the checks accept is refused only for what they could not see, and they hold back nothing the program would take; no period is blocked for good |
| usage reporting (`usage.ts`, `internal/usage-bridge.ts`) | ephemeral keys, attempts | submitUsageReport | the keeper's row is the report on the chain; bounded retries; keys are wiped |
| agent webhook (`client.ts:625`, `helius/webhooks.ts`) | one promise per client; webhooks at Helius | ensureAgentWebhook, handleAgentWebhookPayload | no duplicate without a race; events in order, all or none of a payload that does not parse |
| streams (`instructions/*-stream*.ts`, `accrued.ts`, `builders/upgrade-builder.ts`) | on chain: the stream | create, execute, pause, resume, cancel, update rate | nothing earned is lost, the cap holds, an update does what was wanted |
| plan changes, token amounts (`builders/`, `proration/`, `token/`) | none | previewPlanChange, execute, formatAmount, parseAmount | what is charged is what was shown; rounding does not add up |
| instruction builders, addresses (`instructions/`, `accounts/pda.ts`) | none; they read the chain | one builder per file of `instructions/` | every account they name is the one the program expects, unless what they read has changed |
| account layouts (`accounts/deserialize.ts`, `subscribable-plan.ts`) | none | decoders, getSubscribablePlan | fields are read where they were written, in every version |
| keeper configuration (`instructions/*-keeper-config.ts`) | on chain: KeeperConfig | init, update | as the builders |
| errors, events, inspection | none | tables | a copy of the interface file |
| CLI, browser entry point, portal sessions, dashboard API | none | one call, one request | thin callers of the SDK |

Interactions: the paying fetch calls verifyAgentMandate, checkAgentBudget and
agentPull of the client; every client method that changes the chain goes
through sendV0Transaction, which needs the connection (perhaps replaced by a
Helius one) and the lookup table; agent methods read the protocol config cache;
createSubscription, cancelSubscription and adminCancel call the keeper after the
chain; the middleware reads the chain the paying fetch wrote.

## Hard behaviours

* **Two turns around an await.** A nonce is looked up, a transaction is fetched,
  then the nonce is consumed; a cache is found empty, a load is awaited, then the
  cache is filled; a counter is read, a transaction is sent, then it is executed.
* **Effects without an answer.** A transaction lands although waiting for it
  threw; a keeper request is carried out although its answer was lost.
* **Two systems, no order.** The chain and the keeper are told one after the
  other, by clients that do not know of each other.
* **State that dies with its process.** The nonce cache, the config cache and
  the lookup table's address are in memory only.
* **Expiry.** Challenges, blockhashes and approvals end while somebody still
  holds them.

Every such place is listed, with its line and the properties that watch it,
under "hazards" in `PROJECT.json`.

## Modules

| module | models | kind |
|---|---|---|
| `NonceCache` | `x402/nonce-cache.ts`: the operations on a cache value | operators |
| `PaidService` | what a protected resource promises | abstract specification |
| `X402` | `x402/server.ts`, `client.ts`, `proof.ts`, the chain between them | state machine |
| `Subscriptions` | lifecycle calls of `client.ts`, `schedule.ts`, the chain, the keeper | state machine |
| `ConfigCache` | `client.ts:462-491` | state machine |
| `TransactionSender` | `client.ts:409-460, 504-555`, `alt/lookup-table.ts`, `helius/provider.ts` | state machine |
| `AgentProgram` | the on-chain program's side of agent mandates, external | operators |
| `AgentMandates` | `accounts/fetchers.ts:166-398`, `validators/preflight.ts:186-274`, `x402/client.ts:54-104`, the mandate methods of `client.ts` | state machine |
| `BillingCycle` | the checks and builders of a billing cycle, the program, the cluster | state machine |
| `UsageReporting` | `usage.ts`, `internal/usage-bridge.ts`, `instructions/request-usage-computation.ts` | state machine |
| `AgentWebhook` | `helius/webhooks.ts`, `client.ts:600-660` | state machine |
| `Streams` | the stream builders, `accrued.ts`, the stream part of `upgrade-builder.ts` | state machine |
| `Addresses` | `accounts/pda.ts`, the cluster's addresses | operators |
| `Instructions` | the accounts named by the builders in `instructions/` | state machine |
| `AccountLayouts` | `accounts/deserialize.ts`, `accounts/subscribable-plan.ts` | state machine |
| `PlanChanges` | the periodic part of `upgrade-builder.ts`, `proration/`, `token/` | state machine |
| `X402Proofs`, `SubscriptionsProofs`, `ConfigCacheProofs`, `TransactionSenderProofs`, `AgentMandatesProofs`, `BillingCycleProofs` | theorems about the module they are named for | proofs |
| `ChargesProofs` | theorems about `Streams` and `PlanChanges`, the parts that compute amounts | proofs |
| `SdkProofs` | theorems about `UsageReporting`, `AgentWebhook`, `Instructions`, `AccountLayouts` and the composition `MCSdk` | proofs |
| `MCClient` | `ConfigCache`, `TransactionSender` in one run | instance for TLC |
| `MCSdk` | `UsageReporting`, `AgentWebhook`, `Streams`, `Instructions`, `AccountLayouts`, `PlanChanges` in one run | instance for TLC |
| the other `MC...` | instances for TLC | |

Some properties are conjunctions of named parts (`ReportingSafe`, `WebhooksSafe`,
`StreamsSafe`, `AddressesAgree`, `WrittenReadsBack`, `ChangesAsShown`,
`PartsFinish`); each part is stated, with its comment, in its module.

An operator named `X_Something` next to an operator `X` and marked "Mutant" is
`X` with a bug somebody could have made; it is not used by the specification.
Replacing `X` by it makes a property fail, which shows that the property says
something about the code.

JavaScript runs one turn at a time, so in every module an action is the code
between two awaits, and what other parties do falls between actions.

### X402

The state is what the processes hold: `cache[s]` the two maps of an instance,
`handler[h]` an invocation of the middleware suspended in `getTransaction`,
`pc[f]`, `nonce[f]`, `expires[f]` a call of `VelaPaymentHandler.fetch`, and
`tx[f]` its transaction on the chain.  `Challenge` is the branch without a proof;
`RefuseProof` and `BeginVerify` are the two ways the branch with a proof reaches
its first return or its await; `Serve`, `Conflict` and `RefuseTx` are the three
ends after it.  How the fields of a proof and the decoded transaction are compared
is one predicate each (`PassesChecks`, `TxVerified`).

A proof is a challenge and a signature, and nothing ties the two.
`verifyPaymentProof` compares the transaction with the agent, authority,
destination, mint and amount it expects, not with the nonce, and keeps no signatures
(`x402/server.ts:260-326`).  So a proof for the challenge of `f` may name the
transaction of `g` (`Receive(f, g)`, `handler[h].payment`): with the fault
"share" the transactions of calls that have begun to pay may be named in any
proof.  `PaidService` promises what this leaves: the resource runs at most once
for a challenge that was handed out, after a payment is confirmed, and the
payment is that of the challenge unless a proof for it named another one
(`shared`).  It does not promise one payment per run.

`extractAccountKeys` (`x402/server.ts:83-99`) finds the keys of a message that has
`accountKeys`.  A `MessageV0` has `staticAccountKeys`, and V0 is what
`sendV0Transaction` sends: the calls in the constant `Versioned` are those whose
transaction comes back as one, and `TxVerified` refuses them although they are
confirmed (`AccountKeysFound`).  Run `x402_v0` shows what this means for a payment
made by the SDK's own client.

Left out: proofs that do not decode (they are answered without touching any
state), `hasNonce` (nothing calls it), the difference between `next()` returning
and throwing after the nonce is consumed.  Worth knowing, and in the model: a
proof that reaches another instance than the one that made the challenge, or the
same one after a restart, is refused and the payment is not recovered; the
client does not look at the expiry before it pays; `agentPull` may throw after
its transaction has landed, and then nothing is presented.  The comment at
`x402/server.ts:328` asks for a shared store to prevent replays across instances:
`AtMostOnce` holds without one, since an instance only serves nonces it issued;
what a shared store would add is that a proof can be served by any instance.  A
store of nonces would not tie payments to challenges either.

### Subscriptions

One merchant, one plan.  A call (`job[c]`, `pc[c]`) sends a transaction
(`tx[c]`), waits for it, then sends a request to the keeper (`request[c]`).
Transactions and requests live on when their call is rejected.  `Repair` is what
a caller does who was told that something failed: `registerBillingSchedule` or
`cancelBillingSchedule` by hand, one repair of a kind at a time.  The program's
answer to a wrong address or an inactive mandate is taken from its IDL and from
how the SDK uses it.  Whether the keeper refuses a DELETE for a schedule it does
not have is not known from the SDK: `StrictKeeper` is either.  The endpoint of
the keeper does not change.

### ConfigCache

`protocolConfigCache` and `protocolConfigPromise` are the two variables of the
closure.  A load bears the name of the call that started it.  `LoadReturns` is
the end of `loadProtocolConfig`, which assigns the cache whatever happened since
it began; `CatchResets` is the catch handler, which resets the promise variable
even when it holds another load's promise by then.  `since`, `known` and
`overlapped` are history, read by properties only.  The run of this module and of
`TransactionSender` is one, `MCClient`: they share no state, a behaviour is of one of
them, and the other rests at its initial state.

### TransactionSender

A call goes through `ensureRuntimeReady`, then `getOrCreateALT`, then
`signAndSend`, which it goes through twice if it creates the lookup table:
`kind[c]` says for which transaction.  Heights are relative: `life[c]` is the
number of blocks its blockhash can still be used for, `patience[c]` the number
until `lastValidBlockHeight` is past.  The node's height does not go back
between two requests; with a pool of nodes that lag by different amounts, a call
can be told "expired" too early, and `OutcomeIsTrue` would not hold.  The same is
assumed of `confirmTransaction`: it does not lose the notification of a
transaction that has landed.  Not modelled: `sendWithPriorityFee`, which no
method of the client calls.  (Its comment, `helius/provider.ts:78`, promises to
fall back to the standard connection when Helius fails; in fact the failure of
`createHelius` rejects it.)

### AgentMandates

One call of `validateAgentPull`, or of `canAfford` followed by the pull of the
paying fetch, is followed; calls meet only on the chain, and everything another
call can do to it is `AgentPull`, a pull that checks nothing first, as the
client's `agentPull` does.  `view["verify"]` holds what `verifyAgentMandate` reads
(`validateAgentPull` reads the same), `view["budget"]` what `canAfford`'s second,
concurrent `checkAgentBudget` reads; `view[k].now` is the time each takes first,
`later` the one taken for the cooldown.  `local` is the clock of the agent's
machine, `clock` the chain's, and neither follows the other: the promises hold for
a machine that is not ahead of the chain, and the properties say so.  They also say
"if the account has not changed": what others do between the check and the pull no
check can exclude.  `AgentProgram` is the program as its account and its errors
show it (6030 to 6045, 6060 of the IDL); that it resets its windows as
`computeResetWindow` does, and charges a pull to the day and to the service, is
taken from the SDK, which would otherwise preview something else.  Whether
`adjust_agent_mandate` keeps the counters of a service is left open.  An amount is
more than zero (error 6057).  Left out: the mandate each method reads after its
transaction, and `reclaimedAmount` and `drainedAmount`, which are the balance read
before it.

### BillingCycle

The billing of one mandate.  A keeper looks at the mandate and its approval
(`seen[k]`), builds one transaction from what it saw (`sent[k]`), and waits; a
transaction whose keeper gave up goes on as a member of `late`.  What each builder
reads a second time, and what it takes from its caller, is as in the code:
`buildExecutePullInstruction` fetches the mandate for the pending plan only,
`buildRequestBillingRecordInstruction` for the number of pulls only,
`buildRequestValidationInstruction` not at all.  The loop of a keeper is not in the
SDK; the module lets one act on what the SDK's checks tell it.  The program is its
refusals (by the numbers of `src/idl/vela_protocol.json`) and the seeds of its
requests.  6016 is taken to let a validation be requested again once the approval
does not cover the mandate any more.  A pull charges the amount of the old plan; a
plan change in force starts with the next period.  The cluster's clock and the
chain's are one; a keeper's may be ahead or behind by its `skew`.

### UsageReporting

Calls that report usage for one period of one mandate, perhaps not the same units.
The program lets one report in; a call that is told its transaction failed rejects
although it may land.  `Number()` in the body of the POST rounds above 2^53: the
module has its own `MaxSafeInteger`, above which odd numbers round.  A POST may be
carried out although its answer is lost.

### AgentWebhook

`hooks` are the webhooks at Helius; `registration` and `webhookId` are the promise
and the id in a client.  Listing and creating are two requests.  A payload is
delivered until the handler takes all of it; parsing comes before handling.

### Streams

One stream.  A transaction (`streamTxs`) is built from the stream of some moment
and lands at any later one, in any order, or never.  `AccruedNow` is `accruedNow`
and, by the fields it reads, what the program pays when it settles; pausing,
cancelling and a new rate settle first, as the token accounts of their instructions
show.

### Addresses, Instructions

An address is the program and the seeds it is derived from, so two are equal only
if they were derived alike.  `SeedsMatchIdl` compares every account a builder names
with the seeds of the interface file, taken from the same instruction's accounts
and arguments; `RefusalExplained` compares it with the state when the transaction
lands, after others have moved the counters, the mandate's plan and the cluster.

### AccountLayouts

An account has a kind, a version and a length.  A reader is the list of places its
running offset reads; `IdlPlaces` is where a serializer puts the fields of the
interface file.  `getSubscribablePlan` is two reads, between which a plan may be
created and either of which may fail.

### PlanChanges

A caller holds a mandate fetched earlier, is shown a preview, builds a transaction,
and it lands later; a pull may begin the next period in between.  Amounts are shown
as digits by `formatAmount` and read back by `parseAmount`.

## Runs

| run | instance | shows |
|---|---|---|
| `x402_faults` | 2 instances, 2 calls, 2 invocations, 2 nonces; replays, shared payments, restarts, lag, drops, clock set back | the invariants, the refinement of `PaidService`, what may burn a nonce, pruning |
| `x402_one_instance` | 1 instance, 2 calls, one of them with a V0 payment, 3 invocations; replays; fairness | a paid call presented in time is served unless its payment is V0; a refusal has a cause |
| `x402_v0` | 1 call, V0, no fault; fairness | violated: a paid call of the SDK's own client is never served |
| `subscriptions_faults` | 2 subscribers and the admin, 3 calls, 2 mandates, every fault | one mandate per call, losers have rivals, schedules are of mandates |
| `subscriptions_sync` | 4 calls about one mandate, strict keeper | chain and keeper agree once calls resolved or were repaired |
| `subscriptions_race` | 2 calls, lenient keeper, no fault | violated: a cancel overtakes the registration of the same mandate |
| `subscriptions_validate` | 1 call, no fault | violated: `validateSubscribe` does not see the subscription there is |
| `client` | config: 3 calls, 1 change; sender: 2 calls, blockhashes of 2 blocks, 2 looks for a table; fairness | sharing, freshness, staleness only after an overlap, retries; truth of outcomes, stable connection, existing tables; termination of both |
| `agent_mandates` | 1 call, 3 transactions of others, 3 ticks of each clock, windows of 2; 1 service | a yes is accepted, a no is right, previews come true, what `canAfford` leaves to chance |
| `billing` | 1 keeper, skews -1, 0, 1, 2 periods of length 1, 3 ticks, 1 fault, 1 change of the plan, with and without expiry; fairness | causes of refusals, nothing payable held back, completion |
| `sdk_parts` | the six parts of `MCSdk`, bounds below; fairness | what each part promises |
| `streams_uncapped` | `Streams` alone | violated: a stream without a cap cannot be built |

Why the bounds are enough.  In `X402` a violation of `AtMostOnce` needs two
invocations with one nonce, on one or two instances; two nonces let a second
challenge prune or disturb the first, and let one payment be named for both.
`x402_faults` has `Ttl` 1 and `MaxTime` 2: a challenge can be issued late, expire and
be pruned, and the clock can be set back before and after.  Its view
(`AnswersAside`) leaves out `answers`, the one variable that with replays no guard
and no property of that run reads.  The run with one instance has `Ttl` 2, three
ticks, and a third invocation, so that two copies of one proof overlap with
another call.  In
`Subscriptions` a race needs two creations and a loser's view of the winner; a
third call cancels or repairs; four calls about one mandate are a creation, a
cancellation and a repair of each.  In `ConfigCache` the hard schedule is an old
load, a refresh that replaces it, and a third call that sees what the two have
left.  In `TransactionSender` calls interact only through the table, the upgrade
and the slot; two calls show every order, and two blocks let a blockhash expire
before, while and after its height is asked for.  In `AgentMandates` three
transactions create a mandate, pull from it and lower its limits below what was
pulled, or change it between the reads and the pull; with windows of 2 and three
ticks a window ends before, during or after the check.  The one service of the
instance is always on the list; the proofs are about any list.

In `BillingCycle` two periods show that an approval, an offset or a record of the
first cannot serve the second; the program knows one keeper authority, so there is
one keeper, and transactions it gave up on act as its rival (the proofs are about
any number).  At `MaxTime` the clocks agree: the last tick stands for all the time
that follows, without which the end of the run would look like a keeper that never
finds a payment due.  `MCSdk` runs one part per behaviour, chosen in `Init`; the
others rest at one initial state, so the run is six runs, not their product.  Its
bounds: two calls that report 4 or 5 units around a `MaxSafeInteger` of 4, two
attempts, no, one or two tiers; two clients and three calls with two failures and
three payloads, one malformed after a good event; rates 1 and 2, a cap of 3 or none,
three ticks and three transactions of one stream (a settlement, a pause and an
update in every order, or two updates that were computed from the same stream);
four tables of plans, two clusters, one step of every counter; accounts of versions
0 to 3; three plans whose differences are no multiples of the period, two changes,
so that rounding can go both ways.

A `.cfg` that says `CHECK_DEADLOCK FALSE` does so because each call is made once
and the bounded system comes to rest.

### Fairness

`X402`: a proof that was presented is received, and an invocation gets its
answer; time passes on its own and need not.  The arrival is strongly fair, since
`Handlers` is the model's bound: requests that keep every invocation busy, now and
then, do not keep another one waiting on a real server.  `ConfigCache`: a request to the
node ends, and a continuation that is ready runs.  `TransactionSender`: blocks are produced, the Helius client is made
or is not, and the requests of a call are answered or fail; transactions need
not land.  `BillingCycle`: a keeper goes on while something is called for, what it
waits for lands, the cluster answers, time passes.  `MCSdk`: the calls of the part
that runs go on (a report's transaction lands or its wait ends, a registration gets
its answers, a payload is delivered again); the other parts need not move.  The event loop and the timeouts of HTTP clients justify all of them.
Nothing is assumed about users, wallets' other clients, the admin or faults.

## Proofs

Proved for every value of the constants allowed by the named assumptions.

* **`X402Proofs`**: `ServedAtMostOnce`, `IssuedIsUnserved`, `Implementation`
  (`X402` implements `PaidService`), `OnlyServiceBurns`, `RefusalsHaveCauses`,
  `CachesArePruned`; with payments named for other challenges, and any set of V0 ones.
  `AtMostOnce` is not inductive: that a nonce is served once follows from its being
  held as issued by one instance at most and by none once it was served
  (`IssuedUnserved`), and that a payment was confirmed from which call owns which
  nonce in which state, and which payment a verification may name (`Bookkeeping`,
  `Backed`).  The lemmas say what each cache operation leaves in the
  maps; the steps that touch no map are dealt with together (`QuietSteps`).
  `RefusalsHaveCauses` assumes one instance that is not restarted, a node that does
  not lag, a clock that is not set back and proofs that name their own payment
  (`OneInstance`); its invariant says that a
  challenge is answerable until it expires or is served (`Answerable`), which is
  `OnlyServiceBurns` from the other side, and that who presents has paid
  (`Presented`).  `CachesArePruned`: every way to change a map ends in one of its
  own prunings, and what is put in expires later than now (`ChangedIsPruned`), since
  an instance only consumes what it still holds as issued.
* **`SubscriptionsProofs`**: `MandatesHaveOneCall`, `LosersHaveRivals`,
  `SchedulesExist`, with every fault; `ChainAndKeeperAgree` with a strict keeper that
  answers.  The first three rest on where a call is, given its transaction and its
  request (`CallInOrder`), on what it is about (`CallIsAbout`), and on every mandate
  having one creator and, if cancelled, a canceller that landed.  The last adds that
  a mandate is posted by one call (`PostedOnce`), that a repair follows a rejection
  (`RepairsRejected`), and that a schedule, and its absence, have a cause among the
  requests carried out (`ScheduleHasCause`).
* **`ConfigCacheProofs`**: `FreshRefresh`, `NoStaleness`, `FailuresAreRetried`,
  `SharedLoads`.  The invariant adds where each call is (`Progress`), that the promise
  variable never holds a rejected promise (`PromiseUsable`), and that without an
  overlap there is one load in flight, the one in the variable, and nothing that can
  be handed out is older than a refresh that was fulfilled (`NewestWins`).
  `SharedLoads` counts: the loads in flight that are not the one in the variable are
  no more than the refreshes that could have dropped them; for finitely many calls.
* **`TransactionSenderProofs`**: `OutcomesAreTrue`, `ConnectionIsStable`,
  `TablesExist`, and of both parts of a client together `ClientInvariance` and
  `ClientTypeCorrect`.  The key is `life[c] <= patience[c]` while a call waits: the height
  was asked for after the blockhash, so patience cannot end first.
* **`AgentMandatesProofs`**: `ValidatedPullsAreAccepted`, `RefusalsAreRight`,
  `AffordableMeansRoom`, `PreviewsComeTrue`: every promise of the module.  The
  arithmetic is in lemmas about one counter and one limit: computing back from a
  clamped remainder decides like the sum it was clamped from (`ClampIsHarmless`,
  which needs amounts above zero), and what counts against a limit only falls
  until the next pull (`CountedLess`).  The invariant carries the verdict from the
  decision to the pull (`DecidedWell`) and that the last pull is not in the chain's
  future (`PulledBefore`), without which a cooldown of zero could still refuse.
* **`BillingCycleProofs`**: `RefusalsHaveCauses` and its converse `PayablesAreSeen`,
  for any number of keepers and clocks off by any amount.  They need that what a
  keeper saw is the past of the accounts (`SawThePast`): the counters it saw have only
  grown since, a mandate that is active now was active then, the approval is the one it
  saw or younger than its look; and that a transaction was built from a look that called
  for it (`BuiltFromLook`).  `Grows` says what no step undoes; both survive every step
  that only grows (`PastStays`, `BuiltStays`).  Then each number of the program's
  refusals is a case of its own; in the other direction each of the SDK's conditions is,
  given that none of the program's refusals holds (`PullLands`, `PayableLooks`).
* **`ChargesProofs`**, streams: `StreamsAreSafe`.  What was paid and what accrued is
  one sum (`Earned`); the lemmas say that it is monotone in time (`AccruedGrows`), that
  settling moves a part of it from one summand to the other, and that no operation of
  the program lets it shrink.
* **`ChargesProofs`**, plan changes: `ChangesCostWhatWasShown`, for any prices,
  period and times.  `ProrationSize` says that a proration is the exact amount
  truncated toward zero, less than a unit off at both signs; `ProrationShrinks`
  says that it moves toward zero as the period goes by.  The invariant: an offer is the
  preview of the mandate that was fetched (`ShownIsPreview`), a transaction was built
  from the offer (`BuiltFromOffer`), and the changes that landed have erred by less than
  a unit each (`RoundingIsBounded`, inductive with the other two).
* **`ChargesProofs`**, decimal strings: `ShownIsReadBack`, for any amount and any
  number of decimals.  `AmountsReadBack` is a lemma about the two functions: the zeros
  put in front, and those cut off at the end, do not change the value of the digits
  (`NumberOfPadded`, `NumberOfDigits`), and what is left is no finer than the decimals.
* **`SdkProofs`**, usage reports: `ReportingIsSafe`.  The invariant ties the phase of a
  call to what it knows of its transaction and to the attempts it has made.
* **`SdkProofs`**, webhooks: `WebhooksAreSafe`, for any clients, calls, orders of types
  and payloads.  Webhooks are counted against the answers that made them and the answers
  that were lost (`Numbered`); whoever creates has seen none that fits, so one that fits
  now has come since (`SawNoneFitting`).  Deliveries: an event has been handled as often
  as the next one, or once more while the delivery stands between them
  (`HandledInTurn`).
* **`SdkProofs`**, builders: `AddressesAlwaysAgree`, for any table of plans, clusters
  and bound of the counters.  An address is its seeds, so two that agree agree in their
  seeds (`PdaParts`).  The invariant says from which counters, cluster and plan each
  instruction was built (`SentWasRead`), how the mandate and the stream of the chain came
  to their addresses (`MandateIsSubscribed`, `StreamIsCreated`), and that everything
  after the first instruction of a transaction needs no seeds of its own
  (`OthersFollow`).  One lemma for each group of builders shows what it prepares
  (`Built`); then a refusal is traced to what moved, account by account
  (`RefusalsAreExplained`).
* **`SdkProofs`**, account layouts: `WrittenIsRead`.  A running offset is computed by
  hand once (`EndsAre`: the ends of the fields are the only solution of their
  recurrence) and then for each decoder and version; the theorem is about any set of
  versions.  The attempt found what the run had not: with a `ProtocolConfig` of 154
  bytes the hook program is read outside the account (below).
* **`SdkProofs`**, the composition: `SdkInvariance`, `SdkTypeCorrect`, `SdkIsSafe`,
  `SdkReadsBack`, `SdkCharges`.  `Init` of `MCSdk` implies that of every part, and every
  step is one of each part or leaves its variables alone (`PartsStep`), so the parts'
  invariants hold together (`SdkInv`) and the composition implements the parts'
  specifications without fairness.

Every invariant and every action property that a passing run checks is stated by a
theorem.  Model-checked only are the liveness properties (`PaidIsServed`, `CallsReturn`,
`CallsEnd`, `BillingCompletes`, `PartsFinish`), which need `ENABLED`, and the four
disagreements.

The assumptions are named in the modules.  Those that are more than types: the order in
which Helius lists the types of a webhook is one of `TypeOrders`, and these are all the
orders there are of what the SDK asked for (`TypeOrdersAssumption`); there is a webhook at
Helius to begin with, so `MaxHooks` is not zero (`WebhookAssumption`); a plan is flat or
by usage (`IxAssumption`).

The library's induction theorems cannot be used for the recursive functions
(`Number`, `Digits`, `EndOf`), since they take an operator.  Where induction is needed it
is made from the least element of a set of counterexamples (`LeastNumber`, from
`WFMin`): `ValuesAre`, `ValuesExist`, `DigitsAgree`, `DigitsExistUpTo`, `EndsAre`.

## Plan

1. Done: x402, subscriptions, config cache, transaction sender, agent mandates,
   billing cycle, usage reports, webhooks, streams, addresses and builders, account
   layouts, plan changes; their safety properties proved.
2. Keeper endpoints that change, in `Subscriptions`: a registration and a
   cancellation then go to two keepers.
3. Proofs: `NonceCache` against a map without pruning, as a refinement of its own;
   the decoders that rename what Anchor decoded, if they are ever modelled.

## Behaviour worth knowing

The four disagreements the runs show are in `PROJECT.json` under "findings".  Met
while modelling, and in the models where they matter:

* `update_mandate_plan` names the accounts of the protocol's mint
  (`instructions/update-mandate-plan.ts:54`), although a plan may bill in another
  (`README.md:62`); `subscribe` takes the protocol's mint for a usage plan and for a
  plan it does not fetch (`subscribe.ts:64`); `wrapAndSubscribe` funds the account of the
  protocol's mint and subscribes with the plan's.  `AssumesMint` in `Instructions`
  names these cases.
* `cancel` and `adminCancel` burn the credential of the plan the mandate has now
  (`cancel.ts:67`), which after a plan change need not be the one that was minted
  (`AssumesCredential`).
* A paid nonce that expires while `getTransaction` is awaited is refused with 409
  "already used" (`x402/server.ts:398`).
* A cancel resolves without telling the keeper when `KeeperConfig` cannot be read
  (`client.ts:692`); `SkipKeeper` is that step.
* Two first calls of a client create two lookup tables (`alt/lookup-table.ts:43`); a
  failed Helius client rejects every later call (`client.ts:459`).
* `reclaimedAmount` and `drainedAmount` are balances read before the transaction
  (`client.ts:1030`).
* One confirmed payment passes verification for as many fresh challenges as it is
  named for (`x402/server.ts:260-326`); the fault "share" of `X402`, and what
  `PaidService` leaves out.
* `extractAccountKeys` finds no keys in any V0 message, with or without lookup tables
  (`x402/server.ts:84`): the finding of `x402_v0`.
* `parseAgentWebhookPayload` decodes with the interface file as it is, whose fields are
  named in snake case (`helius/webhooks.ts:260`), while `normalizeAgentEvent` reads them in
  camel case; a field that is not found by its name throws ("Missing event numeric
  field", `webhooks.ts:119`).  The tests put a `parseLogs` of their own in place, with
  camel case.  Payloads are abstract in `AgentWebhook`: what it says of handling
  (`HandledInOrder`, `EventsHandled`) is said of payloads that parse.
* The stream builders read the hook program from bytes 154 to 186 of `ProtocolConfig`
  (`execute-stream.ts:42`, `pause-stream.ts:34`): the one asks for 154 bytes
  (`execute-stream.ts:35`), the other for none.  `subarray` gives fewer than 32 bytes of
  an account in between, and a wrong key is made of them.  `ReadsInside` excepts this
  field; everything else that is read lies inside what is asked for.
* `deserializeMandate` and `deserializeMandateAccount` differ on a mandate of version
  0 and on one without a plan; `DecodersAgree` says so.
* A sequence of plan changes gains or loses less than one unit a change by
  truncation (`RoundingIsBounded`); a preview shows `ScheduledChange` with a date that
  the instruction does not carry.

## Not modelled

Error tables, events and inspection are tables without state.  The CLI, the browser
entry point, portal sessions and the dashboard make one call or one request and keep
nothing; `cli/commands/simulate.ts` builds instructions of a program older than the
interface file.  `resolveTokenConfig` and `getEnabledTokens` are one read each.
Decoders that only rename the fields Anchor decoded are left out of
`AccountLayouts`; signer and writable flags, and amounts, of `Instructions`.  The
endpoint of the keeper does not change in `Subscriptions`.  Encryption and the Arcium
computation are libraries.  The loop of a keeper, the keeper's server and the
program are not in `src/src`: they are modelled as it uses them and marked external.
The components and the reason for each are listed in `PROJECT.json`.
