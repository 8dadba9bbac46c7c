# Verification of the Queen Royal financial gateway

TLA+ models, TLC runs and TLAPS proofs for the money paths of
`src/apps/financial-gateway`. The gateway holds no balance: the ledger is the
external True Engine, which is idempotent on a deterministic
`operator_transaction_id`. What the gateway owns is the *protocol* around that
call: an intent journal in Postgres, an event broker on Redis Streams, and the
handlers and consumers that race over both.

## 1. Inventory

| Component | State it keeps | Operations | Talks to |
|---|---|---|---|
| Intent journal (`repositories/engine-journal`, `lib/db/transaction`) | one row per key: type, status, attempts, payload | create if absent, mark terminal, claim, update by id, resurrect, delete | every service |
| Reconcile broker (`lib/reconcile-queue`) | stream with pending list, scheduled sorted set, dead letter stream | publish, schedule, unschedule, pull (drains due members), reclaim, ack, dead-letter | handlers (producers), reconciler (consumer) |
| Reconciler (`services/reconciliation`, `workers/reconciler`) | what a consumer has in hand | claim the row, work by type, write a disposition, settle the message | journal, broker, engine, PSP |
| Cashier deposits (`store`, `deposit`, `psp-webhook` services) | journal row of type DEPOSIT, payment intent at the PSP | purchase, success and failure webhook, poll, credit | journal, broker, engine, PSP |
| Admin replay (`routes/admin`) | none of its own | ABANDONED -> PENDING and publish; undo if the publish fails | journal, broker |
| Retention (`workers/retention.worker`) | timer, in-flight sweep | delete settled rows past their age | journal |
| Provider spins (`services/game-adapter`) | rows `bet:`, `win:`, `rollback:` | spin, rollback; win retry and compensation in the reconciler | journal, broker, engine |
| Player spins (`services/spin`) | row `spin:` of type BET | one atomic spin at the engine | journal, broker, engine |
| Redemptions (`redemption*`, `routes/admin`, `lib/redemption-*`) | RedemptionRequest row, `redeem:` and `refund:` rows, its own stream | request under caps, approve or reject, payout, refund | journal, broker, engine, payout rail |
| KYC (`kyc*`) | verification rows, user status, event log | open a case, decision event, relay to the engine | KYC provider, engine |
| Promotional grants (`amoe`, `daily-bonus`) | AmoeGrant and DailyBonusClaim rows, unique per user and period | claim, replay an attempt | journal, broker, engine |
| Sessions, auth, webhook nonces, circuit breaker | Redis keys; breaker counters | issue, rotate, revoke; admit a nonce; trip, half-open, close | Redis |
| Pure policies (`money`, `redemption-policy`, `daily-bonus-policy`, `geo`) | none | functions | the services above |
| Web client (`src/src/lib`) | attempt tokens in browser storage | create, reuse and clear intents | gateway |

`.agents/` (vendored skills), `infra/`, `e2e/` and the rendering of the web
client carry no protocol and are left aside.

**Hard behaviours.** Nothing is transactional across Postgres, Redis, the PSP
and the engine. A claim releases its row lock before the slow call, so what a
consumer writes afterwards is based on an old read; a slow consumer's message
is handed to a peer; webhooks are lost, duplicated and reordered; an engine
call that timed out may commit later; enqueues from handlers are best-effort;
processes crash between any two steps; attempts and redeliveries are separate
budgets. Section "hazards" of `PROJECT.json` lists each at its line.

**What makes each part correct.** Journal: a row is honest (FAILED deposits are
paid, SUCCEEDED ones are credited) whoever wrote last. Broker and reconciler: a
key that needs work is in a queue, in somebody's hand or in front of an
operator, and is resolved. Deposits: a capture has a row that can settle it, a credit
always rests on the row's own capture, and it happens once. Spins: nothing moves without
its debit, and a compensated win has had its bet reversed. Redemptions: a payout follows a debit,
a refund excludes a payout. KYC: the newest decision wins. Grants: one per
period. Sessions: a refresh token works once.

## 2. Modules

| Module | Models | State |
|---|---|---|
| `Intents` | the key space shared by all | - |
| `EngineJournal` | one operator per statement on `engine_request_log` | `row` |
| `ReconcileQueue` | `RedisStreamQueue` | `schedule`, `entries`, `dlq` |
| `Reconciler` | the listener and the life of one message | `con` |
| `Deposit` | purchase, webhook, `reconcileDeposit`, replay, retention; PSP and engine as environment | `psp charge declines issued credited inflight req hook replaying` |
| `DepositLedger` | abstract: pay, credit once, settle | `paid credited settled` |
| `TrueEngine` | the engine as its callers see it: commit, refuse, or no answer and perhaps a late commit | `ledger inflight` |
| `ProviderSpin` | the spin and rollback webhooks, `finalizeReplay`, `reconcileWin`, `compensateWin`, replay, retention | `retryable call` |
| `Orders` | the protocol shared by redemption requests, AMOE claims and daily bonuses, with the reconciler's replay | `order call` |
| `Redemption` | review, payout workers and their stream, the rail, the refund, on top of `Orders` | `rail sent paySchedule payEntries payDlq agent` |
| `MoneyOut` | abstract: debit, then pay out or give back, then report | `debited paid returned reported` |
| `KycDecision` | opening cases, the decision webhook, the relay | `verification kycStatus outcome engineKyc handler` |
| `MCDeposit`, `MCProviderSpin`, `MCRedemption`, `MCKycDecision` | keys, data, symmetry and the bounds of a run for TLC | - |
| `ReconcilerProofs` | what each statement of the journal and each step of the listener may write: lemmas for every saga | - |
| `DepositProofs`, `SpinProofs`, `OrdersProofs`, `RedemptionProofs`, `KycProofs` | the theorems | - |
| `DepositRecoveryProofs`, `SpinRecoveryProofs` | that no deposit and no win is dropped without faults | - |

`Reconciler` EXTENDS `EngineJournal` and `ReconcileQueue`; `Deposit`,
`ProviderSpin` and `Orders` EXTEND `Reconciler` and supply what depends on the
intent type: the claim's continuation and the work. `ProviderSpin` and `Orders`
also EXTEND `TrueEngine`; `Deposit` has an engine of its own, because there a
credit carries the intent it was charged on. `Redemption` EXTENDS `Orders` and
composes it with a second instance of `ReconcileQueue`, the redemption stream,
which runs the same class of broker. The sagas share the reconciler's code and no
row, so they are checked apart.

**Reading the models.** Each process is a record with a `pc`; one action is one
database statement, one broker call or one external call of the code, so every
`await` is an interleaving point. `con[c].pc` runs through
`claim -> poll/call -> succeed/fail/abandon -> retry/park/ack`, the path of
`handleReconcileMessage` around `reconcileByKey`; a win that is given up takes
`lookup -> journal -> reverse -> reversed -> compensate` (`compensateWin`), or
`lost`/`refused` when the reversal fails. `req[r].pc` runs through
`open -> journal -> backstop -> reply` (`purchasePackage`), `hook[h].pc` through
`call -> succeed/fail -> publish/cancel` (`handlePspWebhookEvent`), and
`call[h].pc` through `journal -> call -> done/lost/refused/already -> publish`,
once for the bet and once more for its win (`processProviderSpin`), or once for
the reversal (`processProviderRollback`). A webhook's
delivery and its first read of the row are one step, because nothing is written
between them. In `Orders`,
`call[h].pc` runs through `insert -> journal -> call -> done/lost/refused ->
accept/refuse/publish` (`requestRedemption`, `claimAmoeGrant`,
`claimDailyBonus`): `order[k]` is the row of the service's own table and
`order[k].uses` the values it occupies in that table's unique indexes, which are
the only cap. In `Redemption`, an operator's `agent[a].pc` goes through
`publish -> undo` or into the refund, and a worker's through
`read -> claim/retrieve -> send -> paid/refund -> retry/park/ack`
(`handleRedemptionMessage` around `advanceRedemption`); `refund -> journal ->
credit -> credited/uncredited -> mark` is `refundRedemption`, for both of its
callers. `CompareAndSet` is `updateMany` on id and status. In `KycDecision`,
`handler[h].pc` runs through `read -> apply -> relay -> finish`, after the insert
that claims the event. `MarkTerminal` is the guarded settle of the journal repository,
`Overwrite` the unguarded update by id: the difference is what most of the races
are about.

**Abstractions.** Amounts are a member of `Prices`; a package is its price. The
identity bridge, the KYC gate and the cross-player guard are taken as passed:
they refuse before anything is written. A payment intent at the PSP is a pair of
account and attempt, from which the code derives its idempotency key; which intent
a row names follows from its owner. In `ProviderSpin` and `Orders` a payload is one value,
because a replay sends what was journaled; the HTTP answer to the provider is not
state, so "put off" and "void" are the predicates `BetInFlight` and
`TakenForUndebited` over the row it is read from; a retryable refusal of the
engine counts as a timeout, which it is told from only in the log; the
operator's replay is one step (its two halves are apart in `Deposit`). A
delivery of a provider webhook is handled once: a redelivery is another member of
`Calls`. Deadlines are abstracted:
a scheduled member may be due at any time and a pending entry may be idle long
enough at any time, so every ordering of the real clocks is among the model's.
The one timing assumption is the retention sweep's: its age is days while a
handler lives seconds, so it deletes no row a process is working on. In
`Orders` a row left by a handler keeps its index values for good, as in the
tables; the policies that refuse before anything is written are left out, the
draw of a bonus is data, and the operator's replay is one step that a crash may
cut in two. The operators of `Redemption` read a row and write it with a
compare-and-set on the same status, so the read is no step of its own. In
`KycDecision` the event's identity, case, subject, verdict and time are constants
of the instance: TLC takes one difficult set of them, the proof any. An event may
name no player, and is then applied to the owner of its case (`MayName`), and may
carry no time, and is then decided at whatever the clock shows when it is handled
(`TimesOf`). A batch is
handled one message at a time; a message that waits in a batch behaves like one
held by a slow consumer. `entries` merges the stream and the pending list: a
count of 0 is an unread entry. `dlq` only grows, as in the code, where nothing
removes from the dead letter stream.

**Bounds.** `Keys`, `Players`, `Requests`, `Hooks`, `Rounds`, `Winning`,
`Calls`, `Consumers`, `Prices`, `Redemptions`, `Periods`, `Attempts`, `Operators`,
`Workers`, `Events`, `Times` and `Handlers` are the sets of a run. `Messages` and `PayMessages` bound the
stream entries alive at once: a publish waits for a free id, which delays it and
loses nothing. `MaxAttempts` and `MaxDeliveries` are the code's budgets (10 and
5), small in the runs. `Faults` names the kinds of fault a run allows: `crash`,
`broker` (a handler's best-effort call fails), `infra` (a consumer's database or
broker call throws), `decline` (a declined payment is confirmed later).

## 3. Runs

| Run | Question | Instance | Expected |
|---|---|---|---|
| `deposit_race` | Two accounts present one attempt, or one retries it, and two consumers share a message, crash and throw: do `TypeOK` (and with it the attempt budget), `FailedMeansPaid`, `SettledIsCredited`, `SoleCaptureHasItsRow` and `CreditsOnOwnCapture` hold, and is `DepositLedger` implemented (`LedgerSpec`)? | 2 players, 2 requests, 1 webhook, 2 consumers, 2 attempts, every fault, two bounds; 0.8 M states | pass |
| `deposit_recovery` | Without faults, but with lost webhooks, timeouts and stolen messages, is captured money never dropped (`NoSilentDrop`) and always resolved (`CaptureIsResolved`)? | 2 consumers, 2 attempts, fair; 0.3 M states | pass |
| `deposit_dropped` | Does `NoSilentDrop` survive a refused backstop? | fault broker | violated |
| `deposit_orphan` | Has every captured payment a row that can settle it (`CaptureHasARow`)? | 2 players, 2 requests, no fault | violated |
| `deposit_amount` | Are the credited coins worth what was charged (`CreditMatchesCharge`)? | 2 prices | violated |
| `spin_race` | Do two deliveries of a round racing two consumers keep `TypeOK`, and with it the attempt budget, and the order of the movements: nothing before its debit (`MovesFollowDebit`), no settled row outside the ledger (`SettledIsCommitted`), no compensated win whose bet was kept (`CompensatedIsReversed`)? | 2 deliveries (spin and spin, spin and rollback, rollback and rollback), 2 consumers, 1 attempt, faults crash, broker and infra; 0.6 M states | pass |
| `spin_recovery` | Without faults other than lost answers and refusals, is a journaled win never dropped (`NoWinDropped`) and in the end paid, reversed or shown (`WinIsResolved`)? | 1 delivery, 2 consumers, 2 attempts, fair; 41 K states | pass |
| `spin_deferral` | Does the bet a rollback waits for settle (`DeferralEnds`)? | 1 delivery, 2 consumers, 2 attempts, no fault, fair | violated |
| `spin_void` | Is a bet whose rollback is answered as void really undebited (`VoidIsUndebited`)? | 1 delivery, 1 consumer | violated |
| `redemption_race` | Do two requests of one redemption, or two claims of one player, racing with the reconciler, an operator and two payout workers keep the invariants of orders (`TypeOK`, `SettledIsCommitted`, `ReceiptIsCommitted`, `RefusedIsNotMade`, `OneCreditPerPeriod`) and of money out (`MoneyOutFollowsDebit`, `PaidExcludesRefund`, `RefundIsNotReplayed`, `OutcomeIsTrue`, `ClaimedNeverReturns`), and implement `MoneyOut` (`MoneyOutSpec`)? | 2 calls, 1 redemption, 2 periods, 2 attempt tokens, 1 consumer, 1 operator, 2 workers, 2 attempts, 2 deliveries, faults crash, broker and infra; 0.8 M states | pass |
| `redemption_stranded` | Does a redemption whose debit committed reach review (`DebitReachesReview`)? | 1 call, no fault but a lost answer, fair | violated |
| `kyc_stale` | Does the newest decision of a case stand (`NewestDecisionStands`)? | 2 players, 3 cases, 5 events, 3 clock times, 2 deliveries | violated |

One key is enough where the properties relate the parties of one intent: keys
share only the stream, whose entries are independent, and the proofs hold for
any number of keys. Two players are the least with which an attempt can be
contended; two consumers the least with which a message can be stolen; one
webhook next to two consumers and two requests gives five writers to one row,
and a repeated delivery is a second use of the same slot. Two attempts separate
"retry" from "last try". Two constraints of `MCDeposit` cut the product of
independent parts. `TwoAtATime`: of the requests, webhooks and consumers, two at a
time are at work, which every race the properties speak of needs and no more;
customers, late commits, replays and the sweep come on top. `OneRaceAtATime`: while
both accounts have opened an intent, one webhook or consumer is at work at a time
and the row is claimed once, so the race for the attempt and the race for the row
are explored apart. `DepositProofs` proves the same properties without either
bound. One round has three keys (bet, win, rollback)
and two deliveries suffice for every pair of webhooks; one attempt in
`spin_race` takes the win to its compensation in the least number of steps,
which is what the race is about, while two consumers and a handler write the
same three rows. `spin_recovery` gives its states to the two consumers and two
attempts on which a win may get lost, and one delivery; `WinsAreNotDropped` has
any number of each. In `redemption_race` two
calls are the least that race for an index value, and one refund anchor has two
possible callers: the operator who rejects and the worker the rail refuses; two
workers are needed for a message to be reclaimed from a slow one. Two constraints
of `MCRedemption` cut the product of independent parts. `OneKindOfOrder`: the
calls of one behaviour are all of the redemption or all claims, which share no
row. `RequestsBeforeReview`: both requests have begun when the order leaves
REQUESTED; one that begins later meets a settled journal row or a taken order and
does nothing. `RedemptionProofs` proves the same properties without either bound.
The runs disable the deadlock check because the system may
legitimately stop: all attempts settled and swept, no customer.

**Fairness** (`deposit_recovery`, `spin_recovery`, `spin_deferral` and
`redemption_stranded`). Weak fairness of a
consumer that has something in hand and of a webhook handler that has started:
the Node event loop runs them. Strong fairness of pulling each message and
draining each due member (the listener's cycle visits reclaim, drain and read in
turn and passes over none), of the claim of a deposit (a row lock is held for an
instant; the claims of a row do not collide forever), and of a publish by an
operator or a spin handler (which in the model may have to wait for a free entry
id). `spin_recovery` needs no fairness of the claim, though two consumers contend
for the rows: one that finds the row locked skips it and acknowledges, and the
peer that holds the lock goes on. Customers, the PSP's
deliveries, operators and the sweep are not fair: every webhook may be lost.
`FairSpec` of `Redemption` asks the same of the requests and of the reconciler,
so the counterexample of `redemption_stranded` is one in which everybody who could
act on the order has done so.

**The outside.** The payout rail follows `lib/payouts/types.ts`: at most one
payout per redemption id, a later request under the id meets the first, a definite
no is final, and a request without an answer may arrive at any later time. The
True Engine commits a key once, and may do so after its caller gave up. The KYC
provider keeps one open case per player and delivers any event any number of
times, in any order.

## 4. Findings

* `spin_deferral`: `markFailed` and `setStatus` update by id, whatever the status
  is by then, although the journal's comment promises that a final status never
  regresses. A consumer that is slow with a bet writes FAILED and retryable over
  the final status its peer has written with the last attempt. Nobody may claim
  the row again, so it stays as it is, and the rollback webhook, which takes it
  for in flight, answers "retry shortly" for ever. The same race on a deposit or a
  win drops nothing (`NoSilentDrop`, `NoWinDropped` and the ledger properties are
  proved with it): whoever spends the last attempt leaves the money moved, or the
  key on an operator's list.
* `deposit_dropped`: the comment on `enqueueReconcile` says a broker hiccup only
  delays recovery. No path scans the table, so a refused backstop plus a lost
  webhook strands a captured deposit as PENDING, out of everyone's sight.
* `deposit_orphan`: the comment on `purchasePackage` says no confirmed capture can
  exist without a journal row to settle it, because the secret is returned after
  the intent is journaled. The insert is a no-op when another account's row is
  there, its outcome is not looked at, and the secret is returned all the same. Of
  two accounts that present one attempt before either has journaled, the second
  can pay for an intent no row names: the webhook refuses it and the reconciler
  polls the other one. What does hold is `SoleCaptureHasItsRow`, for an attempt
  one account alone presents, and `CreditsOnOwnCapture`: the payment is stranded,
  never credited to the other account.
* `deposit_amount`: the webhook refuses to credit on an amount mismatch; the
  polling path does not compare the amounts.
* `spin_void`: a bet whose answers were lost until its attempts ran out is
  ABANDONED although it may have committed, or may still; the rollback webhook
  takes ABANDONED for "never debited" and answers success.
* `redemption_stranded`: a debit that got no answer leaves the redemption
  REQUESTED, and the comment says the reconciler resolves it. The reconciler
  settles the journal row and never writes the redemption, no operator route
  accepts a REQUESTED one, and a retry of the client is refused as settled: the
  player is debited and nobody can pay out or give back. AMOE claims and daily
  bonuses make the same promise over the same protocol.
* `kyc_stale`: the staleness check compares with a row read earlier and the write
  is unconditional, so two decisions handled at once leave whichever was written
  last: an older approval over a newer rejection.

## 5. Proofs

`DepositProofs` proves, for every set of keys, players, prices, processes and
stream entries, every budget and every combination of faults:
`Spec => []TypeOK`, `[]FailedMeansPaid`, `[]SettledIsCredited`,
`[]SoleCaptureHasItsRow`, the action property `CreditsOnOwnCapture`, and
`Spec => LedgerSpec`, the refinement of `DepositLedger`.

The journal's invariants are not inductive, because they say nothing of what the
next writer knows. `IInv` adds it: a consumer or webhook that is about to credit,
or to write FAILED, works on a paid deposit; one about to write SUCCEEDED works
on a credited key; a credit in flight was sent for a paid deposit; a returned
client secret has a row or a credited key. The argument is monotonicity: captures
and credits are never undone, and a row keeps its instruction until the sweep
(`RowsStay`, `CapturesStay`, `Grows`). So each process's knowledge survives the
steps of all others (`ConsumerStays`, `HookStays`, ...), `Rebuild` puts the
invariant of the next state together from the parts a step touches, and each
action only has to justify its own part (`PurchaseSafe`, `HookSafe`,
`ConsumerSafe`, ...). The sweep, the one action that takes a row back, is handled
apart (`SweepSafe`). `IInv` gives a captured intent *some* row under its key; that
it is its own is a second invariant, `OwnerOpened`: the intent a row names has been
opened at the PSP. A row comes only from a request that has opened its intent
(`RowsComeFromRequests`, `JournalersHaveOpened`), no other statement changes whose
row it is (`StatementsKeepOwners`), and an intent stays opened (`OpensStay`); so
when no other account has opened one, the row's intent is the captured one. The
refinement classifies every step as one that commits a
credit (`CreditingStep`), captures one intent, or writes one row (`StepShape`).

`DepositRecoveryProofs` proves zero transaction loss: `Faults = {}` implies
`Spec => []NoSilentDrop`, which speaks of the intent a row names (the capture of an
account that lost a race for its attempt is outside it, see `deposit_orphan`), for any number of lost and repeated webhooks, lost and
late answers of the engine, operators' replays, and consumers that steal each
other's messages. `NoSilentDrop` is far from inductive, since it is always the
*reason* for letting go of a key that makes it safe to do so. `RecoveryInv`, on top
of the `IInv` of `DepositProofs`, has four parts:

* `MessagesOK`: what is still in the stream under the id a consumer holds is a
  message about the key it works on. So the message it acknowledges is its own.
* `BudgetOK`: a row whose attempts are spent is in the dead letter list, credited,
  or in the hands of the consumer that spent the last one (`LastTry`). So a
  consumer may skip such a row although it acknowledges the key's only message.
* `HookAware`: a webhook that takes a backstop off the schedule knows that nothing
  is owed (`Dead`): the deposit is credited, or its intent declined, neither of
  which is undone without faults.
* `FlowOK`: once a client has a secret to pay with, and until nothing is owed or an
  operator sees the key, something carries it (`Carried`): the schedule, the
  stream, a consumer, a webhook or a replay.

The lemmas at the end of `ReconcilerProofs` say, for any saga, which keys a step of
the listener uncovers and why (`ListenerCovers`, `LetsGo`) and who spends an
attempt (`ClaimSpends`, `ListenerTries`, `WritesSpendNothing`). The hypothesis
cannot be weakened: on the instance of `deposit_recovery` TLC breaks
`NoSilentDrop` with any one of `crash`, `broker`, `infra` and `decline` allowed
alone (`deposit_dropped` is the run of `broker`).

`SpinProofs` proves, for every set of rounds, deliveries, consumers and entries,
every budget and every combination of faults: `Spec => []TypeOK`,
`[]SettledIsCommitted`, `[]MovesFollowDebit` and `[]CompensatedIsReversed`. Here,
too, the rows say nothing of the requests under way. `IInv` adds: whoever holds a
win or a rollback holds it for a bet in the ledger (`Debited`); whoever is about
to record a movement, or a compensation, has seen it commit (`ConsumerOK`,
`CallOK`); a request under way follows its debit (`MoveOK`). The ledger never
takes a movement back, so each process's knowledge survives the others' steps, and
`Rebuild` again reduces an action to what it touches. `MovesFollowDebit` needs all
of it: a win in the ledger may have been sent by a consumer that read a row
written by a handler that has since crashed.

`SpinRecoveryProofs` proves that `Faults = {}` implies `Spec => []NoWinDropped`, with
the same lemmas of `ReconcilerProofs` and a `RecoveryInv` of the same build. A win
has no backstop, so what carries it before its failure is published is the
delivery that journaled it (`CallCarries`), and a consumer may also let go of it
because the bet is given back: `Settled` is the win or the reversal in the ledger.
Again `crash`, `broker` and `infra` each break it alone. What the theorem says of a
slow reconciler, which the finding `spin_deferral` is about, is that its write may
mislead whoever reads the row, but drops no win.

`OrdersProofs` and `RedemptionProofs` prove, for every set of redemptions,
periods, attempts, requests, operators, workers and entries, every budget and
every combination of faults, each property `redemption_race` checks. The
invariant is `IInv == OInv /\ PInv`. `OInv` is about orders, and its heart is a
hand-over: while a request holds its order nobody else drives it (`CallOK`), so
the request knows what became of the movement; the reconciler drives an order
only after its request let go of it (`Driven(k) => HandedOver(k)`), and a row
that was handed over is never accepted or refused by a request again. This is why
a refused order was not made, why a receipt names a movement, and, since the key
of a refund is never handed over, why no refund is replayed as a second debit.
`PInv` is about money out: `Grounds` for a refund (a rejection, or the rail's
definite no) and a claim for payout exclude each other and neither is taken back
(`NothingUndone`), so an agent that decided on an old read is still right when it
acts (`AgentOK`). `OrdersStepSafe` shows that a step of the orders changes only
what the agents do not rely on (`OrdersOnly`), and `OrdersKeepRedemptions` uses
nothing else of it; the agents' steps are taken one by one.

`ImplementsMoneyOut` is the refinement of `MoneyOut`. A step commits one movement,
or changes one redemption at the rail, or one order (`Shape`, by `OrdersShape` and
`AgentsShape`), so it is at most one step of the promise; that this one is enabled
is what `MoneyOutFollowsDebit`, `PaidExcludesRefund` and `OutcomeIsTrue` say of the
state it leads to, and that nothing is unsaid is `NothingUndone`.

`KycProofs` proves that a player is VERIFIED only by a recorded approval of a case
opened for them, and never by one that names somebody else
(`VerifiedWasApproved`), and that an event on record as approved has reached the
engine (`ApprovalIsHeard`), for every provider that gives a case an owner and an
event a case and, perhaps, a time (`Provider`). An approval that names nobody
counts: the code compares the subject only when there is one. Both hold in
spite of `kyc_stale`, because neither speaks of the order of decisions.

`ReconcilerProofs` holds what the sagas rest on: a statement writes one row and only
the statuses it names (`CreateWrites`, `StatusWrites`, `ClaimWrites`,
`ReplayWrites`), a broker call moves no row, and a step of the listener either
leaves the journal alone or writes the disposition the work came to
(`ListenerShape`).

Assumptions: `None` is no key and no row, `Keys` are the three movements of each
round and `Winning` is among the rounds (`ProviderSpin`), the budgets are
positive naturals, `Faults` is among the fault kinds; `Keys` are the orders and the
refunds, and operators are no workers (`Orders`, `Redemption`). TLC evaluates them
in every run. `Provider` is a hypothesis of the theorems of `KycProofs`.

Model-checked only: `CaptureIsResolved` and `WinIsResolved`, liveness under
fairness, which is out of the prover's reach (`NoSilentDrop` and `NoWinDropped` are
their proved safety halves). Every other property of a passing run is proved as
well, and the two invariants of `KycProofs` are proved only.

## 6. Not modelled, and open points

Modelled: the journal, the broker, the reconciler, deposits, provider spins,
redemptions with their review, payout and refund, promotional claims, and KYC
decisions. Not modelled, with the reason:

* Player spins: their protocol is the one of `Orders` without a row of its own.
  What is particular to them, a payload the reconciler's schema refuses, is about
  fields the models abstract.
* Redemption caps, grant and KYC policies, money and calendars: pure functions
  over decimal strings, days and settings, which unit tests reach. The protocols
  hold whatever they answer. The race of two requests under one cap is a hazard
  the engine decides under its lock.
* KYC documents and upload URLs: rows no decision depends on.
* Sessions, authentication, nonces: small two-call races on Redis keys next to
  cryptography; listed as hazards.
* The circuit breaker: to its callers an open breaker is a call without an answer,
  which every model allows at any time.
* The web client: the models let clients repeat, abandon and rename attempts at
  will.
* HTTP routing, configuration, logging, metrics, cryptography and token formats,
  vendored and generated code, rendering.

Known of the code, and no property of a run because no code acts on it:

* A payout the rail reports as submitted is acknowledged and never polled again;
  the worker's header has it reach PAID once the rail settles.
* A refund without an answer stays FAILED in the journal under a CRITICAL log
  line; nothing retries it.
* An approval that crashes before its publish leaves an APPROVED redemption that
  neither approve nor reject accepts.
* A relay of a KYC approval that failed is not repeated: the provider's
  redelivery is absorbed by the event barrier.
* A message retried by the payout worker is published anew, so its delivery count
  starts again, and the budget after which the comment in `dispatchPayout` has it
  dead-lettered is spent only by redeliveries.
* `NoSilentDrop` does not hold under crashes (a claim spent before the work, a
  backstop between two Redis calls, a replay between two writes), nor
  `NoWinDropped` (a win journaled and not yet published).

Worth doing next: an abstract specification of a provider round (bet, then win or
reversal) and of the orders' hand-over, refined as `DepositLedger` and `MoneyOut`
are; and a bound on what a recovery costs, the number of claims of a key between
two of an operator's replays.
