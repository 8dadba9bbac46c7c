------------------------------- MODULE Deposit -------------------------------
(***************************************************************************)
(* Money in: the asynchronous deposit saga of the cashier.                 *)
(*                                                                         *)
(* A purchase request opens a payment intent at the PSP, journals the      *)
(* deposit, schedules a backstop and returns the client secret; none of    *)
(* that moves money.  The customer confirms at the PSP, which captures and *)
(* fires webhooks; a webhook handler credits the True Engine and settles   *)
(* the row.  A lost webhook is made good by the reconciler, which polls    *)
(* the PSP.  An operator may replay an abandoned deposit, and a retention  *)
(* sweep deletes settled rows.                                             *)
(*                                                                         *)
(* A key is the anchor deposit:<attempt> of one purchase attempt.  The PSP *)
(* idempotency key hashes player and attempt, so an intent is identified   *)
(* with the pair <<player, key>>.                                          *)
(***************************************************************************)
EXTENDS Reconciler

CONSTANTS
    Players,   \* players the identity bridge and the KYC gate let through
    Prices,    \* package prices (a package is identified with its price)
    Requests,  \* concurrent purchase requests
    Hooks      \* concurrent webhook deliveries

VARIABLES
    psp,       \* psp[i]: state of payment intent i at the PSP
    charge,    \* charge[i]: the price intent i was opened with
    declines,  \* intents a payment_failed event was emitted for
    issued,    \* intents whose client secret was returned to the customer
    credited,  \* keys the True Engine has committed a credit for
    inflight,  \* keys whose credit was sent and timed out: may commit yet
    req,       \* req[r]: purchase request r
    hook,      \* hook[h]: webhook delivery h
    replaying  \* keys resurrected by an operator, not yet re-published

depositVars == <<psp, charge, declines, issued, credited, inflight, req, hook, replaying>>
vars == <<row, schedule, entries, dlq, con, psp, charge, declines, issued,
          credited, inflight, req, hook, replaying>>

PaymentIntents == Players \X Keys

\* The journaled instruction: who pays, what price the coins are worth.
Instructions == [owner : Players, price : Prices]

\* A row is never mistaken for its absence.
ASSUME RowAssumption == None \notin RowOf(Instructions)

\* providerRef: the payment intent the journaled instruction names.
IntentOf(k) == <<row[k].body.owner, k>>

Captured(i) == psp[i] = "captured"

\* The deposit journaled under k has been paid.
Paid(k) == Journaled(k) /\ Captured(IntentOf(k))

RequestStates == {"idle", "open", "journal", "backstop", "reply"}
Request == [pc : RequestStates, who : Players \cup {None},
            key : Keys \cup {None}, price : Prices \cup {None}]
NoRequest == [pc |-> "idle", who |-> None, key |-> None, price |-> None]

HookStates == {"idle", "call", "succeed", "fail", "publish", "abandon", "cancel"}
Hook == [pc : HookStates, key : Keys \cup {None}]
NoHook == [pc |-> "idle", key |-> None]

TypeOK ==
    /\ ReconcilerTypeOK(Instructions)
    /\ psp \in [PaymentIntents -> {"none", "open", "declined", "captured"}]
    /\ charge \in [PaymentIntents -> Prices \cup {None}]
    /\ declines \in SUBSET PaymentIntents
    /\ issued \in SUBSET PaymentIntents
    /\ credited \in SUBSET Keys
    /\ inflight \in SUBSET Keys
    /\ req \in [Requests -> Request]
    /\ hook \in [Hooks -> Hook]
    /\ replaying \in SUBSET Keys

Init ==
    /\ ReconcilerInit
    /\ psp = [i \in PaymentIntents |-> "none"]
    /\ charge = [i \in PaymentIntents |-> None]
    /\ declines = {}
    /\ issued = {}
    /\ credited = {}
    /\ inflight = {}
    /\ req = [r \in Requests |-> NoRequest]
    /\ hook = [h \in Hooks |-> NoHook]
    /\ replaying = {}

HookGoto(h, pc) == hook' = [hook EXCEPT ![h].pc = pc]
HookRest(h) == hook' = [hook EXCEPT ![h] = NoHook]
RequestGoto(r, pc) == req' = [req EXCEPT ![r].pc = pc]

\* A webhook delivery that is about to update row k and locks it for that.
HookLocks(k) == \E h \in Hooks : hook[h].key = k /\ hook[h].pc \in {"succeed", "fail", "abandon"}

pspVars    == <<psp, charge, declines, issued>>
engineVars == <<credited, inflight>>

-----------------------------------------------------------------------------
(* Mutants: plausible slips in the code below, each used to show that a    *)
(* property can fail.                                                      *)

\* The client secret is returned before the deposit is journaled.
MutJournalPurchaseLost(r) ==
    /\ req[r].pc = "journal"
    /\ RequestGoto(r, "backstop")
    /\ UNCHANGED <<row, queueVars, con, pspVars, engineVars, hook, replaying>>

\* The success event is believed without the payment_ref guard.
MutEventSettles(i) == row[i[2]].status # "SUCCEEDED"

\* waitOrAbandon marks the row FAILED, as its siblings do.
MutAwaitPayment(c) == IF con[c].tries < MaxAttempts THEN "fail" ELSE "abandon"

\* The drained backstop is dropped when the deposit is still unpaid.
MutAwaitPaymentOnce(c) == "ack"

\* A timeout is taken for a success.
MutAfterTimeout(c) == "succeed"

-----------------------------------------------------------------------------
(* purchasePackage.                                                        *)

\* The attempt gate: a foreign, settled or exhausted attempt is refused.
AttemptOpenTo(p, k) ==
    Journaled(k) => /\ row[k].body.owner = p
                    /\ row[k].status \in OpenStatuses

StartPurchase(r, p, k, x) ==
    /\ req[r].pc = "idle"
    /\ AttemptOpenTo(p, k)
    /\ req' = [req EXCEPT ![r] = [pc |-> "open", who |-> p, key |-> k, price |-> x]]
    /\ UNCHANGED <<reconcilerVars, pspVars, engineVars, hook, replaying>>

\* createPaymentIntent is idempotent: a known key returns the intent it named.
OpenIntent(r) ==
    LET i == <<req[r].who, req[r].key>>
    IN  /\ req[r].pc = "open"
        /\ IF psp[i] = "none"
             THEN /\ psp' = [psp EXCEPT ![i] = "open"]
                  /\ charge' = [charge EXCEPT ![i] = req[r].price]
             ELSE UNCHANGED <<psp, charge>>
        /\ RequestGoto(r, "journal")
        /\ UNCHANGED <<reconcilerVars, declines, issued, engineVars, hook, replaying>>

\* The PSP is unavailable (503), or the insert fails (500) with the intent open.
RequestFails(r) ==
    /\ req[r].pc \in {"open", "journal"}
    /\ req' = [req EXCEPT ![r] = NoRequest]
    /\ UNCHANGED <<reconcilerVars, pspVars, engineVars, hook, replaying>>

JournalPurchase(r) ==
    /\ req[r].pc = "journal"
    /\ CreateIntentIfAbsent(req[r].key, [owner |-> req[r].who, price |-> req[r].price])
    /\ RequestGoto(r, "backstop")
    /\ UNCHANGED <<queueVars, con, pspVars, engineVars, hook, replaying>>

ScheduleBackstop(r) ==
    /\ req[r].pc = "backstop"
    /\ BestEffort(Schedule(req[r].key))
    /\ RequestGoto(r, "reply")
    /\ UNCHANGED <<row, con, pspVars, engineVars, hook, replaying>>

ReturnSecret(r) ==
    /\ req[r].pc = "reply"
    /\ issued' = issued \cup {<<req[r].who, req[r].key>>}
    /\ req' = [req EXCEPT ![r] = NoRequest]
    /\ UNCHANGED <<reconcilerVars, psp, charge, declines, engineVars, hook, replaying>>

CrashRequest(r) ==
    /\ "crash" \in Faults
    /\ req[r].pc # "idle"
    /\ req' = [req EXCEPT ![r] = NoRequest]
    /\ UNCHANGED <<reconcilerVars, pspVars, engineVars, hook, replaying>>

-----------------------------------------------------------------------------
(* The PSP and its customer (external).  A capture needs the secret.       *)

Confirm(i) ==
    /\ i \in issued
    /\ psp[i] = "open" \/ (psp[i] = "declined" /\ "decline" \in Faults)
    /\ psp' = [psp EXCEPT ![i] = "captured"]
    /\ UNCHANGED <<reconcilerVars, charge, declines, issued, engineVars, req, hook, replaying>>

\* Declined, cancelled or expired; the failure event may arrive at any time.
Decline(i) ==
    /\ psp[i] = "open"
    /\ psp' = [psp EXCEPT ![i] = "declined"]
    /\ declines' = declines \cup {i}
    /\ UNCHANGED <<reconcilerVars, charge, issued, engineVars, req, hook, replaying>>

-----------------------------------------------------------------------------
(* The True Engine (external): idempotent on the key.                      *)

EngineCommits(k) ==
    /\ credited' = credited \cup {k}
    /\ inflight' = inflight \ {k}

\* No answer, or a retryable one; the request may still commit later.
EngineTimesOut(k) ==
    /\ inflight' = IF k \in credited THEN inflight ELSE inflight \cup {k}
    /\ UNCHANGED credited

\* A terminal refusal; a committed credit answers from the receipt instead.
EngineRefuses(k) ==
    /\ k \notin credited
    /\ UNCHANGED engineVars

LateCommit(k) ==
    /\ k \in inflight
    /\ EngineCommits(k)
    /\ UNCHANGED <<reconcilerVars, pspVars, req, hook, replaying>>

-----------------------------------------------------------------------------
(* handlePspWebhookEvent.  Delivery and the first read of the row are one  *)
(* step; events that the handler ignores change nothing and are left out.  *)

\* A success event for i settles the row it names: same intent, same amount.
EventSettles(i) ==
    /\ row[i[2]].status # "SUCCEEDED"
    /\ i = IntentOf(i[2])
    /\ charge[i] = row[i[2]].body.price

ReceiveSuccess(h, i) ==
    /\ hook[h].pc = "idle"
    /\ Captured(i)
    /\ Journaled(i[2])
    /\ \/ /\ row[i[2]].status = "SUCCEEDED"
          /\ hook' = [hook EXCEPT ![h] = [pc |-> "cancel", key |-> i[2]]]
       \/ /\ EventSettles(i)
          /\ hook' = [hook EXCEPT ![h] = [pc |-> "call", key |-> i[2]]]
    /\ UNCHANGED <<reconcilerVars, pspVars, engineVars, req, replaying>>

\* A failure event counts while the row it read is PENDING.
ReceiveFailure(h, i) ==
    /\ hook[h].pc = "idle"
    /\ i \in declines
    /\ HasStatus(i[2], {"PENDING"})
    /\ i = IntentOf(i[2])
    /\ hook' = [hook EXCEPT ![h] = [pc |-> "abandon", key |-> i[2]]]
    /\ UNCHANGED <<reconcilerVars, pspVars, engineVars, req, replaying>>

CreditFromHook(h) ==
    /\ hook[h].pc = "call"
    /\ \/ EngineCommits(hook[h].key) /\ HookGoto(h, "succeed")
       \/ EngineTimesOut(hook[h].key) /\ HookGoto(h, "fail")
       \/ EngineRefuses(hook[h].key) /\ HookGoto(h, "fail")
    /\ UNCHANGED <<reconcilerVars, pspVars, req, replaying>>

RecordHookSuccess(h) ==
    /\ hook[h].pc = "succeed"
    /\ MarkTerminal(hook[h].key, "SUCCEEDED")
    /\ HookGoto(h, "cancel")
    /\ UNCHANGED <<queueVars, con, pspVars, engineVars, req, replaying>>

RecordHookFailure(h) ==
    /\ hook[h].pc = "fail"
    /\ MarkTerminal(hook[h].key, "FAILED")
    /\ HookGoto(h, "publish")
    /\ UNCHANGED <<queueVars, con, pspVars, engineVars, req, replaying>>

PublishFromHook(h) ==
    /\ hook[h].pc = "publish"
    /\ BestEffort(Publish(hook[h].key, HeldMessages))
    /\ HookRest(h)
    /\ UNCHANGED <<row, con, pspVars, engineVars, req, replaying>>

\* The failure path updates by id, on the status it read before.
RecordHookAbandon(h) ==
    /\ hook[h].pc = "abandon"
    /\ Overwrite(hook[h].key, "ABANDONED")
    /\ HookGoto(h, "cancel")
    /\ UNCHANGED <<queueVars, con, pspVars, engineVars, req, replaying>>

CancelBackstop(h) ==
    /\ hook[h].pc = "cancel"
    /\ BestEffort(Unschedule(hook[h].key))
    /\ HookRest(h)
    /\ UNCHANGED <<row, con, pspVars, engineVars, req, replaying>>

CrashHook(h) ==
    /\ "crash" \in Faults
    /\ hook[h].pc # "idle"
    /\ HookRest(h)
    /\ UNCHANGED <<reconcilerVars, pspVars, engineVars, req, replaying>>

-----------------------------------------------------------------------------
(* reconcileDeposit: what a consumer does with a claimed deposit.          *)

\* A FAILED deposit is known to be captured; a PENDING one is looked up.
ClaimDeposit(c) ==
    /\ At(c, "claim")
    /\ Journaled(con[c].key)
    /\ ClaimRow(c, IF row[con[c].key].status = "FAILED" THEN "call" ELSE "poll")
    /\ UNCHANGED depositVars

\* waitOrAbandon: nothing captured yet, keep waiting within the budget.
AwaitPayment(c) == IF con[c].tries < MaxAttempts THEN "retry" ELSE "abandon"

PollPsp(c) ==
    /\ At(c, "poll")
    /\ Goto(c, CASE Paid(con[c].key) -> "call"
                 [] psp[IntentOf(con[c].key)] = "declined" -> "abandon"
                 [] OTHER -> AwaitPayment(c))
    /\ UNCHANGED <<row, queueVars, depositVars>>

\* finalizeDepositCredit on a retryable failure.
AfterTimeout(c) == IF con[c].tries < MaxAttempts THEN "fail" ELSE "abandon"

CreditFromConsumer(c) ==
    /\ At(c, "call")
    /\ \/ EngineCommits(con[c].key) /\ Goto(c, "succeed")
       \/ EngineTimesOut(con[c].key) /\ Goto(c, AfterTimeout(c))
       \/ EngineRefuses(con[c].key) /\ Goto(c, "abandon")
    /\ UNCHANGED <<row, queueVars, pspVars, req, hook, replaying>>

-----------------------------------------------------------------------------
(* Operator replay of an ABANDONED deposit, and the retention sweep.       *)

Replay(k) ==
    /\ Resurrect(k)
    /\ replaying' = replaying \cup {k}
    /\ UNCHANGED <<queueVars, con, pspVars, engineVars, req, hook>>

PublishReplay(k) ==
    /\ k \in replaying
    /\ Publish(k, HeldMessages)
    /\ replaying' = replaying \ {k}
    /\ UNCHANGED <<row, con, pspVars, engineVars, req, hook>>

UndoReplay(k) ==
    /\ "broker" \in Faults
    /\ k \in replaying
    /\ UndoResurrect(k)
    /\ replaying' = replaying \ {k}
    /\ UNCHANGED <<queueVars, con, pspVars, engineVars, req, hook>>

CrashReplay(k) ==
    /\ "crash" \in Faults
    /\ k \in replaying
    /\ replaying' = replaying \ {k}
    /\ UNCHANGED <<reconcilerVars, pspVars, engineVars, req, hook>>

\* The retention age is days and a handler's life is seconds, so no handler
\* that started on the row before is still at work on it.
Sweep(k) ==
    /\ \A c \in Consumers : ~WorksOn(c, k)
    /\ \A h \in Hooks : hook[h].key # k
    /\ \A r \in Requests : req[r].key # k
    /\ k \notin inflight
    /\ DeleteSettled(k)
    /\ UNCHANGED <<queueVars, con, depositVars>>

-----------------------------------------------------------------------------
PurchaseStep(r) ==
    \/ \E p \in Players, k \in Keys, x \in Prices : StartPurchase(r, p, k, x)
    \/ OpenIntent(r)
    \/ RequestFails(r)
    \/ JournalPurchase(r)
    \/ ScheduleBackstop(r)
    \/ ReturnSecret(r)
    \/ CrashRequest(r)

PspStep(i) == Confirm(i) \/ Decline(i)

\* What a webhook handler does once it runs; delivery is up to the PSP.
HandlerStep(h) ==
    \/ CreditFromHook(h)
    \/ RecordHookSuccess(h)
    \/ RecordHookFailure(h)
    \/ PublishFromHook(h)
    \/ RecordHookAbandon(h)
    \/ CancelBackstop(h)

HookStep(h) ==
    \/ \E i \in PaymentIntents : ReceiveSuccess(h, i) \/ ReceiveFailure(h, i)
    \/ HandlerStep(h)
    \/ CrashHook(h)

\* What a consumer does with the message it holds.
ConsumerWork(c) == ClaimDeposit(c) \/ PollPsp(c) \/ CreditFromConsumer(c)

ConsumerStep(c) ==
    \/ /\ ListenerStep(c, HookLocks(con[c].key))
       /\ UNCHANGED depositVars
    \/ ConsumerWork(c)

KeyStep(k) ==
    \/ LateCommit(k)
    \/ Replay(k)
    \/ PublishReplay(k)
    \/ UndoReplay(k)
    \/ CrashReplay(k)
    \/ Sweep(k)

Next ==
    \/ \E r \in Requests : PurchaseStep(r)
    \/ \E i \in PaymentIntents : PspStep(i)
    \/ \E h \in Hooks : HookStep(h)
    \/ \E c \in Consumers : ConsumerStep(c)
    \/ \E k \in Keys : KeyStep(k)

Spec == Init /\ [][Next]_vars

\* Scheduling the code guarantees: a running consumer and a running handler
\* (a replay too) finish what they hold.  Every cycle of the listener reclaims,
\* drains and reads the stream in order, so no message and no due member is passed over
\* for ever, and a row lock is held for an instant, so the claims of one row
\* do not collide for ever.  Customers, operators and webhooks owe nothing.
Fairness ==
    /\ \A c \in Consumers : WF_vars(ConsumerStep(c) /\ ~At(c, "idle"))
    /\ \A h \in Hooks : WF_vars(HandlerStep(h))
    /\ \A k \in Keys : SF_vars(PublishReplay(k))
    /\ \A k \in Keys : SF_vars(\E c \in Consumers : DrainDue(c, k) /\ UNCHANGED depositVars)
    /\ \A m \in Messages : SF_vars(\E c \in Consumers : Pull(c, m) /\ UNCHANGED depositVars)
    /\ \A k \in Keys : SF_vars(\E c \in Consumers : con[c].key = k /\ ClaimDeposit(c))

FairSpec == Spec /\ Fairness

-----------------------------------------------------------------------------
(* What makes the saga correct.                                            *)

\* FAILED is reserved for a captured deposit whose credit is owed
\* (waitOrAbandon keeps an unpaid one PENDING).  The reconciler credits a
\* FAILED row without asking the PSP, so an unpaid FAILED row is free coins.
FailedMeansPaid == \A k \in Keys : HasStatus(k, {"FAILED"}) => Paid(k)

\* A row the gateway shows as settled has its credit in the ledger, whoever
\* recorded the success and however stale the writer was.
SettledIsCredited == \A k \in Keys : HasStatus(k, {"SUCCEEDED"}) => k \in credited

\* A row settles only the intent it names: the webhook refuses any other and the
\* reconciler asks the PSP for no other.
OwnRow(i) == Journaled(i[2]) /\ IntentOf(i[2]) = i

\* "No confirmed capture can exist without a durable journal row to settle it"
\* (purchasePackage): every capture has a row of its own until the credit of its
\* key has committed.  The code breaks this when two accounts present one attempt:
\* the insert of the second does nothing and its secret is returned all the same.
CaptureHasARow ==
    \A i \in PaymentIntents : Captured(i) => OwnRow(i) \/ i[2] \in credited

\* Another account has opened an intent for the attempt of i.
Contested(i) == \E j \in PaymentIntents : j # i /\ j[2] = i[2] /\ psp[j] # "none"

\* What the order of purchasePackage (journal, then return the secret) does promise:
\* an attempt one account alone presents is never captured without its own row,
\* whatever its retries, crashes, webhooks, replays and the retention sweep do.
SoleCaptureHasItsRow ==
    \A i \in PaymentIntents :
        Captured(i) /\ ~Contested(i) => OwnRow(i) \/ i[2] \in credited

\* The ledger commits a credit only while the row is there and the payment
\* intent this very row names is captured: never on the evidence of another
\* account's intent, and never for an unpaid attempt.
CreditsOnOwnCapture ==
    [][\A k \in credited' \ credited : Paid(k)]_vars

\* The key is on its way: a broker structure or a process will look at it.
OnItsWay(k) ==
    \/ k \in schedule \cup replaying
    \/ InStream(k)
    \/ \E c \in Consumers : HasInHand(c, k) /\ ~At(c, "ack")
    \/ \E h \in Hooks : hook[h].key = k /\ hook[h].pc # "cancel"

\* An operator can see the key: the admin list shows ABANDONED rows, the
\* dead letter stream shows what was parked.
Visible(k) == k \in dlq \/ HasStatus(k, {"ABANDONED"})

\* Zero transaction loss: a journaled deposit that was captured and not credited
\* is on its way or in front of an operator, even if every webhook is lost.  It
\* speaks of the intent a row names; the capture of an account that lost a race
\* for its attempt has no row, and CaptureHasARow is where that shows.
NoSilentDrop ==
    \A k \in Keys : Paid(k) /\ k \notin credited => OnItsWay(k) \/ Visible(k)

\* ... and it does not stay on its way for ever.
CaptureIsResolved ==
    \A k \in Keys : Paid(k) ~> (k \in credited \/ Visible(k))

\* The success webhook refuses to credit when the captured amount is not the
\* journaled one; the ledger's coins are worth what was charged.
CreditMatchesCharge ==
    [][\A k \in credited' \ credited : charge[IntentOf(k)] = row[k].body.price]_vars

-----------------------------------------------------------------------------
(* Implementation of the abstract ledger.                                  *)

PaidAttempts    == {k \in Keys : \E p \in Players : Captured(<<p, k>>)}
SettledAttempts == {k \in Keys : HasStatus(k, {"SUCCEEDED"})}

Ledger == INSTANCE DepositLedger WITH
            Attempts <- Keys, paid <- PaidAttempts, settled <- SettledAttempts

\* The saga, with all its races, looks like pay, then credit once, then settle.
LedgerSpec == Ledger!Spec

=============================================================================
