----------------------------- MODULE Redemption -----------------------------
(***************************************************************************)
(* Money out: review, payout and refund of redemptions, on top of the      *)
(* orders that debit them.                                                 *)
(*                                                                         *)
(*   UNDER_REVIEW --approve--> APPROVED --claim--> PROCESSING --> PAID     *)
(*        |    ^------------------'                    |                   *)
(*        '--reject--> REJECTED + refund               '--> refund         *)
(*                                                                         *)
(* Operators decide over HTTP; workers consume a stream of their own, the  *)
(* same class of broker as the reconciler's.  Every transition is a        *)
(* compare-and-set; between two of them anything may crash, a slow         *)
(* worker's message is reclaimed by a peer, and the payout rail may take   *)
(* a request whose answer never arrives.                                   *)
(***************************************************************************)
EXTENDS Orders

CONSTANTS
    Operators,   \* requests of operators at work on redemptions
    Workers,     \* payout workers
    PayMessages  \* entry ids of the redemption stream (bound: entries alive at once)

Agents == Operators \cup Workers

ASSUME AgentsAssumption == Operators \cap Workers = {}

VARIABLES
    rail,         \* rail[r]: what the payout rail holds under redemption id r
    sent,         \* redemptions whose payout request got no answer: may arrive yet
    paySchedule, payEntries, payDlq,   \* the redemption stream, and its part of the one DLQ
    agent         \* agent[a]: operator request or payout worker a

payQueueVars == <<paySchedule, payEntries, payDlq>>
payVars == <<rail, sent, paySchedule, payEntries, payDlq, agent>>
vars == <<row, schedule, entries, dlq, con, order, ledger, inflight, call,
          rail, sent, paySchedule, payEntries, payDlq, agent>>

Payout == INSTANCE ReconcileQueue
            WITH Keys <- Redemptions, Messages <- PayMessages,
                 schedule <- paySchedule, entries <- payEntries, dlq <- payDlq

\* refused: the rail gave a definite no.  The other answers are PayoutStatus.
RailAnswers == {"refused", "submitted", "paid", "failed"}

Refunding == {"refund", "journal", "credit", "credited", "uncredited", "mark"}
Paying == {"retrieve", "send", "paid"}
AgentStates == {"idle", "publish", "undo", "drained", "read", "claim", "retry", "park", "ack"}
                 \cup Refunding \cup Paying

\* seen: the delivery count of the message.  caught: in the catch block.
Agent == [pc : AgentStates, req : Redemptions \cup {None}, msg : PayMessages \cup {None},
          seen : 0..MaxDeliveries, caught : BOOLEAN]
Free == [pc |-> "idle", req |-> None, msg |-> None, seen |-> 0, caught |-> FALSE]

TypeOK ==
    /\ OrdersTypeOK
    /\ rail \in [Redemptions -> RailAnswers \cup {"none"}]
    /\ sent \in SUBSET Redemptions
    /\ Payout!QueueTypeOK
    /\ agent \in [Agents -> Agent]

Init ==
    /\ OrdersInit
    /\ rail = [r \in Redemptions |-> "none"]
    /\ sent = {}
    /\ Payout!QueueInit
    /\ agent = [a \in Agents |-> Free]

Is(r, statuses) == OrderIn(Redeem(r), statuses)

AgentAt(a, pc) == agent[a].pc = pc
AgentGoto(a, pc) == agent' = [agent EXCEPT ![a].pc = pc]
AgentRest(a) == agent' = [agent EXCEPT ![a] = Free]

\* updateMany WHERE id AND status: the row moves, or nothing does.
CompareAndSet(r, from, to) ==
    IF Is(r, {from}) THEN SetOrder(Redeem(r), to) ELSE UNCHANGED order

HeldPayouts == {agent[a].msg : a \in Agents} \ {None}

-----------------------------------------------------------------------------
(* The operators: approveRedemptionHandler, rejectRedemptionHandler.  The  *)
(* status they read first is read again by the compare-and-set.            *)

Decide(a, r, status, pc) ==
    /\ AgentAt(a, "idle")
    /\ Is(r, {"UNDER_REVIEW"})
    /\ SetOrder(Redeem(r), status)
    /\ agent' = [agent EXCEPT ![a] = [Free EXCEPT !.pc = pc, !.req = r]]
    /\ UNCHANGED <<reconcilerVars, ledger, inflight, call, rail, sent, payQueueVars>>

Approve(a, r) == Decide(a, r, "APPROVED", "publish")

Reject(a, r) == Decide(a, r, "REJECTED", "refund")

PublishApproval(a) ==
    /\ AgentAt(a, "publish")
    /\ Payout!Publish(agent[a].req, HeldPayouts)
    /\ AgentRest(a)
    /\ UNCHANGED <<reconcilerVars, orderVars, rail, sent>>

\* The publish throws, whether or not the broker stored the event ...
FailToPublish(a) ==
    /\ "broker" \in Faults
    /\ AgentAt(a, "publish")
    /\ Payout!Publish(agent[a].req, HeldPayouts) \/ UNCHANGED payQueueVars
    /\ AgentGoto(a, "undo")
    /\ UNCHANGED <<reconcilerVars, orderVars, rail, sent>>

\* Mutant: the roll-back of a failed publish forgets to compare.
MutUndoApproval(a) ==
    /\ AgentAt(a, "undo")
    /\ SetOrder(Redeem(agent[a].req), "UNDER_REVIEW")
    /\ AgentRest(a)
    /\ UNCHANGED <<reconcilerVars, ledger, inflight, call, rail, sent, payQueueVars>>

\* ... and the approval is taken back, unless a worker has claimed it meanwhile.
UndoApproval(a) ==
    /\ AgentAt(a, "undo")
    /\ CompareAndSet(agent[a].req, "APPROVED", "UNDER_REVIEW")
    /\ AgentRest(a)
    /\ UNCHANGED <<reconcilerVars, ledger, inflight, call, rail, sent, payQueueVars>>

-----------------------------------------------------------------------------
(* refundRedemption, called by the operator who rejects and by the worker  *)
(* the rail has refused.  It is never handed to the reconciler.            *)

\* An operator is done after the refund; a worker parks its message.
AfterRefund(a) == IF a \in Workers THEN AgentGoto(a, "park") ELSE AgentRest(a)

\* Nothing is given back without a recorded debit.
LookUpDebit(a) ==
    /\ AgentAt(a, "refund")
    /\ IF order[Redeem(agent[a].req)].receipt THEN AgentGoto(a, "journal") ELSE AfterRefund(a)
    /\ UNCHANGED <<reconcilerVars, orderVars, rail, sent, payQueueVars>>

JournalRefund(a) ==
    /\ AgentAt(a, "journal")
    /\ CreateIntentIfAbsent(Refund(agent[a].req), "payload")
    /\ AgentGoto(a, "credit")
    /\ UNCHANGED <<queueVars, con, orderVars, rail, sent, payQueueVars>>

\* Mutant: a refund that timed out is recorded as made.
MutCreditRefundTrusts(a) ==
    LET k == Refund(agent[a].req)
    IN  /\ AgentAt(a, "credit")
        /\ \/ (EngineCommits(k) \/ EngineTimesOut(k)) /\ AgentGoto(a, "credited")
           \/ EngineRefuses(k) /\ AgentGoto(a, "uncredited")
        /\ UNCHANGED <<reconcilerVars, order, call, rail, sent, payQueueVars>>

CreditRefund(a) ==
    LET k == Refund(agent[a].req)
    IN  /\ AgentAt(a, "credit")
        /\ \/ EngineCommits(k) /\ AgentGoto(a, "credited")
           \/ (EngineTimesOut(k) \/ EngineRefuses(k)) /\ AgentGoto(a, "uncredited")
        /\ UNCHANGED <<reconcilerVars, order, call, rail, sent, payQueueVars>>

\* Mutant: a refund that failed is handed to the reconciler, like a lost debit.
MutRecordUncreditedEnqueues(a) ==
    /\ AgentAt(a, "uncredited")
    /\ MarkTerminal(Refund(agent[a].req), "FAILED")
    /\ BestEffort(Publish(Refund(agent[a].req), HeldMessages))
    /\ AfterRefund(a)
    /\ UNCHANGED <<con, orderVars, rail, sent, payQueueVars>>

RecordUncredited(a) ==
    /\ AgentAt(a, "uncredited")
    /\ MarkTerminal(Refund(agent[a].req), "FAILED")
    /\ AfterRefund(a)
    /\ UNCHANGED <<queueVars, con, orderVars, rail, sent, payQueueVars>>

RecordCredited(a) ==
    /\ AgentAt(a, "credited")
    /\ MarkTerminal(Refund(agent[a].req), "SUCCEEDED")
    /\ AgentGoto(a, "mark")
    /\ UNCHANGED <<queueVars, con, orderVars, rail, sent, payQueueVars>>

MarkRefunded(a) ==
    /\ AgentAt(a, "mark")
    /\ order' = [order EXCEPT ![Redeem(agent[a].req)].refunded = TRUE]
    /\ AfterRefund(a)
    /\ UNCHANGED <<reconcilerVars, ledger, inflight, call, rail, sent, payQueueVars>>

-----------------------------------------------------------------------------
(* The workers and their broker: processRedemptionBatch, and the methods   *)
(* of RedisStreamQueue they call.                                          *)

DrainDuePayout(w, r) ==
    /\ AgentAt(w, "idle")
    /\ r \in paySchedule
    /\ Payout!Unschedule(r)
    /\ \E m \in PayMessages \ HeldPayouts :
          /\ payEntries[m] = None
          /\ agent' = [agent EXCEPT ![w] = [Free EXCEPT !.pc = "drained", !.req = r, !.msg = m]]
    /\ UNCHANGED <<reconcilerVars, orderVars, rail, sent>>

RepublishPayout(w) ==
    /\ AgentAt(w, "drained")
    /\ Payout!AddEntry(agent[w].msg, agent[w].req)
    /\ AgentRest(w)
    /\ UNCHANGED <<reconcilerVars, orderVars, rail, sent>>

\* A fresh message, or one whose consumer crashed or is slow.
TakePayout(w, m) ==
    /\ AgentAt(w, "idle")
    /\ Payout!Read(m) \/ Payout!Redeliver(m)
    /\ agent' = [agent EXCEPT ![w] = [Free EXCEPT !.pc = "read", !.req = payEntries[m].key,
                                                 !.msg = m, !.seen = payEntries'[m].count]]
    /\ UNCHANGED <<reconcilerVars, orderVars, rail, sent>>

\* The catch block schedules another attempt, or parks the message once its
\* deliveries are spent; a failure inside it leaves the message pending.
CatchThen(w) ==
    IF agent[w].caught
      THEN AgentRest(w)
      ELSE agent' = [agent EXCEPT ![w].caught = TRUE,
                                  ![w].pc = IF agent[w].seen >= MaxDeliveries THEN "park" ELSE "retry"]

ThrowPayout(w) ==
    /\ "infra" \in Faults
    /\ ~AgentAt(w, "idle")
    /\ IF AgentAt(w, "drained") THEN AgentRest(w) ELSE CatchThen(w)
    /\ UNCHANGED <<reconcilerVars, orderVars, rail, sent, payQueueVars>>

ReschedulePayout(w) ==
    /\ AgentAt(w, "retry")
    /\ Payout!Schedule(agent[w].req)
    /\ AgentGoto(w, "ack")
    /\ UNCHANGED <<reconcilerVars, orderVars, rail, sent>>

ParkPayout(w) ==
    /\ AgentAt(w, "park")
    /\ Payout!ParkInDlq(agent[w].req)
    /\ AgentGoto(w, "ack")
    /\ UNCHANGED <<reconcilerVars, orderVars, rail, sent>>

AckPayout(w) ==
    /\ AgentAt(w, "ack")
    /\ Payout!Ack(agent[w].msg)
    /\ AgentRest(w)
    /\ UNCHANGED <<reconcilerVars, orderVars, rail, sent>>

-----------------------------------------------------------------------------
(* advanceRedemption: the claim, the rail, and the outcome.                *)

ReadRedemption(w) ==
    /\ AgentAt(w, "read")
    /\ AgentGoto(w, IF Is(agent[w].req, {"PROCESSING"}) THEN "retrieve"
                    ELSE IF Is(agent[w].req, {"APPROVED"}) THEN "claim" ELSE "ack")
    /\ UNCHANGED <<reconcilerVars, orderVars, rail, sent, payQueueVars>>

\* Mutant: the claim trusts the status it read.
MutClaimPayoutUnguarded(w) ==
    /\ AgentAt(w, "claim")
    /\ SetOrder(Redeem(agent[w].req), "PROCESSING")
    /\ AgentGoto(w, "send")
    /\ UNCHANGED <<reconcilerVars, ledger, inflight, call, rail, sent, payQueueVars>>

ClaimPayout(w) ==
    /\ AgentAt(w, "claim")
    /\ CompareAndSet(agent[w].req, "APPROVED", "PROCESSING")
    /\ AgentGoto(w, IF Is(agent[w].req, {"APPROVED"}) THEN "send" ELSE "ack")
    /\ UNCHANGED <<reconcilerVars, ledger, inflight, call, rail, sent, payQueueVars>>

\* Where the worker goes with the rail's answer; a submitted payout is done with.
Upon(answer) ==
    IF answer = "submitted" THEN "ack" ELSE IF answer = "paid" THEN "paid" ELSE "refund"

\* The rail (external): one payout per redemption id, and the first answer stands.
RailTakes(r, answer) == rail' = [rail EXCEPT ![r] = IF @ = "none" THEN answer ELSE @]

\* retrievePayout; the rail keeps no payout it refused.
AskRail(w) ==
    LET r == agent[w].req
    IN  /\ AgentAt(w, "retrieve")
        /\ AgentGoto(w, IF rail[r] \in {"none", "refused"} THEN "send" ELSE Upon(rail[r]))
        /\ UNCHANGED <<reconcilerVars, orderVars, rail, sent, payQueueVars>>

SendPayout(w) ==
    LET r == agent[w].req
    IN  /\ AgentAt(w, "send")
        /\ \E answer \in RailAnswers : RailTakes(r, answer)
        /\ AgentGoto(w, Upon(rail'[r]))
        /\ UNCHANGED <<reconcilerVars, orderVars, sent, payQueueVars>>

\* The rail gives no definite answer (PayoutProviderError, retryable).
RailFails(w) ==
    /\ agent[w].pc \in {"retrieve", "send"}
    /\ sent' = IF AgentAt(w, "send") THEN sent \cup {agent[w].req} ELSE sent
    /\ CatchThen(w)
    /\ UNCHANGED <<reconcilerVars, orderVars, rail, payQueueVars>>

RecordPaid(w) ==
    /\ AgentAt(w, "paid")
    /\ CompareAndSet(agent[w].req, "PROCESSING", "PAID")
    /\ AgentGoto(w, "ack")
    /\ UNCHANGED <<reconcilerVars, ledger, inflight, call, rail, sent, payQueueVars>>

\* The rail on its own: an unanswered request arrives, a submitted payout settles.
RailStep(r) ==
    /\ \/ /\ r \in sent
          /\ sent' = sent \ {r}
          /\ \E answer \in RailAnswers : RailTakes(r, answer)
       \/ /\ rail[r] = "submitted"
          /\ \E answer \in {"paid", "failed"} : rail' = [rail EXCEPT ![r] = answer]
          /\ UNCHANGED sent
    /\ UNCHANGED <<reconcilerVars, orderVars, payQueueVars, agent>>

-----------------------------------------------------------------------------
CrashAgent(a) ==
    /\ "crash" \in Faults
    /\ ~AgentAt(a, "idle")
    /\ AgentRest(a)
    /\ UNCHANGED <<reconcilerVars, orderVars, rail, sent, payQueueVars>>

RefundStep(a) ==
    \/ LookUpDebit(a)
    \/ JournalRefund(a)
    \/ CreditRefund(a)
    \/ RecordUncredited(a)
    \/ RecordCredited(a)
    \/ MarkRefunded(a)

OperatorStep(a) ==
    \/ PublishApproval(a)
    \/ FailToPublish(a)
    \/ UndoApproval(a)

WorkerStep(w) ==
    \/ \E r \in Redemptions : DrainDuePayout(w, r)
    \/ RepublishPayout(w)
    \/ \E m \in PayMessages : TakePayout(w, m)
    \/ ThrowPayout(w)
    \/ ReschedulePayout(w)
    \/ ParkPayout(w)
    \/ AckPayout(w)
    \/ ReadRedemption(w)
    \/ ClaimPayout(w)
    \/ AskRail(w)
    \/ SendPayout(w)
    \/ RailFails(w)
    \/ RecordPaid(w)

AgentStep(a) ==
    \/ a \in Operators /\ (OperatorStep(a) \/ \E r \in Redemptions : Approve(a, r) \/ Reject(a, r))
    \/ a \in Workers /\ WorkerStep(a)
    \/ RefundStep(a)
    \/ CrashAgent(a)

\* Retention is days: no refund under way has its row swept.
RefundInHand(k) ==
    \E a \in Agents : agent[a].pc \in Refunding /\ k = Refund(agent[a].req)

OrdersStep ==
    \/ \E h \in Calls : CallStep(h)
    \/ \E c \in Consumers : ConsumerStep(c)
    \/ \E k \in Keys : LateCommit(k) \/ Replay(k) \/ (Sweep(k) /\ ~RefundInHand(k))

Next ==
    \/ OrdersStep /\ UNCHANGED payVars
    \/ \E a \in Agents : AgentStep(a)
    \/ \E r \in Redemptions : RailStep(r)

Spec == Init /\ [][Next]_vars

\* Who runs goes on; the reconciler passes over no message and no due member.
Fairness ==
    /\ \A h \in Calls : WF_vars(HandlerStep(h) /\ UNCHANGED payVars)
    /\ \A c \in Consumers : WF_vars(ConsumerStep(c) /\ ~At(c, "idle") /\ UNCHANGED payVars)
    /\ \A k \in Keys :
          SF_vars(\E c \in Consumers : DrainDue(c, k) /\ UNCHANGED <<orderVars, payVars>>)
    /\ \A m \in Messages :
          SF_vars(\E c \in Consumers : Pull(c, m) /\ UNCHANGED <<orderVars, payVars>>)

FairSpec == Spec /\ Fairness

-----------------------------------------------------------------------------
(* What makes a redemption correct.                                        *)

\* Money leaves, and is given back, only after its debit: a payout request that
\* may still arrive and a refund on its way count.
MoneyOutFollowsDebit ==
    \A r \in Redemptions :
        rail[r] # "none" \/ r \in sent \/ Moved(Refund(r)) => Redeem(r) \in ledger

\* "Two different anchors ... is a double credit"; a player is never both paid by
\* the rail and credited back, whoever decided, refused or timed out.
PaidExcludesRefund ==
    \A r \in Redemptions :
        Moved(Refund(r)) => /\ rail[r] \notin {"submitted", "paid"}
                            /\ r \in sent => rail[r] \in {"refused", "failed"}

\* A refund is journaled as a REDEEM, which the reconciler would send as a second
\* debit: none ever gets to replay one, whatever fails or is resurrected.
RefundIsNotReplayed ==
    \A c \in Consumers, r \in Redemptions : ~(At(c, "call") /\ con[c].key = Refund(r))

\* What an auditor reads is what happened at the rail and in the ledger.
OutcomeIsTrue ==
    \A r \in Redemptions :
        /\ Is(r, {"PAID"}) => rail[r] = "paid"
        /\ Taken(Redeem(r)) /\ order[Redeem(r)].refunded => Refund(r) \in ledger

\* A redemption claimed for payout is never handed back to review.
ClaimedNeverReturns ==
    [][\A r \in Redemptions :
          Is(r, {"PROCESSING", "PAID"}) => Is(r, {"PROCESSING", "PAID"})']_vars

\* "The reconciler resolves it": a redemption whose debit is in the ledger leaves
\* REQUESTED, so that somebody can pay it out or give it back.
DebitReachesReview ==
    \A r \in Redemptions : Redeem(r) \in ledger ~> ~Is(r, {"REQUESTED"})

\* The balance, the rail and what the gateway shows, as MoneyOut names them.
Money == INSTANCE MoneyOut WITH
            debited  <- {r \in Redemptions : Redeem(r) \in ledger},
            paid     <- {r \in Redemptions : rail[r] = "paid"},
            returned <- {r \in Redemptions : Refund(r) \in ledger},
            reported <- {r \in Redemptions : Is(r, {"PAID"})}

\* Money out implements debit, then pay or give back, then report: whatever fails,
\* no step pays twice, pays what was given back, or unsays a payment.
MoneyOutSpec == Money!Spec

=============================================================================
