------------------------------- MODULE Orders -------------------------------
(***************************************************************************)
(* One-shot engine orders: redemptions (the debit that opens one), AMOE    *)
(* claims and daily bonuses.  The three services run one protocol:         *)
(*                                                                         *)
(*   take a row of their own table, whose unique indexes are the only cap; *)
(*   journal the intent; call the engine once; then                        *)
(*     committed  settle the journal, then mark the row as accepted        *)
(*     refused    fail the journal, then mark the row as refused           *)
(*     no answer  fail the journal, leave the row REQUESTED and hand the   *)
(*                intent to the reconciler                                 *)
(*                                                                         *)
(* The reconciler replays the intent and settles the journal; it knows     *)
(* nothing of the row.  Handlers crash between any two steps, clients      *)
(* retry, and claims of one player race for one period.                    *)
(***************************************************************************)
EXTENDS Reconciler, TrueEngine

CONSTANTS
    Calls,        \* request deliveries; a claim is named by the call that mints it
    Redemptions,  \* redemption attempts: one redemption_requests row each
    Periods,      \* a player's grant periods or gaming days
    Attempts      \* a player's claim attempt tokens

Redeem(r) == <<"redeem", r>>
Refund(r) == <<"refund", r>>
Grant(h)  == <<"grant", h>>

\* A refund moves money back; it is no order of its own.
OrderKeys == ({"redeem"} \X Redemptions) \cup ({"grant"} \X Calls)

Payloads == {"payload"}

\* The values of the unique indexes.
Unique == ({"order"} \X Redemptions) \cup ({"period"} \X Periods) \cup ({"attempt"} \X Attempts)

\* RedemptionStatus, AmoeGrantStatus and DailyBonusStatus.
OrderStatuses == {"REQUESTED", "UNDER_REVIEW", "APPROVED", "PROCESSING", "PAID", "REJECTED",
                  "GRANTED", "FAILED"}

\* uses: the index values the row occupies.  receipt: ledgerTransactionId is
\* set.  refunded: refundLedgerTransactionId is set.
Order == [status : OrderStatuses, uses : SUBSET Unique, receipt : BOOLEAN, refunded : BOOLEAN]

ASSUME KeysAssumption == Keys = OrderKeys \cup ({"refund"} \X Redemptions)
ASSUME RowAssumption == None \notin RowOf(Payloads)
ASSUME OrderAssumption == None \notin Order

VARIABLES
    order,  \* order[k]: the orchestration row of order k, or None
    call    \* call[h]: request delivery h

orderVars == <<order, ledger, inflight, call>>

CallStates == {"idle", "over", "insert", "journal", "call", "done", "lost", "refused",
               "accept", "refuse", "publish"}
Call == [pc : CallStates, key : OrderKeys \cup {None}, uses : SUBSET Unique]
NoCall == [pc |-> "idle", key |-> None, uses |-> {}]

OrdersTypeOK ==
    /\ ReconcilerTypeOK(Payloads)
    /\ ledger \in SUBSET Keys
    /\ inflight \in SUBSET Keys
    /\ order \in [OrderKeys -> Order \cup {None}]
    /\ call \in [Calls -> Call]

OrdersInit ==
    /\ ReconcilerInit
    /\ ledger = {}
    /\ inflight = {}
    /\ order = [k \in OrderKeys |-> None]
    /\ call = [h \in Calls |-> NoCall]

CallAt(h, pcs) == call[h].pc \in pcs
CallGoto(h, pc) == call' = [call EXCEPT ![h].pc = pc]
CallRest(h) == call' = [call EXCEPT ![h] = [NoCall EXCEPT !.pc = "over"]]
CallStart(h, k, uses) == call' = [call EXCEPT ![h] = [pc |-> "insert", key |-> k, uses |-> uses]]

\* The order of k was taken, and its row is in one of the given statuses.
Taken(k) == order[k] # None
OrderIn(k, statuses) == Taken(k) /\ order[k].status \in statuses

SetOrder(k, status) == order' = [order EXCEPT ![k].status = status]

\* Some row holds one of these index values already (P2002).
Occupied(uses) == \E k \in OrderKeys : Taken(k) /\ order[k].uses \cap uses # {}

-----------------------------------------------------------------------------
(* Taking the row: requestRedemption, claimAmoeGrant, claimDailyBonus.  A  *)
(* request the policies refuse changes nothing and is left out.            *)

\* The redemption gate, on the journal: a settled or exhausted attempt is refused;
\* one that is open, or was never journaled, goes on.
StartRedeem(h, r) ==
    /\ CallAt(h, {"idle"})
    /\ IF HasStatus(Redeem(r), FinalStatuses)
         THEN CallRest(h)
         ELSE CallStart(h, Redeem(r), {<<"order", r>>})
    /\ UNCHANGED <<reconcilerVars, order, ledger, inflight>>

\* A claim looks up its attempt and its period first; what it reads is advice.
StartClaim(h, p, a) ==
    LET uses == {<<"period", p>>, <<"attempt", a>>}
    IN  /\ CallAt(h, {"idle"})
        /\ IF Occupied(uses) THEN CallRest(h) ELSE CallStart(h, Grant(h), uses)
        /\ UNCHANGED <<reconcilerVars, order, ledger, inflight>>

NewOrder(uses) == [status |-> "REQUESTED", uses |-> uses, receipt |-> FALSE, refunded |-> FALSE]

\* Mutant: the claim trusts what it looked up (no unique index on the period).
MutTakeRowUnguarded(h) ==
    LET k == call[h].key
    IN  /\ CallAt(h, {"insert"})
        /\ IF Taken(k)
             THEN CallRest(h) /\ UNCHANGED order
             ELSE /\ order' = [order EXCEPT ![k] = NewOrder(call[h].uses)]
                  /\ CallGoto(h, "journal")
        /\ UNCHANGED <<reconcilerVars, ledger, inflight>>

\* The INSERT is the cap: it fails on any unique index.
TakeRow(h) ==
    LET k == call[h].key
    IN  /\ CallAt(h, {"insert"})
        /\ IF Occupied(call[h].uses)
             THEN CallRest(h) /\ UNCHANGED order
             ELSE /\ order' = [order EXCEPT ![k] = NewOrder(call[h].uses)]
                  /\ CallGoto(h, "journal")
        /\ UNCHANGED <<reconcilerVars, ledger, inflight>>

-----------------------------------------------------------------------------
(* The journal, the one call, and its outcome.                             *)

Journal(h) ==
    /\ CallAt(h, {"journal"})
    /\ CreateIntentIfAbsent(call[h].key, "payload")
    /\ CallGoto(h, "call")
    /\ UNCHANGED <<queueVars, con, order, ledger, inflight>>

\* Mutant: an answer that was lost is taken for a refusal.
MutCallEngineLostIsNo(h) ==
    LET k == call[h].key
    IN  /\ CallAt(h, {"call"})
        /\ \/ EngineCommits(k) /\ CallGoto(h, "done")
           \/ (EngineTimesOut(k) \/ EngineRefuses(k)) /\ CallGoto(h, "refused")
        /\ UNCHANGED <<reconcilerVars, order>>

\* Mutant: an answer that was lost is taken for a commit.
MutCallEngineTrusts(h) ==
    LET k == call[h].key
    IN  /\ CallAt(h, {"call"})
        /\ \/ (EngineCommits(k) \/ EngineTimesOut(k)) /\ CallGoto(h, "done")
           \/ EngineRefuses(k) /\ CallGoto(h, "refused")
        /\ UNCHANGED <<reconcilerVars, order>>

CallEngine(h) ==
    LET k == call[h].key
    IN  /\ CallAt(h, {"call"})
        /\ \/ EngineCommits(k) /\ CallGoto(h, "done")
           \/ EngineTimesOut(k) /\ CallGoto(h, "lost")
           \/ EngineRefuses(k) /\ CallGoto(h, "refused")
        /\ UNCHANGED <<reconcilerVars, order>>

RecordCommit(h) ==
    /\ CallAt(h, {"done"})
    /\ MarkTerminal(call[h].key, "SUCCEEDED")
    /\ CallGoto(h, "accept")
    /\ UNCHANGED <<queueVars, con, order, ledger, inflight>>

RecordFailedCall(h) ==
    /\ CallAt(h, {"lost", "refused"})
    /\ MarkTerminal(call[h].key, "FAILED")
    /\ CallGoto(h, IF CallAt(h, {"lost"}) THEN "publish" ELSE "refuse")
    /\ UNCHANGED <<queueVars, con, order, ledger, inflight>>

\* The row moves to review, or is granted; both writes are by id alone.
Accept(h) ==
    LET k == call[h].key
        status == IF k[1] = "redeem" THEN "UNDER_REVIEW" ELSE "GRANTED"
    IN  /\ CallAt(h, {"accept"})
        /\ order' = [order EXCEPT ![k].status = status, ![k].receipt = TRUE]
        /\ CallRest(h)
        /\ UNCHANGED <<reconcilerVars, ledger, inflight>>

Refuse(h) ==
    LET k == call[h].key
    IN  /\ CallAt(h, {"refuse"})
        /\ SetOrder(k, IF k[1] = "redeem" THEN "REJECTED" ELSE "FAILED")
        /\ CallRest(h)
        /\ UNCHANGED <<reconcilerVars, ledger, inflight>>

PublishLost(h) ==
    /\ CallAt(h, {"publish"})
    /\ BestEffort(Publish(call[h].key, HeldMessages))
    /\ CallRest(h)
    /\ UNCHANGED <<row, con, order, ledger, inflight>>

\* The process dies, or a statement throws; the client may send another call.
CrashCall(h) ==
    /\ "crash" \in Faults
    /\ ~CallAt(h, {"idle", "over"})
    /\ CallRest(h)
    /\ UNCHANGED <<reconcilerVars, order, ledger, inflight>>

HandlerStep(h) ==
    \/ TakeRow(h)
    \/ Journal(h)
    \/ CallEngine(h)
    \/ RecordCommit(h)
    \/ RecordFailedCall(h)
    \/ Accept(h)
    \/ Refuse(h)
    \/ PublishLost(h)

CallStep(h) ==
    \/ \E r \in Redemptions : StartRedeem(h, r)
    \/ \E p \in Periods, a \in Attempts : StartClaim(h, p, a)
    \/ HandlerStep(h)
    \/ CrashCall(h)

-----------------------------------------------------------------------------
(* The reconciler's replay (finalizeReplay) and the late engine.           *)

ClaimOrder(c) ==
    /\ ClaimRow(c, "call")
    /\ UNCHANGED orderVars

\* Mutant: a replay that timed out is taken for committed.
MutReplayedTrusts(c) ==
    LET k == con[c].key
    IN  /\ At(c, "call")
        /\ \/ (EngineCommits(k) \/ EngineTimesOut(k)) /\ Goto(c, "succeed")
           \/ EngineRefuses(k) /\ Goto(c, "abandon")
        /\ UNCHANGED <<row, queueVars, order, call>>

Replayed(c) ==
    LET k == con[c].key
    IN  /\ At(c, "call")
        /\ \/ EngineCommits(k) /\ Goto(c, "succeed")
           \/ /\ EngineTimesOut(k)
              /\ Goto(c, IF con[c].tries < MaxAttempts THEN "fail" ELSE "abandon")
           \/ EngineRefuses(k) /\ Goto(c, "abandon")
        /\ UNCHANGED <<row, queueVars, order, call>>

ConsumerStep(c) ==
    \/ ListenerStep(c, FALSE) /\ UNCHANGED orderVars
    \/ ClaimOrder(c)
    \/ Replayed(c)

LateCommit(k) ==
    /\ CommitsLate(k)
    /\ UNCHANGED <<reconcilerVars, order, call>>

\* An operator's replay of an ABANDONED intent; a failed publish restores the
\* row, a crash in between does not.
Replay(k) ==
    /\ Resurrect(k)
    /\ \/ Publish(k, HeldMessages)
       \/ "crash" \in Faults /\ UNCHANGED queueVars
    /\ UNCHANGED <<con, orderVars>>

\* Retention is days, the life of a handler seconds: nobody works on the key.
Sweep(k) ==
    /\ \A c \in Consumers : ~WorksOn(c, k)
    /\ \A h \in Calls : call[h].key # k
    /\ k \notin inflight
    /\ DeleteSettled(k)
    /\ UNCHANGED <<queueVars, con, orderVars>>

-----------------------------------------------------------------------------
(* What makes an order correct.                                            *)

\* A journal row shown as settled has its movement in the ledger.
SettledIsCommitted == \A k \in Keys : HasStatus(k, {"SUCCEEDED"}) => k \in ledger

\* The row names a ledger transaction only when there is one.
ReceiptIsCommitted == \A k \in OrderKeys : Taken(k) /\ order[k].receipt => k \in ledger

\* "Marking that FAILED would assert an outcome we do not know": an order is only
\* refused when its movement was not made and cannot be made any more.
RefusedIsNotMade ==
    \A k \in OrderKeys : OrderIn(k, {"REJECTED", "FAILED"}) /\ ~order[k].receipt => ~Moved(k)

\* "Exactly one survives": no two credits share a period or an attempt, however
\* the claims of the player, their retries and the replays interleave.
OneCreditPerPeriod ==
    \A g, h \in Calls :
        g # h /\ Moved(Grant(g)) /\ Moved(Grant(h))
            => /\ Taken(Grant(g)) /\ Taken(Grant(h))
               /\ order[Grant(g)].uses \cap order[Grant(h)].uses = {}

=============================================================================
