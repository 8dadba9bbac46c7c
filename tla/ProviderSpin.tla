----------------------------- MODULE ProviderSpin -----------------------------
(***************************************************************************)
(* Rounds of third-party games: the aggregator's spin and rollback         *)
(* webhooks, and the reconciler's win retry and compensation.              *)
(*                                                                         *)
(* A spin debits the bet and, once the bet has committed, credits the win. *)
(* Each movement is journaled under a key of its own, derived from the     *)
(* provider's transaction id.  A rollback reverses a committed bet under a *)
(* key derived from the bet, the one the reconciler uses as well when it   *)
(* gives up on a win.  Webhooks are redelivered, and nothing orders a spin *)
(* and the rollback of its round.                                          *)
(***************************************************************************)
EXTENDS Reconciler, TrueEngine

CONSTANTS
    Rounds,   \* provider_transaction_ids of the rounds
    Winning,  \* the rounds whose spin carries a win
    Calls     \* webhook deliveries, each handled once

Kinds == {"bet", "win", "rollback"}
Payloads == {"payload"}

ASSUME KeysAssumption == Keys = Kinds \X Rounds
ASSUME WinningAssumption == Winning \subseteq Rounds
ASSUME RowAssumption == None \notin RowOf(Payloads)

VARIABLES
    retryable,  \* keys of the rows whose column "retryable" is set
    call        \* call[h]: webhook delivery h

spinVars == <<retryable, ledger, inflight, call>>
vars == <<row, schedule, entries, dlq, con, retryable, ledger, inflight, call>>

Bet(r) == <<"bet", r>>
Win(r) == <<"win", r>>
Rollback(r) == <<"rollback", r>>

\* The key of another movement of the same round.
BetOf(k) == Bet(k[2])
RollbackOf(k) == Rollback(k[2])

CallStates == {"idle", "over", "journal", "call", "done", "lost", "refused", "already", "publish"}
Call == [pc : CallStates, key : Keys \cup {None}]
NoCall == [pc |-> "idle", key |-> None]

TypeOK ==
    /\ ReconcilerTypeOK(Payloads)
    /\ retryable \in SUBSET Keys
    /\ ledger \in SUBSET Keys
    /\ inflight \in SUBSET Keys
    /\ call \in [Calls -> Call]

Init ==
    /\ ReconcilerInit
    /\ retryable = {}
    /\ ledger = {}
    /\ inflight = {}
    /\ call = [h \in Calls |-> NoCall]

CallAt(h, pcs) == call[h].pc \in pcs
CallGoto(h, pc) == call' = [call EXCEPT ![h].pc = pc]
CallRest(h) == call' = [call EXCEPT ![h] = [NoCall EXCEPT !.pc = "over"]]
CallStart(h, k) == call' = [call EXCEPT ![h] = [pc |-> "journal", key |-> k]]

\* A failed call of the engine is recorded with whether it may be retried, on
\* a row that is not final.
SetRetryable(k, flag) ==
    retryable' = IF HasStatus(k, FinalStatuses)
                   THEN retryable
                   ELSE IF flag THEN retryable \cup {k} ELSE retryable \ {k}

\* Somebody is about to settle row k and holds its lock for that.
RowLocked(c, k) ==
    \/ \E h \in Calls : call[h].key = k /\ CallAt(h, {"done", "lost", "refused", "already"})
    \/ \E d \in Consumers \ {c} :
          \/ con[d].key = k /\ At(d, "compensate")
          \/ /\ con[d].pc \in {"reversed", "lost", "refused"}
             /\ k = RollbackOf(con[d].key)

-----------------------------------------------------------------------------
\* The engine commits a request the gateway timed out on.
LateCommit(k) ==
    /\ CommitsLate(k)
    /\ UNCHANGED <<reconcilerVars, retryable, call>>

-----------------------------------------------------------------------------
(* processProviderSpin and processProviderRollback: a delivery journals an *)
(* intent, calls the engine, and records the outcome; a spin then goes on  *)
(* to its win.                                                             *)

StartSpin(h, r) ==
    /\ CallAt(h, {"idle"})
    /\ CallStart(h, Bet(r))
    /\ UNCHANGED <<reconcilerVars, retryable, ledger, inflight>>

\* Mutant: a rollback that goes ahead on any bet it finds journaled.
MutStartRollbackEarly(h, r) ==
    /\ CallAt(h, {"idle"})
    /\ IF Journaled(Bet(r)) THEN CallStart(h, Rollback(r)) ELSE CallRest(h)
    /\ UNCHANGED <<reconcilerVars, retryable, ledger, inflight>>

\* A rollback goes ahead when its bet is committed.  It is answered as void when
\* the bet is taken for never debited, and put off while the bet is in flight.
StartRollback(h, r) ==
    /\ CallAt(h, {"idle"})
    /\ IF HasStatus(Bet(r), {"SUCCEEDED"}) THEN CallStart(h, Rollback(r)) ELSE CallRest(h)
    /\ UNCHANGED <<reconcilerVars, retryable, ledger, inflight>>

Journal(h) ==
    /\ CallAt(h, {"journal"})
    /\ CreateIntentIfAbsent(call[h].key, "payload")
    /\ CallGoto(h, "call")
    /\ UNCHANGED <<queueVars, con, retryable, ledger, inflight>>

\* Mutant: a request that timed out is taken for committed.
MutCallEngineTrusts(h) ==
    LET k == call[h].key
    IN  /\ CallAt(h, {"call"})
        /\ \/ (EngineCommits(k) \/ EngineTimesOut(k)) /\ CallGoto(h, "done")
           \/ EngineRefuses(k) /\ CallGoto(h, "refused")
        /\ UNCHANGED <<reconcilerVars, retryable>>

\* An engine that has reversed the bet may also say so (ROLLBACK_ALREADY).
CallEngine(h) ==
    LET k == call[h].key
    IN  /\ CallAt(h, {"call"})
        /\ \/ EngineCommits(k) /\ CallGoto(h, "done")
           \/ EngineTimesOut(k) /\ CallGoto(h, "lost")
           \/ EngineRefuses(k) /\ CallGoto(h, "refused")
           \/ /\ k[1] = "rollback" /\ k \in ledger
              /\ CallGoto(h, "already")
              /\ UNCHANGED <<ledger, inflight>>
        /\ UNCHANGED <<reconcilerVars, retryable>>

\* A committed bet goes on to its win; a committed rollback answers success.
RecordCommit(h) ==
    LET k == call[h].key
    IN  /\ CallAt(h, {"done"})
        /\ MarkTerminal(k, "SUCCEEDED")
        /\ IF k[1] = "bet" /\ k[2] \in Winning THEN CallStart(h, Win(k[2])) ELSE CallRest(h)
        /\ UNCHANGED <<queueVars, con, retryable, ledger, inflight>>

\* Mutant: a refused win is not handed to the reconciler.
MutRefusedWinEndsHere(h) ==
    LET k == call[h].key
    IN  /\ CallAt(h, {"lost", "refused", "already"})
        /\ MarkTerminal(k, "FAILED")
        /\ SetRetryable(k, ~CallAt(h, {"refused"}))
        /\ IF CallAt(h, {"lost"}) THEN CallGoto(h, "publish") ELSE CallRest(h)
        /\ UNCHANGED <<queueVars, con, ledger, inflight>>

\* A lost answer goes to the reconciler; so does any failed win, because its
\* bet is committed.  A refused or repeated rollback ends here.
RecordFailedCall(h) ==
    LET k == call[h].key
    IN  /\ CallAt(h, {"lost", "refused", "already"})
        /\ MarkTerminal(k, "FAILED")
        /\ SetRetryable(k, ~CallAt(h, {"refused"}))
        /\ IF CallAt(h, {"lost"}) \/ k[1] = "win" THEN CallGoto(h, "publish") ELSE CallRest(h)
        /\ UNCHANGED <<queueVars, con, ledger, inflight>>

PublishFailed(h) ==
    /\ CallAt(h, {"publish"})
    /\ BestEffort(Publish(call[h].key, HeldMessages))
    /\ CallRest(h)
    /\ UNCHANGED <<row, con, retryable, ledger, inflight>>

CrashCall(h) ==
    /\ "crash" \in Faults
    /\ ~CallAt(h, {"idle", "over"})
    /\ CallRest(h)
    /\ UNCHANGED <<reconcilerVars, retryable, ledger, inflight>>

-----------------------------------------------------------------------------
(* dispatch: a bet and a rollback are replayed (finalizeReplay), a win is  *)
(* replayed and at last compensated (reconcileWin).                        *)

TriesLeft(c) == con[c].tries < MaxAttempts

RetryOrAbandon(c) == IF TriesLeft(c) THEN "fail" ELSE "abandon"

ClaimSpin(c) ==
    /\ ClaimRow(c, "call")
    /\ UNCHANGED spinVars

\* A win that is refused or out of attempts is compensated.
GiveUp(c) == IF con[c].key[1] = "win" THEN "lookup" ELSE "abandon"

Replayed(c) ==
    LET k == con[c].key
    IN  /\ At(c, "call")
        /\ \/ EngineCommits(k) /\ Goto(c, "succeed")
           \/ EngineTimesOut(k) /\ Goto(c, IF TriesLeft(c) THEN "fail" ELSE GiveUp(c))
           \/ EngineRefuses(k) /\ Goto(c, GiveUp(c))
        /\ UNCHANGED <<row, queueVars, retryable, call>>

\* compensateWin: only a bet that committed is rolled back.
LookUpBet(c) ==
    /\ At(c, "lookup")
    /\ Goto(c, IF HasStatus(BetOf(con[c].key), {"SUCCEEDED"}) THEN "journal" ELSE RetryOrAbandon(c))
    /\ UNCHANGED <<row, queueVars, spinVars>>

JournalReversal(c) ==
    /\ At(c, "journal")
    /\ CreateIntentIfAbsent(RollbackOf(con[c].key), "payload")
    /\ Goto(c, "reverse")
    /\ UNCHANGED <<queueVars, spinVars>>

\* Mutant: a reversal that timed out is taken for done.
MutReverseBetTrusts(c) ==
    LET k == RollbackOf(con[c].key)
    IN  /\ At(c, "reverse")
        /\ \/ (EngineCommits(k) \/ EngineTimesOut(k)) /\ Goto(c, "reversed")
           \/ EngineRefuses(k) /\ Goto(c, "refused")
        /\ UNCHANGED <<row, queueVars, retryable, call>>

ReverseBet(c) ==
    LET k == RollbackOf(con[c].key)
    IN  /\ At(c, "reverse")
        /\ \/ EngineCommits(k) /\ Goto(c, "reversed")
           \/ EngineTimesOut(k) /\ Goto(c, "lost")
           \/ EngineRefuses(k) /\ Goto(c, "refused")
        /\ UNCHANGED <<row, queueVars, retryable, call>>

SettleReversal(c) ==
    /\ At(c, "reversed")
    /\ MarkTerminal(RollbackOf(con[c].key), "SUCCEEDED")
    /\ Goto(c, "compensate")
    /\ UNCHANGED <<queueVars, spinVars>>

RecordCompensated(c) ==
    /\ At(c, "compensate")
    /\ Overwrite(con[c].key, "COMPENSATED")
    /\ Goto(c, "ack")
    /\ UNCHANGED <<queueVars, spinVars>>

RecordFailedReversal(c) ==
    /\ con[c].pc \in {"lost", "refused"}
    /\ MarkTerminal(RollbackOf(con[c].key), "FAILED")
    /\ SetRetryable(RollbackOf(con[c].key), At(c, "lost"))
    /\ Goto(c, RetryOrAbandon(c))
    /\ UNCHANGED <<queueVars, ledger, inflight, call>>

-----------------------------------------------------------------------------
(* Operator replay of an ABANDONED row, and the retention sweep.           *)

\* The reset of the row and its publish are one step here (Deposit takes them
\* apart): undoing a failed publish restores the row, a crash does not.
Replay(k) ==
    /\ Resurrect(k)
    /\ \/ Publish(k, HeldMessages)
       \/ "crash" \in Faults /\ UNCHANGED queueVars
    /\ retryable' = retryable \ {k}
    /\ UNCHANGED <<con, ledger, inflight, call>>

\* Retention is days, the life of a handler seconds: nobody works on the round.
Sweep(k) ==
    /\ \A c \in Consumers, kind \in Kinds : ~WorksOn(c, <<kind, k[2]>>)
    /\ \A h \in Calls, kind \in Kinds : call[h].key # <<kind, k[2]>>
    /\ \A kind \in Kinds : <<kind, k[2]>> \notin inflight
    /\ DeleteSettled(k)
    /\ retryable' = retryable \ {k}
    /\ UNCHANGED <<queueVars, con, ledger, inflight, call>>

-----------------------------------------------------------------------------
\* What a delivery does once it runs; deliveries are up to the provider.
HandlerStep(h) ==
    \/ Journal(h)
    \/ CallEngine(h)
    \/ RecordCommit(h)
    \/ RecordFailedCall(h)
    \/ PublishFailed(h)

CallStep(h) ==
    \/ \E r \in Rounds : StartSpin(h, r) \/ StartRollback(h, r)
    \/ HandlerStep(h)
    \/ CrashCall(h)

ConsumerWork(c) ==
    \/ ClaimSpin(c)
    \/ Replayed(c)
    \/ LookUpBet(c)
    \/ JournalReversal(c)
    \/ ReverseBet(c)
    \/ SettleReversal(c)
    \/ RecordCompensated(c)
    \/ RecordFailedReversal(c)

\* markFailed sets the column retryable with the status FAILED.
Listen(c) ==
    /\ ListenerStep(c, RowLocked(c, con[c].key))
    /\ retryable' = IF At(c, "fail") /\ con'[c].pc = "retry"
                      THEN retryable \cup {con[c].key}
                      ELSE retryable
    /\ UNCHANGED <<ledger, inflight, call>>

ConsumerStep(c) == Listen(c) \/ ConsumerWork(c)

KeyStep(k) ==
    \/ LateCommit(k)
    \/ Replay(k)
    \/ Sweep(k)

Next ==
    \/ \E h \in Calls : CallStep(h)
    \/ \E c \in Consumers : ConsumerStep(c)
    \/ \E k \in Keys : KeyStep(k)

Spec == Init /\ [][Next]_vars

\* As for the deposits: what runs goes on, and the listener passes nothing over.
Fairness ==
    /\ \A c \in Consumers : WF_vars(ConsumerStep(c) /\ ~At(c, "idle"))
    /\ \A h \in Calls : WF_vars(HandlerStep(h))
    /\ \A h \in Calls : SF_vars(PublishFailed(h))
    /\ \A k \in Keys : SF_vars(\E c \in Consumers : DrainDue(c, k) /\ UNCHANGED spinVars)
    /\ \A m \in Messages : SF_vars(\E c \in Consumers : Pull(c, m) /\ UNCHANGED spinVars)

FairSpec == Spec /\ Fairness

-----------------------------------------------------------------------------
(* What makes a round correct.                                             *)

\* A row shown as settled has its movement in the ledger.
SettledIsCommitted == \A k \in Keys : HasStatus(k, {"SUCCEEDED"}) => k \in ledger

\* "Only roll back a bet that actually committed ... rather than rolling back a
\* phantom debit" (compensateWin); a win, too, is only sent after its debit.
\* A request under way counts as sent.
MovesFollowDebit ==
    \A r \in Rounds :
        {Win(r), Rollback(r)} \cap (ledger \cup inflight) # {} => Bet(r) \in ledger

\* A win is only shown as compensated when its bet has been given back.
CompensatedIsReversed ==
    \A r \in Rounds : HasStatus(Win(r), {"COMPENSATED"}) => Rollback(r) \in ledger

\* An operator can see the key.
Visible(k) == k \in dlq \/ HasStatus(k, {"ABANDONED"})

\* The key is on its way: a broker structure or a process will look at it.
OnItsWay(k) ==
    \/ k \in schedule
    \/ InStream(k)
    \/ \E c \in Consumers : HasInHand(c, k) /\ ~At(c, "ack")
    \/ \E h \in Calls : call[h].key = k

WinSettled(r) == {Win(r), Rollback(r)} \cap ledger # {}

\* The player is not left debited for an unpaid spin: a win that was journaled
\* is paid, or its bet is reversed, or it is on its way to either ...
NoWinDropped ==
    \A r \in Rounds :
        Journaled(Win(r)) => WinSettled(r) \/ Visible(Win(r)) \/ OnItsWay(Win(r))

\* ... and it does not stay on its way for ever.
WinIsResolved ==
    \A r \in Rounds : Journaled(Win(r)) ~> (WinSettled(r) \/ Visible(Win(r)))

\* processProviderRollback's reading of a bet that has not committed: still in
\* flight ("retry the rollback shortly"), or never debited.
BetInFlight(r) ==
    \/ HasStatus(Bet(r), {"PENDING"})
    \/ HasStatus(Bet(r), {"FAILED"}) /\ Bet(r) \in retryable

TakenForUndebited(r) ==
    /\ Journaled(Bet(r))
    /\ ~HasStatus(Bet(r), {"SUCCEEDED"})
    /\ ~BetInFlight(r)

\* A rollback is not put off for ever: "retry shortly (retryable), by which
\* point the bet has settled either way" (processProviderRollback).
DeferralEnds == \A r \in Rounds : BetInFlight(r) ~> ~BetInFlight(r)

\* "FAILED (terminal) / ABANDONED / COMPENSATED -> never debited": the bet of a
\* round answered as void has not been taken from the player.
VoidIsUndebited == \A r \in Rounds : TakenForUndebited(r) => Bet(r) \notin ledger

=============================================================================
