------------------------- MODULE SpinRecoveryProofs -------------------------
(***************************************************************************)
(* No win is dropped: while nothing fails but the engine's answers (lost,  *)
(* late or refusals) and the pace of the consumers, a journaled win is     *)
(* paid, or its bet is given back, or an operator sees it, or something    *)
(* will look at it again.  A crash between the journal and the publish, or *)
(* a publish the broker refuses, breaks this, so the theorem assumes that  *)
(* there is no fault.                                                      *)
(*                                                                         *)
(* The argument is the one of the deposits, with two differences.  A win   *)
(* has no backstop: what covers it before it fails is the very delivery    *)
(* that journaled it.  And a consumer may also let go of a win because it  *)
(* has reversed the bet, so it matters that the reversal is in the ledger. *)
(***************************************************************************)
EXTENDS SpinProofs

\* Nothing more is owed for k: it is committed, or its round is reversed.
Settled(k) == k \in ledger \/ RollbackOf(k) \in ledger

\* A delivery that has journaled k, or is about to publish it.
CallCarries(k) ==
    \E h \in Calls : call[h].key = k /\ call[h].pc \notin {"idle", "over", "journal"}

Carried(k) == Covered(k) \/ CallCarries(k)

FlowOK(k) == Journaled(k) /\ k[1] = "win" => Settled(k) \/ Visible(k) \/ Carried(k)

BudgetOK(k) ==
    Spent(k) => k \in dlq \/ Settled(k) \/ \E c \in Consumers : LastTry(c, k)

RecoveryInv ==
    /\ MessagesOK
    /\ \A k \in Keys : BudgetOK(k) /\ FlowOK(k)

-----------------------------------------------------------------------------
(* What keeps the parts of the invariant.                                  *)

\* A status write does not take an ABANDONED row out of an operator's sight,
\* unless it overwrites it.
LEMMA TerminalStaysVisible ==
    ASSUME NEW k \in Keys, NEW status \in Statuses, MarkTerminal(k, status), dlq' = dlq,
           JournalTypeOK(Payloads)
    PROVE  \A j \in Keys : Visible(j) => Visible(j)'
  BY DEF MarkTerminal, JournalTypeOK, Visible, HasStatus, Journaled, FinalStatuses

\* A budget is kept by whoever spends nothing and abandons no last attempt.
LEMMA BudgetStays ==
    ASSUME NEW k \in Keys, BudgetOK(k), Spent(k)' => Spent(k),
           dlq \subseteq dlq', ledger \subseteq ledger',
           \A c \in Consumers : LastTry(c, k) => LastTry(c, k)' \/ k \in dlq' \/ Settled(k)'
    PROVE  BudgetOK(k)'
  BY DEF BudgetOK, Settled

\* A win stays in sight.
LEMMA FlowStays ==
    ASSUME NEW k \in Keys, FlowOK(k), ledger \subseteq ledger',
           Journaled(k)' /\ k[1] = "win" => Journaled(k) \/ Carried(k)',
           Visible(k) => Visible(k)' \/ Carried(k)' \/ Settled(k)',
           k[1] = "win" /\ Carried(k) => Carried(k)' \/ Settled(k)' \/ Visible(k)'
    PROVE  FlowOK(k)'
  BY DEF FlowOK, Settled

-----------------------------------------------------------------------------
(* The webhook deliveries.                                                 *)

\* A delivery leaves its win paid, or published.
LEMMA CallRecovers ==
    ASSUME IInv, RecoveryInv, Faults = {}, NEW h \in Calls, CallStep(h)
    PROVE  RecoveryInv'
  <1> USE DEF reconcilerVars
  <1>t. /\ TypeOK /\ CallOK(h) /\ JournalTypeOK(Payloads) /\ QueueTypeOK
        /\ call \in [Calls -> Call]
    BY DEF IInv, TypeOK, ReconcilerTypeOK
  <1>u. con' = con /\ dlq' = dlq /\ ledger \subseteq ledger' /\ ~CrashCall(h)
    BY DEF CallStep, HandlerStep, StartSpin, StartRollback, Journal, CallEngine, RecordCommit,
           RecordFailedCall, PublishFailed, CrashCall, EngineCommits, EngineTimesOut, EngineRefuses,
           BestEffort, Publish, AddEntry, queueVars
  <1>o. \A g \in Calls : g # h => call'[g] = call[g]
    BY <1>t DEF CallStep, HandlerStep, StartSpin, StartRollback, Journal, CallEngine, RecordCommit,
                RecordFailedCall, PublishFailed, CrashCall, CallGoto, CallRest, CallStart
  <1>k. CASE HandlerStep(h)
    <2>k. PICK k \in Keys : k = call[h].key
      BY <1>t, <1>k DEF HandlerStep, Journal, CallEngine, RecordCommit, RecordFailedCall,
                        PublishFailed, CallAt, CallOK
    \* The journal.
    <2>w. /\ SpendsNothing
          /\ \A j \in Keys : /\ Visible(j) => Visible(j)'
                             /\ Journaled(j)' => Journaled(j) \/ (j = k /\ Journal(h))
      <3>1. CASE Journal(h)
        <4>1. CreateIntentIfAbsent(k, "payload") /\ "payload" \in Payloads
          BY <2>k, <3>1 DEF Journal, Payloads
        <4>2. SpendsNothing
          BY <1>t, <4>1, WritesSpendNothing, RowAssumption
        <4> QED
          BY <1>t, <1>u, <3>1, <4>1, <4>2
             DEF CreateIntentIfAbsent, Visible, HasStatus, Journaled, JournalTypeOK
      <3>2. CASE RecordCommit(h) \/ RecordFailedCall(h)
        <4>1. PICK status \in Statuses : MarkTerminal(k, status)
          BY <2>k, <3>2 DEF RecordCommit, RecordFailedCall, Statuses, OpenStatuses, FinalStatuses
        <4>2. SpendsNothing
          BY <1>t, <4>1, WritesSpendNothing, RowAssumption
        <4>3. Writes(k, {status}) /\ Journaled(k)
          BY <1>t, <4>1, StatusWrites, RowAssumption DEF MarkTerminal
        <4>4. \A j \in Keys : Visible(j) => Visible(j)'
          BY <1>t, <1>u, <4>1, TerminalStaysVisible
        <4> QED
          BY <4>2, <4>3, <4>4 DEF Writes, Journaled
      <3>3. CASE CallEngine(h) \/ PublishFailed(h)
        <4>1. row' = row
          BY <3>3 DEF CallEngine, PublishFailed
        <4> QED
          BY <1>u, <4>1 DEF SpendsNothing, Spent, Visible, HasStatus, Journaled
      <3> QED
        BY <1>k, <3>1, <3>2, <3>3 DEF HandlerStep
    \* The broker.
    <2>q. MessagesOK' /\ CoverStays /\ (PublishFailed(h) => Covered(k)')
      <3>1. CASE PublishFailed(h)
        <4>1. Publish(k, HeldMessages)
          BY <2>k, <3>1 DEF PublishFailed, BestEffort
        <4> QED
          BY <1>t, <1>u, <4>1, PublishCovers DEF RecoveryInv
      <3>2. CASE ~PublishFailed(h)
        <4>1. UNCHANGED queueVars
          BY <1>k, <3>2 DEF HandlerStep, Journal, CallEngine, RecordCommit, RecordFailedCall, queueVars
        <4> QED
          BY <1>u, <3>2, <4>1, CoverUnchanged DEF RecoveryInv
      <3> QED
        BY <3>1, <3>2
    \* The delivery.
    <2>c. /\ Journal(h) => CallCarries(k)'
          /\ \A j \in Keys : j[1] = "win" /\ CallCarries(j) => CallCarries(j)' \/ Covered(j)' \/ Settled(j)'
      <3>1. CASE Journal(h) \/ CallEngine(h)
        <4>1. call'[h].key = k /\ call'[h].pc \notin {"idle", "over", "journal"}
          BY <1>t, <2>k, <3>1 DEF Journal, CallEngine, CallGoto, Call
        <4> QED
          BY <1>o, <2>k, <4>1 DEF CallCarries
      <3>2. CASE RecordCommit(h)
        <4>1. k \in ledger'
          BY <1>t, <1>u, <2>k, <3>2 DEF RecordCommit, CallAt, CallOK
        <4> QED
          BY <1>o, <2>k, <3>2, <4>1 DEF CallCarries, Settled, Journal, RecordCommit, CallAt
      <3>3. CASE RecordFailedCall(h)
        <4>1. k[1] = "win" => call'[h].key = k /\ call'[h].pc = "publish"
          BY <1>t, <2>k, <3>3 DEF RecordFailedCall, CallGoto, Call
        <4> QED
          BY <1>o, <2>k, <3>3, <4>1 DEF CallCarries, Journal, RecordFailedCall, CallAt
      <3>4. CASE PublishFailed(h)
        BY <1>o, <2>k, <2>q, <3>4 DEF CallCarries, Journal, PublishFailed, CallAt
      <3> QED
        BY <1>k, <3>1, <3>2, <3>3, <3>4 DEF HandlerStep
    <2>1. ASSUME NEW j \in Keys PROVE BudgetOK(j)' /\ FlowOK(j)'
      <3>1. BudgetOK(j)'
        BY <1>u, <2>w, BudgetStays DEF RecoveryInv, SpendsNothing, LastTry
      <3>2. FlowOK(j)'
        BY <1>u, <2>w, <2>q, <2>c, FlowStays DEF RecoveryInv, Carried, CoverStays
      <3> QED
        BY <3>1, <3>2
    <2> QED
      BY <2>1, <2>q DEF RecoveryInv
  <1>s. ASSUME NEW r \in Rounds, StartSpin(h, r) \/ StartRollback(h, r)
        PROVE  RecoveryInv'
    <2>1. UNCHANGED <<row, queueVars, con, ledger>> /\ call[h].pc = "idle"
      BY <1>s DEF StartSpin, StartRollback, CallAt, queueVars
    <2>2. MessagesOK' /\ CoverStays
      BY <2>1, CoverUnchanged DEF RecoveryInv
    <2>3. \A k \in Keys : CallCarries(k) => CallCarries(k)'
      BY <1>o, <2>1 DEF CallCarries
    <2>4. ASSUME NEW k \in Keys PROVE BudgetOK(k)' /\ FlowOK(k)'
      <3>1. BudgetOK(k)'
        BY <2>1 DEF RecoveryInv, BudgetOK, Spent, Settled, LastTry, Journaled, queueVars
      <3>2. FlowOK(k)'
        BY <2>1, <2>2, <2>3, FlowStays
           DEF RecoveryInv, Carried, CoverStays, Visible, HasStatus, Journaled, queueVars
      <3> QED
        BY <3>1, <3>2
    <2> QED
      BY <2>2, <2>4 DEF RecoveryInv
  <1> QED
    BY <1>k, <1>s, <1>u DEF CallStep

-----------------------------------------------------------------------------
(* The operator, the engine and the retention sweep.                       *)

\* A replay is published with the reset, a swept row was settled.
LEMMA KeyRecovers ==
    ASSUME IInv, RecoveryInv, Faults = {}, NEW k \in Keys, KeyStep(k)
    PROVE  RecoveryInv'
  <1> USE DEF reconcilerVars
  <1>t. TypeOK /\ JournalTypeOK(Payloads) /\ QueueTypeOK
    BY DEF IInv, TypeOK, ReconcilerTypeOK
  <1>u. con' = con /\ dlq' = dlq /\ call' = call /\ ledger \subseteq ledger'
    BY DEF KeyStep, LateCommit, CommitsLate, EngineCommits, Replay, Sweep, Publish, AddEntry, queueVars
  <1>q. MessagesOK' /\ CoverStays /\ (Replay(k) => Covered(k)')
    <2>1. CASE Replay(k)
      <3>1. Publish(k, HeldMessages)
        BY <2>1 DEF Replay
      <3> QED
        BY <1>t, <1>u, <3>1, PublishCovers DEF RecoveryInv
    <2>2. CASE ~Replay(k)
      <3>1. UNCHANGED queueVars
        BY <2>2 DEF KeyStep, LateCommit, Sweep, queueVars
      <3> QED
        BY <1>u, <2>2, <3>1, CoverUnchanged DEF RecoveryInv
    <2> QED
      BY <2>1, <2>2
  <1>w. /\ SpendsNothing
        /\ \A j \in Keys : /\ Visible(j) => Visible(j)' \/ (Replay(k) /\ j = k)
                           /\ Journaled(j)' => Journaled(j)
    <2>1. CASE Replay(k)
      <3>1. Resurrect(k)
        BY <2>1 DEF Replay
      <3>2. SpendsNothing
        BY <1>t, <3>1, WritesSpendNothing, RowAssumption
      <3> QED
        BY <1>t, <1>u, <2>1, <3>1, <3>2
           DEF Resurrect, JournalTypeOK, Visible, HasStatus, Journaled
    <2>2. CASE Sweep(k)
      <3>1. DeleteSettled(k)
        BY <2>2 DEF Sweep
      <3>2. SpendsNothing
        BY <1>t, <3>1, WritesSpendNothing, RowAssumption
      <3> QED
        BY <1>t, <1>u, <3>1, <3>2
           DEF DeleteSettled, JournalTypeOK, Visible, HasStatus, Journaled
    <2>3. CASE LateCommit(k)
      <3>1. row' = row
        BY <2>3 DEF LateCommit
      <3> QED
        BY <1>u, <3>1 DEF SpendsNothing, Spent, Visible, HasStatus, Journaled
    <2> QED
      BY <2>1, <2>2, <2>3 DEF KeyStep
  <1>1. ASSUME NEW j \in Keys PROVE BudgetOK(j)' /\ FlowOK(j)'
    <2>1. BudgetOK(j)'
      BY <1>u, <1>w, BudgetStays DEF RecoveryInv, SpendsNothing, LastTry
    <2>2. FlowOK(j)'
      BY <1>u, <1>w, <1>q, FlowStays DEF RecoveryInv, Carried, CallCarries, CoverStays
    <2> QED
      BY <2>1, <2>2
  <1> QED
    BY <1>1, <1>q DEF RecoveryInv

-----------------------------------------------------------------------------
(* The consumers.                                                          *)

\* A consumer that skips a win leaves it to whoever holds it, or to whoever
\* makes its last attempt, or has nothing to do for it.
LEMMA SkipIsSafe ==
    ASSUME IInv, RecoveryInv, NEW c \in Consumers, NEW k \in Keys, k[1] = "win", Journaled(k),
           LetsGo(c, k, RowLocked(c, con[c].key))
    PROVE  \/ Settled(k) \/ Visible(k) \/ CallCarries(k)
           \/ \E d \in Consumers : d # c /\ Handles(d, k)
  <1>t. ConsumerOK(c) /\ RowOK(k) /\ JournalTypeOK(Payloads)
    BY DEF IInv, TypeOK, ReconcilerTypeOK
  <1>1. CASE At(c, "succeed")
    BY <1>t, <1>1 DEF LetsGo, At, ConsumerOK, Settled
  <1>2. CASE RowLocked(c, k)
    <2>1. k # RollbackOf(con[c].key) /\ \A d \in Consumers : k # RollbackOf(con[d].key)
      BY DEF RollbackOf, Rollback
    <2> QED
      BY <1>2, <2>1 DEF RowLocked, CallAt, CallCarries, Handles, HasInHand, At
  <1>3. CASE At(c, "claim") /\ ~Claimable(k)
    <2>1. \/ HasStatus(k, {"SUCCEEDED"}) \/ HasStatus(k, {"COMPENSATED"}) \/ HasStatus(k, {"ABANDONED"})
          \/ Spent(k)
      BY <1>t, <1>3, AttemptsAssumption
         DEF Claimable, HasStatus, Spent, JournalTypeOK, RowOf, Statuses, OpenStatuses, FinalStatuses,
             Journaled
    <2>2. ASSUME NEW d \in Consumers, LastTry(d, k)
          PROVE  d # c /\ Handles(d, k)
      BY <1>3, <2>2 DEF LastTry, Handles, HasInHand, At, Working, Reversing
    <2> QED
      BY <1>t, <2>1, <2>2 DEF RecoveryInv, BudgetOK, RowOK, Settled, Visible
  <1> QED
    BY <1>1, <1>2, <1>3 DEF LetsGo

\* The listener drops no win.
LEMMA ListenRecovers ==
    ASSUME IInv, RecoveryInv, Faults = {}, NEW c \in Consumers, Listen(c)
    PROVE  RecoveryInv'
  <1>t. TypeOK /\ ReconcilerTypeOK(Payloads) /\ JournalTypeOK(Payloads) /\ ConsumerOK(c) /\ HandsOK(c)
    BY DEF IInv, TypeOK, ReconcilerTypeOK, ConsumerOK
  <1>u. UNCHANGED <<ledger, call>> /\ ListenerStep(c, RowLocked(c, con[c].key))
    BY DEF Listen
  <1>q. /\ MessagesOK'
        /\ \A k \in Keys : Covered(k) => \/ Covered(k)' \/ k \in dlq'
                                         \/ LetsGo(c, k, RowLocked(c, con[c].key))
    BY <1>t, <1>u, ListenerCovers DEF RecoveryInv
  <1>s. /\ SpendsNothing
        /\ dlq \subseteq dlq'
        /\ \A d \in Consumers, k \in Keys :
              LastTry(d, k) => LastTry(d, k)' \/ k \in dlq' \/ (d = c /\ At(c, "succeed"))
    BY <1>t, <1>u, ListenerTries, RowAssumption
  <1>l. Listens(c)
    BY <1>t, <1>u, ListenerShape, RowAssumption
  \* The journal.
  <1>w. /\ At(c, "claim") => row' = row
        /\ \A k \in Keys : /\ Visible(k) => Visible(k)' \/ Covered(k)'
                           /\ Journaled(k)' => Journaled(k)
    <2>1. CASE row' = row
      BY <1>s, <2>1 DEF Visible, HasStatus, Journaled
    <2>2. CASE row' # row
      <3>1. PICK status \in Statuses : Disposes(c, status) /\ Writes(con[c].key, {status})
        BY <1>l, <2>2 DEF Listens
      <3>k. PICK k \in Keys : k = con[c].key
        BY <1>t, <3>1 DEF Disposes, At, HandsOK
      <3>2. RecordSuccess(c) \/ RecordFailure(c) \/ RecordAbandon(c)
        BY <1>u, <2>2 DEF ListenerStep, DrainDue, Republish, Pull, Reclaim, SkipRow, Reschedule,
                          DeadLetter, Acknowledge, Throw, CrashConsumer
      <3>3. Journaled(k)
        BY <3>2, <3>k DEF RecordSuccess, RecordFailure, RecordAbandon, MarkTerminal, Overwrite
      <3>4. Visible(k) => Visible(k)' \/ Covered(k)'
        <4>2. CASE RecordSuccess(c)
          BY <1>s, <3>k, <4>2 DEF RecordSuccess, MarkTerminal, Visible, HasStatus, Journaled, FinalStatuses
        <4>3. CASE RecordFailure(c)
          BY <1>t, <3>k, <4>3 DEF RecordFailure, Goto, Covered, Handles, HasInHand, At,
                                  ReconcilerTypeOK, Consumer
        <4>4. CASE RecordAbandon(c)
          <5>1. row' = [row EXCEPT ![k].status = "ABANDONED"] /\ row[k] \in RowOf(Payloads)
            BY <1>t, <3>k, <4>4 DEF RecordAbandon, Overwrite, JournalTypeOK, Journaled
          <5>2. row'[k].status = "ABANDONED"
            BY <1>t, <5>1 DEF JournalTypeOK, RowOf
          <5> QED
            BY <3>1, <3>3, <3>k, <5>2 DEF Visible, HasStatus, Writes, RowsStay
        <4> QED
          BY <3>2, <4>2, <4>3, <4>4
      <3> QED
        BY <1>s, <3>1, <3>k, <3>3, <3>4 DEF Writes, Visible, HasStatus, Journaled, Disposes, At
    <2> QED
      BY <2>1, <2>2
  <1>1. ASSUME NEW k \in Keys PROVE BudgetOK(k)'
    <2> SUFFICES ASSUME NEW d \in Consumers, LastTry(d, k)
                 PROVE  LastTry(d, k)' \/ k \in dlq' \/ Settled(k)'
      BY <1>s, <1>u, BudgetStays DEF RecoveryInv, SpendsNothing
    <2> QED
      BY <1>s, <1>t, <1>u DEF LastTry, ConsumerOK, At, Settled
  <1>2. ASSUME NEW k \in Keys PROVE FlowOK(k)'
    <2>1. CASE ~Journaled(k) \/ k[1] # "win"
      BY <1>w, <2>1 DEF FlowOK
    <2>2. CASE Journaled(k) /\ k[1] = "win"
      <3>1. ASSUME LetsGo(c, k, RowLocked(c, con[c].key))
            PROVE  Carried(k)' \/ Settled(k)' \/ Visible(k)'
        <4>1. \A d \in Consumers : d # c /\ Handles(d, k) => Covered(k)'
          BY <1>l DEF Listens, Covered, Handles, HasInHand, At
        <4>2. (Settled(k) => Settled(k)') /\ (CallCarries(k) => CallCarries(k)')
          BY <1>u DEF Settled, CallCarries
        <4> QED
          BY <1>w, <2>2, <3>1, <4>1, <4>2, SkipIsSafe DEF Carried
      <3>2. Carried(k) => Carried(k)' \/ Settled(k)' \/ Visible(k)'
        BY <1>q, <1>u, <3>1 DEF Carried, CallCarries, Visible
      <3> QED
        BY <1>u, <1>w, <2>2, <3>2, FlowStays DEF RecoveryInv, Carried
    <2> QED
      BY <2>1, <2>2
  <1> QED
    BY <1>1, <1>2, <1>q DEF RecoveryInv

\* Neither does the work: a consumer puts a win off only while attempts are
\* left, and lets go of it only when its bet has been given back.
LEMMA WorkRecovers ==
    ASSUME IInv, RecoveryInv, NEW c \in Consumers, ConsumerWork(c)
    PROVE  RecoveryInv'
  <1>t. /\ TypeOK /\ JournalTypeOK(Payloads) /\ ConsumerOK(c) /\ HandsOK(c)
        /\ con \in [Consumers -> Consumer]
    BY DEF IInv, TypeOK, ReconcilerTypeOK, ConsumerOK
  <1>b. con[c].pc \in {"claim", "call"} \cup Reversing
    BY DEF ConsumerWork, ClaimSpin, ClaimRow, Replayed, LookUpBet, JournalReversal, ReverseBet,
           SettleReversal, RecordCompensated, RecordFailedReversal, At, Reversing
  <1>k. PICK k \in Keys : k = con[c].key
    BY <1>t, <1>b DEF HandsOK, Reversing
  <1>r. RollbackOf(k) \in Keys /\ RollbackOf(k)[1] # "win"
    BY KeysOfRounds DEF RollbackOf, Rollback
  <1>u. UNCHANGED <<queueVars, call>> /\ dlq' = dlq /\ ledger \subseteq ledger'
    BY DEF ConsumerWork, ClaimSpin, ClaimRow, Replayed, LookUpBet, JournalReversal, ReverseBet,
           SettleReversal, RecordCompensated, RecordFailedReversal, spinVars, queueVars,
           EngineCommits, EngineTimesOut, EngineRefuses
  <1>o. RecordCompensated(c) => RollbackOf(k) \in ledger'
    BY <1>t, <1>k, <1>u DEF RecordCompensated, At, ConsumerOK
  \* What the consumer goes on with.
  <1>c. /\ \A d \in Consumers : d # c => con'[d] = con[d]
        /\ con'[c].key = k /\ con'[c].msg = con[c].msg
        /\ con'[c].pc \in {"call", "succeed", "fail", "abandon"} \cup Reversing
             \/ (RecordCompensated(c) /\ con'[c].pc = "ack")
    BY <1>t, <1>k DEF ConsumerWork, ClaimSpin, ClaimRow, Replayed, LookUpBet, JournalReversal,
                      ReverseBet, SettleReversal, RecordCompensated, RecordFailedReversal, Goto,
                      GiveUp, RetryOrAbandon, Consumer, Reversing
  <1>l. LastTry(c, k) => LastTry(c, k)' \/ Settled(k)'
    <2>1. CASE ClaimSpin(c)
      BY <2>1 DEF ClaimSpin, ClaimRow, At, LastTry, Working, Reversing
    <2>2. CASE RecordCompensated(c)
      BY <1>o, <2>2 DEF Settled
    <2>3. CASE ~ClaimSpin(c) /\ ~RecordCompensated(c)
      <3> SUFFICES ASSUME con[c].tries = MaxAttempts
                   PROVE  con'[c].tries = MaxAttempts /\ con'[c].pc \in Working \ {"fail"}
        BY <1>c, <1>k DEF LastTry
      <3>1. ~TriesLeft(c) /\ RetryOrAbandon(c) = "abandon" /\ GiveUp(c) \in {"lookup", "abandon"}
        BY AttemptsAssumption DEF TriesLeft, RetryOrAbandon, GiveUp
      <3>2. con'[c].tries = con[c].tries /\ con'[c].pc # "fail"
        BY <1>t, <2>3, <3>1
           DEF ConsumerWork, Replayed, LookUpBet, JournalReversal, ReverseBet, SettleReversal,
               RecordFailedReversal, Goto, Consumer
      <3> QED
        BY <1>c, <2>3, <3>2 DEF Working
    <2> QED
      BY <2>1, <2>2, <2>3
  \* The journal.
  <1>w. \A j \in Keys : /\ Visible(j) => Visible(j)' \/ Settled(j)'
                        /\ Journaled(j)' /\ j[1] = "win" => Journaled(j)
                        /\ Spent(j)' => Spent(j) \/ LastTry(c, j)'
    <2>1. CASE ClaimSpin(c)
      <3>1. Claim(k) /\ con'[c].tries = row[k].attempts + 1 /\ con'[c].pc = "call"
        BY <1>t, <1>k, <2>1 DEF ClaimSpin, ClaimRow, Consumer
      <3>2. Writes(k, {row[k].status}) /\ Journaled(k)
        BY <1>t, <3>1, ClaimWrites, RowAssumption
      <3>3. \A j \in Keys : Spent(j)' => Spent(j) \/ LastTry(c, j)'
        BY <1>c, <1>t, <3>1, ClaimSpends DEF LastTry, Working
      <3> QED
        BY <1>u, <3>2, <3>3 DEF Writes, RowsStay, Visible, HasStatus, Journaled
    <2>2. CASE JournalReversal(c)
      <3>1. CreateIntentIfAbsent(RollbackOf(k), "payload") /\ "payload" \in Payloads
        BY <1>k, <2>2 DEF JournalReversal, Payloads
      <3>2. SpendsNothing
        BY <1>t, <1>r, <3>1, WritesSpendNothing, RowAssumption
      <3> QED
        BY <1>t, <1>r, <1>u, <3>1, <3>2
           DEF SpendsNothing, CreateIntentIfAbsent, Visible, HasStatus, Journaled, JournalTypeOK
    <2>3. CASE SettleReversal(c) \/ RecordFailedReversal(c)
      <3>1. PICK status \in Statuses : MarkTerminal(RollbackOf(k), status)
        BY <1>k, <2>3 DEF SettleReversal, RecordFailedReversal, Statuses, OpenStatuses, FinalStatuses
      <3>2. SpendsNothing
        BY <1>t, <1>r, <3>1, WritesSpendNothing, RowAssumption
      <3>3. Writes(RollbackOf(k), {status})
        BY <1>t, <1>r, <3>1, StatusWrites, RowAssumption
      <3>4. \A j \in Keys : Visible(j) => Visible(j)'
        BY <1>t, <1>r, <1>u, <3>1, TerminalStaysVisible
      <3> QED
        BY <1>r, <3>2, <3>3, <3>4 DEF SpendsNothing, Writes, Journaled
    <2>4. CASE RecordCompensated(c)
      <3>1. Overwrite(k, "COMPENSATED") /\ "COMPENSATED" \in Statuses
        BY <1>k, <2>4 DEF RecordCompensated, Statuses, FinalStatuses
      <3>2. SpendsNothing
        BY <1>t, <3>1, WritesSpendNothing, RowAssumption
      <3>3. Writes(k, {"COMPENSATED"}) /\ Journaled(k)
        BY <1>t, <3>1, StatusWrites, RowAssumption DEF Overwrite
      <3>4. Settled(k)'
        BY <1>o, <2>4 DEF Settled
      <3> QED
        BY <1>u, <3>2, <3>3, <3>4 DEF SpendsNothing, Writes, Visible, HasStatus, Journaled
    <2>5. CASE Replayed(c) \/ LookUpBet(c) \/ ReverseBet(c)
      <3>1. row' = row
        BY <2>5 DEF Replayed, LookUpBet, ReverseBet
      <3> QED
        BY <1>u, <3>1 DEF Spent, Visible, HasStatus, Journaled
    <2> QED
      BY <2>1, <2>2, <2>3, <2>4, <2>5 DEF ConsumerWork
  <1>q. MessagesOK' /\ \A j \in Keys : Covered(j) => Covered(j)' \/ Settled(j)'
    <2>1. /\ con[c].pc \notin {"idle", "drained", "ack"}
          /\ con'[c].pc \notin {"idle", "drained"}
          /\ con'[c].pc = "ack" => RecordCompensated(c)
      BY <1>b, <1>c DEF Reversing
    <2>2. Covered(k) => Covered(k)' \/ Settled(k)'
      BY <1>c, <1>k, <1>o, <1>u, <2>1, WorkCovers DEF RecoveryInv, Settled
    <2> QED
      BY <1>c, <1>k, <1>u, <2>1, <2>2, WorkCovers DEF RecoveryInv
  <1>1. ASSUME NEW j \in Keys PROVE BudgetOK(j)' /\ FlowOK(j)'
    <2>1. BudgetOK(j)'
      BY <1>c, <1>k, <1>l, <1>u, <1>w DEF RecoveryInv, BudgetOK, LastTry, Settled
    <2>2. CallCarries(j) => CallCarries(j)'
      BY <1>u DEF CallCarries
    <2>3. FlowOK(j)'
      BY <1>q, <1>u, <1>w, <2>2, FlowStays DEF RecoveryInv, Carried
    <2> QED
      BY <2>1, <2>3
  <1> QED
    BY <1>1, <1>q DEF RecoveryInv

-----------------------------------------------------------------------------
(* The theorems.                                                           *)

LEMMA InitRecovers == Init => RecoveryInv
  <1> SUFFICES ASSUME Init
               PROVE  RecoveryInv
    OBVIOUS
  <1>1. MessagesOK
    BY DEF Init, ReconcilerInit, Resting, MessagesOK, MessageOK, HandsOK, At
  <1>2. \A k \in Keys : ~Journaled(k)
    BY DEF Init, ReconcilerInit, JournalInit, Journaled
  <1> QED
    BY <1>1, <1>2 DEF RecoveryInv, BudgetOK, Spent, FlowOK

\* Nobody loses sight of a win.
LEMMA StepRecovers == Faults = {} /\ IInv /\ RecoveryInv /\ [Next]_vars => RecoveryInv'
  <1> SUFFICES ASSUME Faults = {}, IInv, RecoveryInv, [Next]_vars
               PROVE  RecoveryInv'
    OBVIOUS
  <1>1. CASE UNCHANGED vars
    BY <1>1 DEF vars, RecoveryInv, MessagesOK, MessageOK, HandsOK, At, HasStatus, Journaled, BudgetOK,
                Spent, LastTry, FlowOK, Settled, Visible, Carried, Covered, Waits, Handles,
                HasInHand, CallCarries
  <1> QED
    BY <1>1, CallRecovers, ListenRecovers, WorkRecovers, KeyRecovers DEF Next, ConsumerStep

\* Every journaled win is settled, in front of an operator or carried on, and
\* whoever spends the last attempt at a row works on it to the end.
THEOREM Recovery == ASSUME Faults = {} PROVE Spec => []RecoveryInv
  <1>1. IInv /\ RecoveryInv /\ [Next]_vars => RecoveryInv'
    BY StepRecovers
  <1> QED
    BY <1>1, InitRecovers, Invariance, PTL DEF Spec

\* The player is not left debited for an unpaid spin (processProviderSpin and
\* reconcileWin): a journaled win is paid, its bet is given back, an operator
\* sees it or it is on its way, however many consumers overtake each other,
\* however often the engine's answers are lost, and for any retry budget.
THEOREM WinsAreNotDropped == ASSUME Faults = {} PROVE Spec => []NoWinDropped
  <1>1. RecoveryInv => NoWinDropped
    <2> SUFFICES ASSUME RecoveryInv, NEW r \in Rounds, Journaled(Win(r))
                 PROVE  WinSettled(r) \/ Visible(Win(r)) \/ OnItsWay(Win(r))
      BY DEF NoWinDropped
    <2>1. Win(r) \in Keys /\ Win(r)[1] = "win" /\ RollbackOf(Win(r)) = Rollback(r)
      BY KeysAssumption DEF Kinds, Win, RollbackOf
    <2>2. CASE Settled(Win(r))
      BY <2>1, <2>2 DEF Settled, WinSettled
    <2>3. CASE Carried(Win(r))
      BY <2>3 DEF Carried, CallCarries, Covered, Waits, Handles, OnItsWay, InStream
    <2> QED
      BY <2>1, <2>2, <2>3 DEF RecoveryInv, FlowOK
  <1> QED
    BY <1>1, Recovery, PTL

=============================================================================
