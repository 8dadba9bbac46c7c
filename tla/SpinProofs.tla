----------------------------- MODULE SpinProofs -----------------------------
(***************************************************************************)
(* Safety of the provider rounds for every set of rounds, deliveries and   *)
(* consumers, every attempt and delivery budget and every combination of   *)
(* faults.                                                                 *)
(*                                                                         *)
(* A row says nothing of the requests under way, so no invariant of the    *)
(* rows alone is inductive.  IInv adds what each process knows: whoever    *)
(* holds a win or a rollback holds it for a bet that has committed, and    *)
(* whoever is about to record a movement as settled has seen it commit.    *)
(* The ledger never takes a movement back, so such knowledge survives      *)
(* every step of the others.                                               *)
(***************************************************************************)
EXTENDS ProviderSpin, ReconcilerProofs

\* A win and a rollback follow the debit of their round.
Debited(k) == k[1] # "bet" => BetOf(k) \in ledger

\* What consumer c and delivery h know.
ConsumerOK(c) ==
    /\ HandsOK(c)
    /\ con[c].pc \in Working => Debited(con[c].key)
    /\ con[c].pc \in Reversing \ {"lookup"} => BetOf(con[c].key) \in ledger
    /\ con[c].pc = "succeed" => con[c].key \in ledger
    /\ con[c].pc \in {"reversed", "compensate"} => RollbackOf(con[c].key) \in ledger

CallOK(h) ==
    /\ call[h].pc \notin {"idle", "over"} => call[h].key \in Keys /\ Debited(call[h].key)
    /\ call[h].pc = "done" => call[h].key \in ledger

RowOK(k) ==
    /\ Journaled(k) => Debited(k)
    /\ HasStatus(k, {"SUCCEEDED"}) => k \in ledger
    /\ HasStatus(k, {"COMPENSATED"}) => RollbackOf(k) \in ledger

MoveOK(k) == k \in ledger \cup inflight => Debited(k)

IInv ==
    /\ TypeOK
    /\ \A c \in Consumers : ConsumerOK(c)
    /\ \A h \in Calls : CallOK(h)
    /\ \A k \in Keys : RowOK(k) /\ MoveOK(k)

-----------------------------------------------------------------------------
(* What survives a step.                                                   *)

\* Every key names a movement of a round, and so do the keys derived from it.
LEMMA KeysOfRounds ==
    ASSUME NEW k \in Keys
    PROVE  /\ BetOf(k) \in Keys /\ RollbackOf(k) \in Keys
           /\ BetOf(RollbackOf(k)) = BetOf(k)
           /\ \A r \in Rounds : Bet(r) \in Keys /\ Win(r) \in Keys /\ Rollback(r) \in Keys
  BY KeysAssumption DEF Kinds, BetOf, RollbackOf, Bet, Win, Rollback

\* What a step commits or sends follows the debit of its round.
NewMovesDebited ==
    \A k \in Keys : k \in ledger' \cup inflight' => k \in ledger \cup inflight \/ Debited(k)'

USE DEF NewMovesDebited

\* The invariant of the next state, from the parts a step does not touch.
LEMMA Rebuild ==
    ASSUME IInv, TypeOK', ledger \subseteq ledger',
           \A c \in Consumers : con'[c] = con[c] \/ ConsumerOK(c)',
           \A h \in Calls : call'[h] = call[h] \/ CallOK(h)',
           \A k \in Keys : row'[k] = row[k] \/ RowOK(k)',
           NewMovesDebited
    PROVE  IInv'
  <1>1. \A c \in Consumers : ConsumerOK(c)'
    BY DEF IInv, ConsumerOK, HandsOK, Debited
  <1>2. \A h \in Calls : CallOK(h)'
    BY DEF IInv, CallOK, Debited
  <1>3. \A k \in Keys : RowOK(k)'
    BY DEF IInv, RowOK, HasStatus, Journaled, Debited
  <1>4. \A k \in Keys : MoveOK(k)'
    BY DEF IInv, MoveOK, Debited
  <1> QED
    BY <1>1, <1>2, <1>3, <1>4 DEF IInv

\* A statement against one row leaves every row honest, if what it writes is.
LEMMA RowWritten ==
    ASSUME IInv, ledger \subseteq ledger', NEW k \in Keys, NEW statuses, Writes(k, statuses),
           Debited(k),
           "SUCCEEDED" \in statuses => k \in ledger,
           "COMPENSATED" \in statuses => RollbackOf(k) \in ledger
    PROVE  \A j \in Keys : row'[j] = row[j] \/ RowOK(j)'
  <1> SUFFICES RowOK(k)' \/ row'[k] = row[k]
    BY DEF Writes
  <1> QED
    BY DEF Writes, RowOK, HasStatus, Journaled, Debited

\* An answer of the engine to a request for k.
LEMMA EngineAnswers ==
    ASSUME IInv, NEW k \in Keys, Debited(k),
           EngineCommits(k) \/ EngineTimesOut(k) \/ EngineRefuses(k)
    PROVE  /\ ledger \subseteq ledger' /\ ledger' \subseteq Keys /\ inflight' \subseteq Keys
           /\ NewMovesDebited
  <1>1. ledger \subseteq Keys /\ inflight \subseteq Keys
    BY DEF IInv, TypeOK
  <1>2. ledger \subseteq ledger' /\ ledger' \subseteq Keys /\ inflight' \subseteq Keys
    BY <1>1 DEF EngineCommits, EngineTimesOut, EngineRefuses
  <1>3. \A j \in Keys : j \in ledger' \cup inflight' => j \in ledger \cup inflight \/ j = k
    BY DEF EngineCommits, EngineTimesOut, EngineRefuses
  <1> QED
    BY <1>2, <1>3 DEF Debited

-----------------------------------------------------------------------------
(* Types.                                                                  *)

\* A delivery that moves on, rests or starts on a key keeps its type.
LEMMA CallMoves ==
    ASSUME call \in [Calls -> Call], NEW h \in Calls,
           \/ \E pc \in CallStates : CallGoto(h, pc)
           \/ CallRest(h)
           \/ \E k \in Keys : CallStart(h, k)
    PROVE  call' \in [Calls -> Call]
  BY DEF CallGoto, CallRest, CallStart, NoCall, Call, CallStates

\* What a delivery that moves on, rests or starts holds afterwards.
LEMMA CallHolds ==
    ASSUME call \in [Calls -> Call], NEW h \in Calls, ledger \subseteq ledger',
           CallOK(h), call[h].pc \notin {"idle", "over"},
           \/ \E pc \in CallStates \ {"done"} : CallGoto(h, pc)
           \/ CallRest(h)
    PROVE  \A g \in Calls : call'[g] = call[g] \/ CallOK(g)'
  <1> SUFFICES CallOK(h)' /\ \A g \in Calls : g # h => call'[g] = call[g]
    OBVIOUS
  <1>1. \A g \in Calls : g # h => call'[g] = call[g]
    BY DEF CallGoto, CallRest
  <1>2. CASE CallRest(h)
    BY <1>2 DEF CallRest, CallOK, NoCall
  <1>3. ASSUME NEW pc \in CallStates \ {"done"}, CallGoto(h, pc)
        PROVE  CallOK(h)'
    <2>1. call'[h].pc = pc /\ call'[h].key = call[h].key
      BY <1>3 DEF CallGoto, Call
    <2> QED
      BY <2>1 DEF CallOK, Debited
  <1> QED
    BY <1>1, <1>2, <1>3

-----------------------------------------------------------------------------
(* Every step of a webhook delivery preserves the invariant.               *)

\* A delivery starts on a bet, which needs nothing, or on the rollback of a bet
\* it found committed.
LEMMA StartSafe ==
    ASSUME IInv, NEW h \in Calls, NEW r \in Rounds, StartSpin(h, r) \/ StartRollback(h, r)
    PROVE  IInv'
  <1> USE DEF reconcilerVars
  <1>t. TypeOK /\ call \in [Calls -> Call] /\ RowOK(Bet(r)) /\ Bet(r) \in Keys /\ Rollback(r) \in Keys
    BY KeysAssumption DEF IInv, TypeOK, Kinds, Bet, Rollback
  <1>1. \/ CallRest(h)
        \/ \E k \in Keys : CallStart(h, k) /\ Debited(k)
    <2>1. Debited(Bet(r))
      BY DEF Debited, Bet
    <2>2. HasStatus(Bet(r), {"SUCCEEDED"}) => Debited(Rollback(r))
      BY <1>t DEF RowOK, Debited, BetOf, Rollback
    <2> QED
      BY <1>t, <2>1, <2>2 DEF StartSpin, StartRollback
  <1>2. call' \in [Calls -> Call]
    BY <1>t, <1>1, CallMoves
  <1>3. TypeOK'
    BY <1>t, <1>2 DEF StartSpin, StartRollback, TypeOK, ReconcilerTypeOK, JournalTypeOK, QueueTypeOK
  <1>4. \A g \in Calls : call'[g] = call[g] \/ CallOK(g)'
    <2>1. CASE CallRest(h)
      BY <1>t, <2>1 DEF CallRest, NoCall, CallOK
    <2>2. ASSUME NEW k \in Keys, CallStart(h, k), Debited(k)
          PROVE  \A g \in Calls : call'[g] = call[g] \/ CallOK(g)'
      <3>1. ledger' = ledger
        BY DEF StartSpin, StartRollback
      <3> QED
        BY <1>t, <2>2, <3>1 DEF CallStart, CallOK, Debited
    <2> QED
      BY <1>1, <2>1, <2>2
  <1> QED
    BY <1>3, <1>4, Rebuild DEF StartSpin, StartRollback

\* A delivery journals, calls the engine, records and publishes its own key.
LEMMA HandlerSafe ==
    ASSUME IInv, NEW h \in Calls, HandlerStep(h) \/ CrashCall(h)
    PROVE  IInv'
  <1> USE DEF reconcilerVars, queueVars
  <1>t. /\ TypeOK /\ call \in [Calls -> Call] /\ CallOK(h)
        /\ JournalTypeOK(Payloads) /\ QueueTypeOK
    BY DEF IInv, TypeOK, ReconcilerTypeOK
  <1>b. call[h].pc \notin {"idle", "over"}
    BY DEF HandlerStep, Journal, CallEngine, RecordCommit, RecordFailedCall, PublishFailed,
           CrashCall, CallAt
  <1>k. PICK k \in Keys : k = call[h].key /\ Debited(k)
    BY <1>t, <1>b DEF CallOK
  <1>1. CASE Journal(h)
    <2>1. CreateIntentIfAbsent(k, "payload") /\ "payload" \in Payloads /\ CallGoto(h, "call")
      BY <1>1, <1>k DEF Journal, Payloads
    <2>2. JournalTypeOK(Payloads)' /\ Writes(k, {"PENDING"})
      BY <1>t, <2>1, JournalWrites, CreateWrites, RowAssumption
    <2>3. call' \in [Calls -> Call] /\ \A g \in Calls : call'[g] = call[g] \/ CallOK(g)'
      <3>1. "call" \in CallStates \ {"done"} /\ ledger' = ledger
        BY <1>1 DEF CallStates, Journal
      <3> QED
        BY <1>t, <1>b, <2>1, <3>1, CallMoves, CallHolds
    <2>4. TypeOK'
      BY <1>1, <1>t, <2>2, <2>3 DEF Journal, TypeOK, ReconcilerTypeOK, QueueTypeOK
    <2>5. \A j \in Keys : row'[j] = row[j] \/ RowOK(j)'
      BY <1>1, <1>k, <2>2, RowWritten DEF Journal
    <2> QED
      BY <1>1, <2>3, <2>4, <2>5, Rebuild DEF Journal
  <1>2. CASE CallEngine(h)
    <2>1. /\ ledger \subseteq ledger' /\ ledger' \subseteq Keys /\ inflight' \subseteq Keys
          /\ NewMovesDebited
      <3>1. CASE UNCHANGED <<ledger, inflight>>
        BY <1>t, <3>1 DEF TypeOK
      <3>2. CASE EngineCommits(k) \/ EngineTimesOut(k) \/ EngineRefuses(k)
        BY <1>k, <3>2, EngineAnswers
      <3> QED
        BY <1>2, <1>k, <3>1, <3>2 DEF CallEngine
    <2>2. PICK pc \in {"done", "lost", "refused", "already"} :
                 CallGoto(h, pc) /\ (pc = "done" => k \in ledger')
      BY <1>2, <1>k DEF CallEngine, EngineCommits
    <2>3. call' \in [Calls -> Call]
      BY <1>t, <2>2, CallMoves DEF CallStates
    <2>4. \A g \in Calls : call'[g] = call[g] \/ CallOK(g)'
      <3>1. /\ call'[h].pc = pc /\ call'[h].key = k
            /\ \A g \in Calls : g # h => call'[g] = call[g]
        BY <1>t, <1>k, <2>2 DEF CallGoto, Call
      <3> QED
        BY <1>k, <2>1, <2>2, <3>1 DEF CallOK, Debited
    <2>5. TypeOK'
      BY <1>2, <1>t, <2>1, <2>3 DEF CallEngine, TypeOK, ReconcilerTypeOK, JournalTypeOK, QueueTypeOK
    <2> QED
      BY <1>2, <2>1, <2>4, <2>5, Rebuild DEF CallEngine
  <1>3. CASE RecordCommit(h)
    <2>1. MarkTerminal(k, "SUCCEEDED") /\ k \in ledger /\ ledger' = ledger
      BY <1>3, <1>t, <1>k DEF RecordCommit, CallAt, CallOK
    <2>2. "SUCCEEDED" \in Statuses
      BY DEF Statuses, FinalStatuses
    <2>3. JournalTypeOK(Payloads)' /\ Writes(k, {"SUCCEEDED"})
      BY <1>t, <2>1, <2>2, JournalWrites, StatusWrites, RowAssumption
    <2>4. \/ CallRest(h)
          \/ \E j \in Keys : CallStart(h, j) /\ Debited(j)
      <3>1. CASE k[1] = "bet" /\ k[2] \in Winning
        <4>1. k = Bet(k[2]) /\ Win(k[2]) \in Keys
          BY <3>1, KeysAssumption DEF Kinds, Bet, Win
        <4>2. Debited(Win(k[2]))
          BY <2>1, <4>1 DEF Debited, BetOf, Win
        <4> QED
          BY <1>3, <1>k, <3>1, <4>1, <4>2 DEF RecordCommit
      <3> QED
        BY <1>3, <1>k, <3>1 DEF RecordCommit
    <2>5. call' \in [Calls -> Call]
      BY <1>t, <2>4, CallMoves
    <2>6. \A g \in Calls : call'[g] = call[g] \/ CallOK(g)'
      BY <1>t, <2>1, <2>4 DEF CallRest, CallStart, NoCall, CallOK, Debited
    <2>7. TypeOK'
      BY <1>3, <1>t, <2>3, <2>5 DEF RecordCommit, TypeOK, ReconcilerTypeOK, QueueTypeOK
    <2>8. \A j \in Keys : row'[j] = row[j] \/ RowOK(j)'
      BY <1>k, <2>1, <2>3, RowWritten
    <2> QED
      BY <1>3, <2>6, <2>7, <2>8, Rebuild DEF RecordCommit
  <1>4. CASE RecordFailedCall(h)
    <2>1. MarkTerminal(k, "FAILED") /\ "FAILED" \in Statuses /\ ledger' = ledger
      BY <1>4, <1>k DEF RecordFailedCall, Statuses, OpenStatuses
    <2>2. JournalTypeOK(Payloads)' /\ Writes(k, {"FAILED"})
      BY <1>t, <2>1, JournalWrites, StatusWrites, RowAssumption
    <2>3. call' \in [Calls -> Call] /\ \A g \in Calls : call'[g] = call[g] \/ CallOK(g)'
      <3>1. "publish" \in CallStates \ {"done"} /\ (CallGoto(h, "publish") \/ CallRest(h))
        BY <1>4 DEF RecordFailedCall, CallStates
      <3> QED
        BY <1>t, <1>b, <2>1, <3>1, CallMoves, CallHolds
    <2>4. retryable' \in SUBSET Keys
      BY <1>4, <1>t, <1>k DEF RecordFailedCall, SetRetryable, TypeOK
    <2>5. TypeOK'
      BY <1>4, <1>t, <2>2, <2>3, <2>4 DEF RecordFailedCall, TypeOK, ReconcilerTypeOK, QueueTypeOK
    <2>6. \A j \in Keys : row'[j] = row[j] \/ RowOK(j)'
      BY <1>k, <2>1, <2>2, RowWritten
    <2> QED
      BY <1>4, <2>3, <2>5, <2>6, Rebuild DEF RecordFailedCall
  <1>5. CASE PublishFailed(h) \/ CrashCall(h)
    <2>1. CallRest(h) /\ row' = row /\ con' = con /\ UNCHANGED <<retryable, ledger, inflight>>
      BY <1>5 DEF PublishFailed, CrashCall
    <2>2. QueueTypeOK'
      BY <1>5, <1>t, <1>k, DeliveriesAssumption
         DEF PublishFailed, CrashCall, BestEffort, Publish, AddEntry, QueueTypeOK, Entry
    <2>3. call' \in [Calls -> Call] /\ \A g \in Calls : call'[g] = call[g] \/ CallOK(g)'
      BY <1>t, <1>b, <2>1, CallMoves, CallHolds
    <2>4. TypeOK'
      BY <1>t, <2>1, <2>2, <2>3 DEF TypeOK, ReconcilerTypeOK, JournalTypeOK
    <2> QED
      BY <2>1, <2>3, <2>4, Rebuild
  <1> QED
    BY <1>1, <1>2, <1>3, <1>4, <1>5 DEF HandlerStep

-----------------------------------------------------------------------------
(* Every step of a consumer preserves the invariant.                       *)

\* The listener writes nothing but the disposition its consumer came with.
LEMMA ListenSafe ==
    ASSUME IInv, NEW c \in Consumers, Listen(c)
    PROVE  IInv'
  <1>t. TypeOK /\ ConsumerOK(c)
    BY DEF IInv
  <1>1. ReconcilerTypeOK(Payloads)' /\ Listens(c)
    BY <1>t, ListenerShape, RowAssumption DEF Listen, TypeOK, ConsumerOK
  <1>2. retryable' \in SUBSET Keys
    BY <1>t DEF Listen, TypeOK, At, ConsumerOK, HandsOK
  <1>3. TypeOK'
    BY <1>t, <1>1, <1>2 DEF Listen, TypeOK
  <1>4. ConsumerOK(c)'
    BY <1>1 DEF Listens, ConsumerOK, Working, Reversing
  <1>5. \A k \in Keys : row'[k] = row[k] \/ RowOK(k)'
    <2>1. ASSUME NEW status \in Statuses, Disposes(c, status), Writes(con[c].key, {status})
          PROVE  \A k \in Keys : row'[k] = row[k] \/ RowOK(k)'
      <3>1. con[c].key \in Keys /\ Debited(con[c].key)
        BY <1>t, <2>1 DEF Disposes, At, ConsumerOK, HandsOK, Working
      <3>2. status = "SUCCEEDED" => con[c].key \in ledger
        BY <1>t, <2>1 DEF Disposes, At, ConsumerOK
      <3>3. status # "COMPENSATED" /\ ledger' = ledger
        BY <2>1 DEF Disposes, Listen
      <3> QED
        BY <2>1, <3>1, <3>2, <3>3, RowWritten
    <2> QED
      BY <1>1, <2>1 DEF Listens
  <1> QED
    BY <1>1, <1>3, <1>4, <1>5, Rebuild DEF Listen, Listens

\* A consumer that moves on keeps its key and its message, and the rest of the
\* invariant follows from what it did to the journal and the ledger.
LEMMA ConsumerGoes ==
    ASSUME IInv, NEW c \in Consumers, NEW pc \in ConsumerStates, Goto(c, pc),
           UNCHANGED <<queueVars, call>>, JournalTypeOK(Payloads)',
           retryable' \in SUBSET Keys, ledger' \in SUBSET Keys, inflight' \in SUBSET Keys,
           ledger \subseteq ledger', con[c].pc \in Working,
           pc \in Reversing \ {"lookup"} => BetOf(con[c].key) \in ledger',
           pc = "succeed" => con[c].key \in ledger',
           pc \in {"reversed", "compensate"} => RollbackOf(con[c].key) \in ledger',
           \A k \in Keys : row'[k] = row[k] \/ RowOK(k)',
           NewMovesDebited
    PROVE  IInv'
  <1>t. TypeOK /\ ConsumerOK(c) /\ con \in [Consumers -> Consumer] /\ con[c] \in Consumer
    BY DEF IInv, TypeOK, ReconcilerTypeOK
  <1>1. /\ con'[c].pc = pc /\ con'[c].key = con[c].key /\ con'[c].msg = con[c].msg
        /\ \A d \in Consumers : d # c => con'[d] = con[d]
    BY <1>t DEF Goto, Consumer
  <1>2. con' \in [Consumers -> Consumer]
    BY <1>t, ConsumerMoves
  <1>3. TypeOK'
    BY <1>t, <1>2 DEF TypeOK, ReconcilerTypeOK, QueueTypeOK, queueVars
  <1>4. con[c].pc # "idle"
    BY DEF Working, Reversing
  <1>5. ConsumerOK(c)'
    BY <1>t, <1>1, <1>4 DEF ConsumerOK, HandsOK, Debited
  <1> QED
    BY <1>1, <1>3, <1>5, Rebuild

\* A consumer replays what it claimed, or reverses the bet of a win.
LEMMA WorkSafe ==
    ASSUME IInv, NEW c \in Consumers, ConsumerWork(c)
    PROVE  IInv'
  <1> USE DEF queueVars, spinVars
  <1>t. /\ TypeOK /\ ConsumerOK(c) /\ con \in [Consumers -> Consumer] /\ con[c] \in Consumer
        /\ JournalTypeOK(Payloads) /\ QueueTypeOK
    BY DEF IInv, TypeOK, ReconcilerTypeOK
  <1>s. retryable \in SUBSET Keys /\ ledger \in SUBSET Keys /\ inflight \in SUBSET Keys
    BY <1>t DEF TypeOK
  <1>b. con[c].pc # "idle"
    BY DEF ConsumerWork, ClaimSpin, ClaimRow, Replayed, LookUpBet, JournalReversal, ReverseBet,
           SettleReversal, RecordCompensated, RecordFailedReversal, At
  <1>k. PICK k \in Keys : k = con[c].key
    BY <1>t, <1>b DEF ConsumerOK, HandsOK
  <1>r. /\ BetOf(k) \in Keys /\ RollbackOf(k) \in Keys /\ BetOf(RollbackOf(k)) = BetOf(k)
        /\ BetOf(k) \in ledger => Debited(RollbackOf(k))
    BY KeysOfRounds DEF Debited
  <1>m. Reversing \cup {"call"} \subseteq Working /\ Working \subseteq ConsumerStates
    BY DEF Working, ConsumerStates
  <1>1. CASE ClaimSpin(c)
    <2>1. Claim(k) /\ UNCHANGED <<queueVars, spinVars>>
      BY <1>1, <1>k DEF ClaimSpin, ClaimRow
    <2>2. Writes(k, {row[k].status}) /\ Journaled(k) /\ row[k].attempts + 1 \in 1..MaxAttempts
      BY <1>t, <2>1, ClaimWrites, RowAssumption
    <2>3. JournalTypeOK(Payloads)'
      BY <1>t, <2>1, JournalWrites
    <2>4. con' = [con EXCEPT ![c].pc = "call", ![c].tries = row[k].attempts + 1]
      BY <1>1, <1>k DEF ClaimSpin, ClaimRow
    <2>5. /\ con' \in [Consumers -> Consumer] /\ \A d \in Consumers : d # c => con'[d] = con[d]
          /\ con'[c].pc = "call" /\ con'[c].key = k /\ con'[c].msg = con[c].msg
      <3>1. row[k].attempts + 1 \in 0..MaxAttempts
        BY <2>2, AttemptsAssumption
      <3>2. "call" \in ConsumerStates
        BY <1>m
      <3> QED
        BY <1>t, <1>k, <2>4, <3>1, <3>2 DEF Consumer
    <2>6. TypeOK'
      BY <1>t, <2>1, <2>3, <2>5 DEF TypeOK, ReconcilerTypeOK, QueueTypeOK
    <2>7. Debited(k) /\ RowOK(k)
      BY <2>2 DEF IInv, RowOK
    <2>8. ConsumerOK(c)'
      BY <1>t, <1>b, <1>k, <2>1, <2>5, <2>7 DEF ConsumerOK, HandsOK, Debited, Reversing
    <2>9. \A j \in Keys : row'[j] = row[j] \/ RowOK(j)'
      BY <2>1, <2>2, <2>7, RowWritten DEF RowOK, HasStatus
    <2> QED
      BY <2>1, <2>5, <2>6, <2>8, <2>9, Rebuild
  <1>2. CASE Replayed(c)
    <2>1. Debited(k) /\ con[c].pc \in Working
      BY <1>2, <1>t, <1>k, <1>m DEF Replayed, At, ConsumerOK
    <2>2. EngineCommits(k) \/ EngineTimesOut(k) \/ EngineRefuses(k)
      BY <1>2, <1>k DEF Replayed
    <2>3. PICK pc \in {"succeed", "fail", "abandon", "lookup"} :
                 Goto(c, pc) /\ (pc = "succeed" => k \in ledger')
      BY <1>2, <1>k DEF Replayed, GiveUp, EngineCommits
    <2>4. /\ pc \in ConsumerStates /\ pc \notin Reversing \ {"lookup"}
          /\ pc \notin {"reversed", "compensate"}
      BY DEF ConsumerStates, Working, Reversing
    <2>5. /\ ledger \subseteq ledger' /\ ledger' \in SUBSET Keys /\ inflight' \in SUBSET Keys
          /\ NewMovesDebited
      BY <2>1, <2>2, EngineAnswers
    <2>6. JournalTypeOK(Payloads)' /\ retryable' \in SUBSET Keys
      BY <1>2, <1>t, <1>s DEF Replayed, JournalTypeOK
    <2> QED
      BY <1>2, <1>k, <2>1, <2>3, <2>4, <2>5, <2>6, ConsumerGoes DEF Replayed
  <1>3. CASE LookUpBet(c)
    <2>1. PICK pc \in {"journal", "fail", "abandon"} :
                 Goto(c, pc) /\ (pc = "journal" => BetOf(k) \in ledger)
      <3>1. HasStatus(BetOf(k), {"SUCCEEDED"}) => BetOf(k) \in ledger
        BY <1>r DEF IInv, RowOK
      <3> QED
        BY <1>3, <1>k, <3>1 DEF LookUpBet, RetryOrAbandon
    <2>2. /\ pc \in ConsumerStates /\ (pc # "journal" => pc \notin Reversing)
          /\ pc \notin {"reversed", "compensate", "succeed"}
      BY DEF ConsumerStates, Working, Reversing
    <2>3. con[c].pc \in Working
      BY <1>3, <1>m DEF LookUpBet, At, Reversing
    <2>4. JournalTypeOK(Payloads)'
      BY <1>3, <1>t DEF LookUpBet, JournalTypeOK
    <2> QED
      BY <1>3, <1>k, <1>s, <2>1, <2>2, <2>3, <2>4, ConsumerGoes DEF LookUpBet
  <1>4. CASE JournalReversal(c)
    <2>1. BetOf(k) \in ledger /\ con[c].pc \in Working
      BY <1>4, <1>t, <1>k, <1>m DEF JournalReversal, At, ConsumerOK, Reversing
    <2>2. CreateIntentIfAbsent(RollbackOf(k), "payload") /\ "payload" \in Payloads
      BY <1>4, <1>k DEF JournalReversal, Payloads
    <2>3. JournalTypeOK(Payloads)' /\ Writes(RollbackOf(k), {"PENDING"})
      BY <1>t, <1>r, <2>2, JournalWrites, CreateWrites, RowAssumption
    <2>4. \A j \in Keys : row'[j] = row[j] \/ RowOK(j)'
      BY <1>4, <1>r, <2>1, <2>3, RowWritten DEF JournalReversal
    <2>5. "reverse" \in ConsumerStates
      BY <1>m DEF Reversing
    <2> QED
      BY <1>4, <1>k, <1>s, <2>1, <2>3, <2>4, <2>5, ConsumerGoes DEF JournalReversal
  <1>5. CASE ReverseBet(c)
    <2>1. BetOf(k) \in ledger /\ con[c].pc \in Working
      BY <1>5, <1>t, <1>k, <1>m DEF ReverseBet, At, ConsumerOK, Reversing
    <2>2. \/ EngineCommits(RollbackOf(k))
          \/ EngineTimesOut(RollbackOf(k))
          \/ EngineRefuses(RollbackOf(k))
      BY <1>5, <1>k DEF ReverseBet
    <2>3. PICK pc \in {"reversed", "lost", "refused"} :
                 Goto(c, pc) /\ (pc = "reversed" => RollbackOf(k) \in ledger')
      BY <1>5, <1>k DEF ReverseBet, EngineCommits
    <2>4. pc \in ConsumerStates /\ pc \notin {"compensate", "succeed"}
      BY <1>m DEF Reversing
    <2>5. /\ ledger \subseteq ledger' /\ ledger' \in SUBSET Keys /\ inflight' \in SUBSET Keys
          /\ NewMovesDebited
      BY <1>r, <2>1, <2>2, EngineAnswers
    <2>6. JournalTypeOK(Payloads)' /\ retryable' \in SUBSET Keys
      BY <1>5, <1>t, <1>s DEF ReverseBet, JournalTypeOK
    <2> QED
      BY <1>5, <1>k, <2>1, <2>3, <2>4, <2>5, <2>6, ConsumerGoes DEF ReverseBet
  <1>6. CASE SettleReversal(c)
    <2>1. BetOf(k) \in ledger /\ RollbackOf(k) \in ledger /\ con[c].pc \in Working
      BY <1>6, <1>t, <1>k, <1>m DEF SettleReversal, At, ConsumerOK, Reversing
    <2>2. MarkTerminal(RollbackOf(k), "SUCCEEDED") /\ "SUCCEEDED" \in Statuses
      BY <1>6, <1>k DEF SettleReversal, Statuses, FinalStatuses
    <2>3. JournalTypeOK(Payloads)' /\ Writes(RollbackOf(k), {"SUCCEEDED"})
      BY <1>t, <1>r, <2>2, JournalWrites, StatusWrites, RowAssumption
    <2>4. \A j \in Keys : row'[j] = row[j] \/ RowOK(j)'
      BY <1>6, <1>r, <2>1, <2>3, RowWritten DEF SettleReversal
    <2>5. "compensate" \in ConsumerStates
      BY <1>m DEF Reversing
    <2> QED
      BY <1>6, <1>k, <1>s, <2>1, <2>3, <2>4, <2>5, ConsumerGoes DEF SettleReversal
  <1>7. CASE RecordCompensated(c)
    <2>1. RollbackOf(k) \in ledger /\ con[c].pc \in Working /\ Debited(k)
      BY <1>7, <1>t, <1>k, <1>m DEF RecordCompensated, At, ConsumerOK, Reversing
    <2>2. Overwrite(k, "COMPENSATED") /\ "COMPENSATED" \in Statuses
      BY <1>7, <1>k DEF RecordCompensated, Statuses, FinalStatuses
    <2>3. JournalTypeOK(Payloads)' /\ Writes(k, {"COMPENSATED"})
      BY <1>t, <2>2, JournalWrites, StatusWrites, RowAssumption
    <2>4. \A j \in Keys : row'[j] = row[j] \/ RowOK(j)'
      BY <1>7, <2>1, <2>3, RowWritten DEF RecordCompensated
    <2>5. "ack" \in ConsumerStates /\ "ack" \notin Reversing
      BY DEF ConsumerStates, Settling, Reversing
    <2> QED
      BY <1>7, <1>k, <1>s, <2>1, <2>3, <2>4, <2>5, ConsumerGoes DEF RecordCompensated
  <1>8. CASE RecordFailedReversal(c)
    <2>1. BetOf(k) \in ledger /\ con[c].pc \in Working
      BY <1>8, <1>t, <1>k, <1>m DEF RecordFailedReversal, ConsumerOK, Reversing
    <2>2. MarkTerminal(RollbackOf(k), "FAILED") /\ "FAILED" \in Statuses
      BY <1>8, <1>k DEF RecordFailedReversal, Statuses, OpenStatuses
    <2>3. JournalTypeOK(Payloads)' /\ Writes(RollbackOf(k), {"FAILED"})
      BY <1>t, <1>r, <2>2, JournalWrites, StatusWrites, RowAssumption
    <2>4. \A j \in Keys : row'[j] = row[j] \/ RowOK(j)'
      BY <1>8, <1>r, <2>1, <2>3, RowWritten DEF RecordFailedReversal
    <2>5. PICK pc \in {"fail", "abandon"} : Goto(c, pc)
      BY <1>8 DEF RecordFailedReversal, RetryOrAbandon
    <2>6. pc \in ConsumerStates /\ pc \notin Reversing
      BY DEF ConsumerStates, Working, Reversing
    <2>7. retryable' \in SUBSET Keys
      BY <1>8, <1>k, <1>r, <1>s DEF RecordFailedReversal, SetRetryable
    <2> QED
      BY <1>8, <1>k, <1>s, <2>1, <2>3, <2>4, <2>5, <2>6, <2>7, ConsumerGoes DEF RecordFailedReversal
  <1> QED
    BY <1>1, <1>2, <1>3, <1>4, <1>5, <1>6, <1>7, <1>8 DEF ConsumerWork

-----------------------------------------------------------------------------
(* The engine, the operator and the sweep.                                 *)

\* A late commit, a replay and a sweep preserve the invariant.
LEMMA KeySafe ==
    ASSUME IInv, NEW k \in Keys, KeyStep(k)
    PROVE  IInv'
  <1> USE DEF reconcilerVars, queueVars
  <1>t. TypeOK /\ JournalTypeOK(Payloads) /\ QueueTypeOK /\ RowOK(k) /\ MoveOK(k)
    BY DEF IInv, TypeOK, ReconcilerTypeOK
  <1>1. CASE LateCommit(k)
    <2>1. EngineCommits(k) /\ Debited(k)
      BY <1>1, <1>t DEF LateCommit, CommitsLate, MoveOK
    <2>2. /\ ledger \subseteq ledger' /\ ledger' \subseteq Keys /\ inflight' \subseteq Keys
          /\ NewMovesDebited
      BY <2>1, EngineAnswers
    <2>3. TypeOK'
      BY <1>1, <1>t, <2>2 DEF LateCommit, TypeOK, ReconcilerTypeOK, JournalTypeOK, QueueTypeOK
    <2> QED
      BY <1>1, <2>2, <2>3, Rebuild DEF LateCommit
  <1>2. CASE Replay(k)
    <2>1. Resurrect(k) /\ Debited(k)
      BY <1>2, <1>t DEF Replay, Resurrect, HasStatus, RowOK
    <2>2. JournalTypeOK(Payloads)' /\ Writes(k, {"PENDING", "ABANDONED"})
      BY <1>t, <2>1, JournalWrites, ReplayWrites, RowAssumption
    <2>3. QueueTypeOK'
      BY <1>2, <1>t, DeliveriesAssumption DEF Replay, Publish, AddEntry, QueueTypeOK, Entry
    <2>4. retryable' \in SUBSET Keys
      BY <1>2, <1>t DEF Replay, TypeOK
    <2>5. TypeOK'
      BY <1>2, <1>t, <2>2, <2>3, <2>4 DEF Replay, TypeOK, ReconcilerTypeOK
    <2>6. \A j \in Keys : row'[j] = row[j] \/ RowOK(j)'
      BY <1>2, <2>1, <2>2, RowWritten DEF Replay
    <2> QED
      BY <1>2, <2>5, <2>6, Rebuild DEF Replay
  <1>3. CASE Sweep(k)
    <2>1. DeleteSettled(k) /\ retryable' = retryable \ {k}
      BY <1>3 DEF Sweep
    <2>2. JournalTypeOK(Payloads)'
      BY <1>t, <2>1, JournalWrites
    <2>3. TypeOK'
      BY <1>3, <1>t, <2>1, <2>2 DEF Sweep, TypeOK, ReconcilerTypeOK, QueueTypeOK
    <2>4. \A j \in Keys : row'[j] = row[j] \/ RowOK(j)'
      BY <1>t, <2>1 DEF DeleteSettled, JournalTypeOK, RowOK, HasStatus, Journaled
    <2> QED
      BY <1>3, <2>3, <2>4, Rebuild DEF Sweep
  <1> QED
    BY <1>1, <1>2, <1>3 DEF KeyStep

-----------------------------------------------------------------------------
(* The invariant, and what it establishes.                                 *)

\* Nothing is journaled, committed or held at the start.
LEMMA InitSafe == Init => IInv
  <1> SUFFICES ASSUME Init
               PROVE  IInv
    OBVIOUS
  <1> USE DEF Init, ReconcilerInit, JournalInit, QueueInit
  <1>1. TypeOK
    BY AttemptsAssumption, DeliveriesAssumption
       DEF TypeOK, ReconcilerTypeOK, JournalTypeOK, QueueTypeOK, Consumer, ConsumerStates, Resting,
           Call, CallStates, NoCall
  <1>2. \A c \in Consumers : ConsumerOK(c)
    BY DEF ConsumerOK, HandsOK, Resting, Working, Reversing
  <1>3. \A h \in Calls : CallOK(h)
    BY DEF CallOK, NoCall
  <1>4. \A k \in Keys : RowOK(k) /\ MoveOK(k)
    BY DEF RowOK, MoveOK, HasStatus, Journaled
  <1> QED
    BY <1>1, <1>2, <1>3, <1>4 DEF IInv

\* The invariant is inductive.
LEMMA StepSafe == IInv /\ [Next]_vars => IInv'
  <1> SUFFICES ASSUME IInv, [Next]_vars
               PROVE  IInv'
    OBVIOUS
  <1>1. CASE Next
    BY <1>1, StartSafe, HandlerSafe, ListenSafe, WorkSafe, KeySafe DEF Next, CallStep, ConsumerStep
  <1>2. CASE UNCHANGED vars
    <2>1. TypeOK'
      BY <1>2 DEF vars, IInv, TypeOK, ReconcilerTypeOK, JournalTypeOK, QueueTypeOK
    <2> QED
      BY <1>2, <2>1, Rebuild DEF vars
  <1> QED
    BY <1>1, <1>2

\* The strengthened invariant holds of the provider rounds.
THEOREM Invariance == Spec => []IInv
  BY InitSafe, StepSafe, PTL DEF Spec

\* Every variable keeps its type.
THEOREM TypeCorrect == Spec => []TypeOK
  <1>1. IInv => TypeOK
    BY DEF IInv
  <1> QED
    BY <1>1, Invariance, PTL

\* A row shown as SUCCEEDED has its movement in the engine's ledger.
THEOREM SettledRowsAreCommitted == Spec => []SettledIsCommitted
  <1>1. IInv => SettledIsCommitted
    BY DEF IInv, RowOK, SettledIsCommitted
  <1> QED
    BY <1>1, Invariance, PTL

\* No win is paid and no bet reversed in a round whose bet was not debited.
THEOREM MovesFollowTheDebit == Spec => []MovesFollowDebit
  <1>1. IInv => MovesFollowDebit
    <2> SUFFICES ASSUME IInv, NEW r \in Rounds, NEW k \in {Win(r), Rollback(r)},
                        k \in ledger \cup inflight
                 PROVE  Bet(r) \in ledger
      BY DEF MovesFollowDebit
    <2>1. k \in Keys /\ BetOf(k) = Bet(r) /\ k[1] # "bet"
      BY KeysAssumption DEF Kinds, Win, Rollback, BetOf, Bet
    <2> QED
      BY <2>1 DEF IInv, MoveOK, Debited
  <1> QED
    BY <1>1, Invariance, PTL

\* A win shown as COMPENSATED has had its bet reversed.
THEOREM CompensatedWinsAreReversed == Spec => []CompensatedIsReversed
  <1>1. IInv => CompensatedIsReversed
    BY KeysAssumption DEF IInv, RowOK, CompensatedIsReversed, Kinds, Win, Rollback, RollbackOf
  <1> QED
    BY <1>1, Invariance, PTL

=============================================================================
