----------------------------- MODULE Reconciler -----------------------------
(***************************************************************************)
(* The event-driven reconciler: the consumers of the reconcile queue.      *)
(*                                                                         *)
(* A consumer takes one message, claims the journal row it names, works    *)
(* on the intent, writes the disposition to the row and settles the        *)
(* message.  con[c].pc says what consumer c does next:                     *)
(*                                                                         *)
(*   idle      waiting on the broker                                       *)
(*   drained   has removed con[c].key from the schedule, not yet re-added  *)
(*   claim     holds a message, about to claim its row                     *)
(*   poll, call    the work: asking the PSP, calling the engine            *)
(*   lookup ... compensate    the reversal of the bet of a lost win        *)
(*   succeed, fail, abandon    about to write the disposition              *)
(*   retry, park, ack    about to re-schedule, dead-letter, acknowledge    *)
(*                                                                         *)
(* What is done between claim and disposition belongs to the intent's type *)
(* and is left to the module of that type.                                 *)
(*                                                                         *)
(* The claim releases its row lock before the work starts, so everything   *)
(* between claim and ack interleaves with the request handlers, with peer  *)
(* consumers (a slow consumer's message is reclaimed while it still works) *)
(* and with crashes.  Batches are taken one message at a time.             *)
(***************************************************************************)
EXTENDS EngineJournal, ReconcileQueue, FiniteSets

CONSTANTS
    Consumers,  \* reconciler processes
    Faults      \* the kinds of fault the environment exhibits

\* crash: a process dies between two steps.  broker: a best-effort broker
\* call of a request handler fails.  infra: a database or broker call of a
\* consumer throws.  decline: a declined payment may be confirmed later.
FaultKinds == {"crash", "broker", "infra", "decline"}

ASSUME FaultsAssumption == Faults \subseteq FaultKinds

VARIABLE con

reconcilerVars == <<row, schedule, entries, dlq, con>>

Reversing == {"lookup", "journal", "reverse", "reversed", "lost", "refused", "compensate"}
Working == {"poll", "call", "succeed", "fail", "abandon"} \cup Reversing
Settling == {"retry", "park", "ack"}
ConsumerStates == {"idle", "drained", "claim"} \cup Working \cup Settling

\* tries: the attempt number of the claim.  seen: the delivery count the
\* message carried when it was handed to this consumer.
Consumer == [pc    : ConsumerStates,
             key   : Keys \cup {None},
             msg   : Messages \cup {None},
             tries : 0..MaxAttempts,
             seen  : 0..MaxDeliveries]

Resting == [pc |-> "idle", key |-> None, msg |-> None, tries |-> 0, seen |-> 0]

ReconcilerTypeOK(bodies) ==
    /\ JournalTypeOK(bodies)
    /\ QueueTypeOK
    /\ con \in [Consumers -> Consumer]

ReconcilerInit ==
    /\ JournalInit
    /\ QueueInit
    /\ con = [c \in Consumers |-> Resting]

\* The best-effort broker calls of the handlers swallow a failure.
BestEffort(call) == call \/ ("broker" \in Faults /\ UNCHANGED queueVars)

HeldMessages == {con[c].msg : c \in Consumers} \ {None}

At(c, pc) == con[c].pc = pc

Goto(c, pc) == con' = [con EXCEPT ![c].pc = pc]

Rest(c) == con' = [con EXCEPT ![c] = Resting]

\* Consumer c works on k, between its claim and its disposition.
WorksOn(c, k) == con[c].key = k /\ con[c].pc \in Working

\* Consumer c has k in hand anywhere between the broker and the ack.
HasInHand(c, k) == con[c].key = k /\ con[c].pc # "idle"

\* Consumer c holds, for an instant, the row lock of k: its next statement
\* claims or updates that row.
LocksRow(c, k) == con[c].key = k /\ con[c].pc \in {"claim", "succeed", "fail", "abandon"}

-----------------------------------------------------------------------------
\* Mutants of the listener: a failed credit marked SUCCEEDED, and a retry
\* that acknowledges without re-scheduling.
MutMarkFailedAsSuccess(c) ==
    /\ At(c, "fail")
    /\ MarkTerminal(con[c].key, "SUCCEEDED")
    /\ Goto(c, "retry")
    /\ UNCHANGED queueVars

MutRetryAcksOnly(c) ==
    /\ At(c, "retry")
    /\ Goto(c, "ack")
    /\ UNCHANGED <<row, schedule, entries, dlq>>

-----------------------------------------------------------------------------
(* Taking work from the broker: processReconcileBatch, pull, reclaim.      *)

\* drainDueScheduled: the ZREM decides which consumer moves a due member
\* (the free id the XADD will use is set aside, to keep within the bound) ...
DrainDue(c, k) ==
    /\ At(c, "idle")
    /\ k \in schedule
    /\ Unschedule(k)
    /\ \E m \in Messages \ HeldMessages :
          /\ entries[m] = None
          /\ con' = [con EXCEPT ![c] = [pc |-> "drained", key |-> k, msg |-> m,
                                       tries |-> 0, seen |-> 0]]
    /\ UNCHANGED row

\* ... and the XADD that follows makes it an entry of the stream.
Republish(c) ==
    /\ At(c, "drained")
    /\ AddEntry(con[c].msg, con[c].key)
    /\ Rest(c)
    /\ UNCHANGED row

\* A message handed to c, with its delivery count.
Handed(c, m, count) ==
    con' = [con EXCEPT ![c] = [pc |-> "claim", key |-> entries[m].key, msg |-> m,
                               tries |-> 0, seen |-> count]]

Pull(c, m) ==
    /\ At(c, "idle")
    /\ Read(m)
    /\ Handed(c, m, 1)
    /\ UNCHANGED row

Reclaim(c, m) ==
    /\ At(c, "idle")
    /\ Redeliver(m)
    /\ Handed(c, m, entries'[m].count)
    /\ UNCHANGED row

-----------------------------------------------------------------------------
(* reconcileByKey: the claim, and the disposition written to the row.      *)

\* The claim spends an attempt; work is where dispatch takes the claimed row.
ClaimRow(c, work) ==
    /\ At(c, "claim")
    /\ Claim(con[c].key)
    /\ con' = [con EXCEPT ![c].pc = work, ![c].tries = row[con[c].key].attempts + 1]
    /\ UNCHANGED queueVars

\* "skipped": nothing claimable, or SKIP LOCKED because someone holds the row.
SkipRow(c, locked) ==
    /\ At(c, "claim")
    /\ \/ ~Claimable(con[c].key)
       \/ locked
       \/ \E d \in Consumers \ {c} : LocksRow(d, con[c].key)
    /\ Goto(c, "ack")
    /\ UNCHANGED <<row, schedule, entries, dlq>>

\* completeEngineRequest SUCCEEDED.
RecordSuccess(c) ==
    /\ At(c, "succeed")
    /\ MarkTerminal(con[c].key, "SUCCEEDED")
    /\ Goto(c, "ack")
    /\ UNCHANGED queueVars

\* markFailed: the credit failed and attempts are left.
RecordFailure(c) ==
    /\ At(c, "fail")
    /\ Overwrite(con[c].key, "FAILED")
    /\ Goto(c, "retry")
    /\ UNCHANGED queueVars

\* setStatus ABANDONED.
RecordAbandon(c) ==
    /\ At(c, "abandon")
    /\ Overwrite(con[c].key, "ABANDONED")
    /\ Goto(c, "park")
    /\ UNCHANGED queueVars

-----------------------------------------------------------------------------
(* handleReconcileMessage: settling the message against the broker.        *)

Reschedule(c) ==
    /\ At(c, "retry")
    /\ Schedule(con[c].key)
    /\ Goto(c, "ack")
    /\ UNCHANGED row

DeadLetter(c) ==
    /\ At(c, "park")
    /\ ParkInDlq(con[c].key)
    /\ Goto(c, "ack")
    /\ UNCHANGED row

Acknowledge(c) ==
    /\ At(c, "ack")
    /\ Ack(con[c].msg)
    /\ Rest(c)
    /\ UNCHANGED row

\* The catch block: leave the message pending for redelivery, or dead-letter
\* it once its delivery budget is spent.  A failed drain holds no message, and
\* a dead letter that cannot be written leaves the message pending too.  The
\* engine client never throws: it turns every failure into a result.
Throw(c) ==
    /\ "infra" \in Faults
    /\ con[c].pc \notin {"idle", "call", "reverse"}
    /\ IF con[c].seen >= MaxDeliveries /\ ~At(c, "park") THEN Goto(c, "park") ELSE Rest(c)
    /\ UNCHANGED <<row, schedule, entries, dlq>>

\* The process dies; whatever it held stays in the pending list.
CrashConsumer(c) ==
    /\ "crash" \in Faults
    /\ ~At(c, "idle")
    /\ Rest(c)
    /\ UNCHANGED <<row, schedule, entries, dlq>>

\* Every step of a consumer but the claim and the work on the intent itself.
ListenerStep(c, locked) ==
    \/ \E k \in Keys : DrainDue(c, k)
    \/ Republish(c)
    \/ \E m \in Messages : Pull(c, m) \/ Reclaim(c, m)
    \/ SkipRow(c, locked)
    \/ RecordSuccess(c)
    \/ RecordFailure(c)
    \/ RecordAbandon(c)
    \/ Reschedule(c)
    \/ DeadLetter(c)
    \/ Acknowledge(c)
    \/ Throw(c)
    \/ CrashConsumer(c)

=============================================================================
