-------------------------- MODULE ReconcilerProofs --------------------------
(***************************************************************************)
(* What the steps of the journal, of the broker and of a consumer do to    *)
(* each other's state, for every request payload: the facts the proofs of  *)
(* the deposits and of the provider rounds both rest on.                   *)
(***************************************************************************)
EXTENDS Reconciler, TLAPS

\* A consumer at work holds a key and a message.
HandsOK(c) == con[c].pc # "idle" => con[c].key \in Keys /\ con[c].msg \in Messages

\* No row goes away, and none changes its request.
RowsStay ==
    \A k \in Keys : Journaled(k) => Journaled(k)' /\ row'[k].body = row[k].body

-----------------------------------------------------------------------------
(* Types, and what a statement does to the journal.                        *)

\* A consumer that moves on or rests keeps its type.
LEMMA ConsumerMoves ==
    ASSUME con \in [Consumers -> Consumer], NEW c \in Consumers,
           \/ \E pc \in ConsumerStates : Goto(c, pc)
           \/ Rest(c)
    PROVE  con' \in [Consumers -> Consumer]
  <1>1. ASSUME NEW pc \in ConsumerStates, Goto(c, pc)
        PROVE  con' \in [Consumers -> Consumer]
    BY <1>1 DEF Goto, Consumer
  <1>2. Resting \in Consumer
    BY AttemptsAssumption, DeliveriesAssumption DEF Resting, Consumer, ConsumerStates
  <1>3. CASE Rest(c)
    BY <1>2, <1>3 DEF Rest
  <1> QED
    BY <1>1, <1>3

\* Every statement on a journal row keeps the journal's type.
LEMMA JournalWrites ==
    ASSUME NEW bodies, JournalTypeOK(bodies), NEW k \in Keys,
           \/ \E body \in bodies : CreateIntentIfAbsent(k, body)
           \/ \E status \in Statuses : MarkTerminal(k, status) \/ Overwrite(k, status)
           \/ Claim(k) \/ Resurrect(k) \/ UndoResurrect(k) \/ DeleteSettled(k)
    PROVE  JournalTypeOK(bodies)'
  <1>1. ASSUME NEW body \in bodies, CreateIntentIfAbsent(k, body)
        PROVE  JournalTypeOK(bodies)'
    BY <1>1, AttemptsAssumption DEF CreateIntentIfAbsent, JournalTypeOK, RowOf, Statuses, OpenStatuses
  <1>2. ASSUME NEW status \in Statuses, MarkTerminal(k, status) \/ Overwrite(k, status)
        PROVE  JournalTypeOK(bodies)'
    BY <1>2 DEF MarkTerminal, Overwrite, JournalTypeOK, RowOf, Journaled
  <1>3. CASE Claim(k)
    BY <1>3, AttemptsAssumption DEF Claim, Claimable, HasStatus, JournalTypeOK, RowOf, Journaled
  <1>4. CASE Resurrect(k)
    <2> DEFINE fresh == [status |-> "PENDING", attempts |-> 0, body |-> row[k].body]
    <2>1. row[k] \in RowOf(bodies)
      BY <1>4 DEF Resurrect, HasStatus, Journaled, JournalTypeOK
    <2>2. fresh \in RowOf(bodies)
      BY <2>1, AttemptsAssumption DEF RowOf, Statuses, OpenStatuses
    <2> QED
      BY <1>4, <2>2 DEF Resurrect, JournalTypeOK
  <1>5. CASE UndoResurrect(k)
    BY <1>5 DEF UndoResurrect, HasStatus, JournalTypeOK, RowOf, Journaled, Statuses, FinalStatuses
  <1>6. CASE DeleteSettled(k)
    BY <1>6 DEF DeleteSettled, JournalTypeOK
  <1> QED
    BY <1>1, <1>2, <1>3, <1>4, <1>5, <1>6

\* What a statement against row k does to the journal: every instruction stays,
\* no other row changes, and row k ends in one of the given statuses or as it was.
Writes(k, statuses) ==
    /\ RowsStay
    /\ \A j \in Keys : j # k => row'[j] = row[j]
    /\ row'[k] = row[k] \/ (Journaled(k)' /\ row'[k].status \in statuses)

\* An insert adds a PENDING row or changes nothing.
LEMMA CreateWrites ==
    ASSUME NEW bodies, None \notin RowOf(bodies), JournalTypeOK(bodies),
           NEW k \in Keys, NEW body \in bodies, CreateIntentIfAbsent(k, body)
    PROVE  Writes(k, {"PENDING"}) /\ Journaled(k)'
  <1> DEFINE fresh == [status |-> "PENDING", attempts |-> 0, body |-> body]
  <1>1. fresh # None
    <2>1. fresh \in RowOf(bodies)
      BY AttemptsAssumption DEF RowOf, Statuses, OpenStatuses
    <2> QED
      BY <2>1
  <1>2. CASE Journaled(k)
    BY <1>2 DEF CreateIntentIfAbsent, Writes, RowsStay, Journaled
  <1>3. CASE ~Journaled(k)
    BY <1>1, <1>3 DEF CreateIntentIfAbsent, Writes, RowsStay, Journaled, JournalTypeOK
  <1> QED
    BY <1>2, <1>3

\* A status update keeps every row and every instruction.
LEMMA StatusWrites ==
    ASSUME NEW bodies, None \notin RowOf(bodies), JournalTypeOK(bodies),
           NEW k \in Keys, NEW status \in Statuses, MarkTerminal(k, status) \/ Overwrite(k, status)
    PROVE  Writes(k, {status})
  <1>1. row[k] \in RowOf(bodies)
    BY DEF MarkTerminal, Overwrite, Journaled, JournalTypeOK
  <1>2. \/ row' = row
        \/ row' = [row EXCEPT ![k].status = status]
    BY DEF MarkTerminal, Overwrite
  <1>3. JournalTypeOK(bodies)'
    BY JournalWrites
  <1>4. CASE row' = [row EXCEPT ![k].status = status]
    <2>1. row'[k].status = status /\ row'[k].body = row[k].body
      BY <1>1, <1>4 DEF JournalTypeOK, RowOf
    <2>2. row'[k] \in RowOf(bodies)
      BY <1>1, <1>4 DEF JournalTypeOK, RowOf
    <2> QED
      BY <1>4, <2>1, <2>2 DEF Writes, RowsStay, Journaled, JournalTypeOK
  <1> QED
    BY <1>2, <1>4 DEF Writes, RowsStay, Journaled

\* A claim changes nothing but the attempts it spends.
LEMMA ClaimWrites ==
    ASSUME NEW bodies, None \notin RowOf(bodies), JournalTypeOK(bodies), NEW k \in Keys, Claim(k)
    PROVE  /\ Writes(k, {row[k].status})
           /\ Journaled(k)
           /\ row[k].attempts + 1 \in 1..MaxAttempts
  <1>1. row[k] \in RowOf(bodies) /\ Journaled(k) /\ row[k].attempts < MaxAttempts
    BY DEF Claim, Claimable, HasStatus, Journaled, JournalTypeOK
  <1>2. row' = [row EXCEPT ![k].attempts = @ + 1]
    BY DEF Claim
  <1>3. row'[k].status = row[k].status /\ row'[k].body = row[k].body
    BY <1>1, <1>2 DEF JournalTypeOK, RowOf
  <1>4. row'[k] \in RowOf(bodies)
    BY <1>1, <1>2, AttemptsAssumption DEF JournalTypeOK, RowOf
  <1>5. row[k].attempts + 1 \in 1..MaxAttempts
    BY <1>1, AttemptsAssumption DEF RowOf
  <1> QED
    BY <1>1, <1>2, <1>3, <1>4, <1>5 DEF Writes, RowsStay, Journaled, JournalTypeOK

\* A replay and its undo keep every row and every instruction.
LEMMA ReplayWrites ==
    ASSUME NEW bodies, None \notin RowOf(bodies), JournalTypeOK(bodies),
           NEW k \in Keys, Resurrect(k) \/ UndoResurrect(k)
    PROVE  Writes(k, {"PENDING", "ABANDONED"})
  <1>1. CASE Resurrect(k)
    <2> DEFINE fresh == [status |-> "PENDING", attempts |-> 0, body |-> row[k].body]
    <2>1. row[k] \in RowOf(bodies)
      BY <1>1 DEF Resurrect, HasStatus, Journaled, JournalTypeOK
    <2>2. fresh \in RowOf(bodies)
      BY <2>1, AttemptsAssumption DEF RowOf, Statuses, OpenStatuses
    <2> QED
      BY <1>1, <2>2 DEF Resurrect, Writes, RowsStay, Journaled, JournalTypeOK
  <1>2. CASE UndoResurrect(k) /\ HasStatus(k, {"PENDING"})
    <2>1. Overwrite(k, "ABANDONED")
      BY <1>2 DEF UndoResurrect, Overwrite, HasStatus
    <2> QED
      BY <2>1, StatusWrites DEF Writes, Statuses, FinalStatuses
  <1>3. CASE UndoResurrect(k) /\ ~HasStatus(k, {"PENDING"})
    BY <1>3 DEF UndoResurrect, Writes, RowsStay, Journaled
  <1> QED
    BY <1>1, <1>2, <1>3

\* Every call of the broker keeps its type.
LEMMA QueueMoves ==
    ASSUME QueueTypeOK, NEW k \in Keys, NEW m \in Messages,
           \/ AddEntry(m, k) \/ (\E busy : Publish(k, busy))
           \/ Schedule(k) \/ Unschedule(k)
           \/ Read(m) \/ Redeliver(m) \/ Ack(m) \/ ParkInDlq(k)
    PROVE  QueueTypeOK'
  <1>1. ASSUME NEW n \in Messages, AddEntry(n, k) PROVE QueueTypeOK'
    BY <1>1, DeliveriesAssumption DEF AddEntry, QueueTypeOK, Entry
  <1>2. CASE \E busy : Publish(k, busy)
    BY <1>1, <1>2 DEF Publish
  <1>3. CASE Schedule(k) \/ Unschedule(k)
    BY <1>3 DEF Schedule, Unschedule, QueueTypeOK
  <1>4. CASE Read(m)
    BY <1>4, DeliveriesAssumption DEF Read, QueueTypeOK, Entry
  <1>5. CASE Redeliver(m)
    BY <1>5, DeliveriesAssumption DEF Redeliver, QueueTypeOK, Entry
  <1>6. CASE Ack(m)
    BY <1>6 DEF Ack, QueueTypeOK
  <1>7. CASE ParkInDlq(k)
    BY <1>7 DEF ParkInDlq, QueueTypeOK
  <1> QED
    BY <1>1, <1>2, <1>3, <1>4, <1>5, <1>6, <1>7

-----------------------------------------------------------------------------
(* The steps of the listener.                                              *)

\* The status a consumer is about to write.
Disposes(c, status) ==
    \/ At(c, "succeed") /\ status = "SUCCEEDED"
    \/ At(c, "fail") /\ status = "FAILED"
    \/ At(c, "abandon") /\ status = "ABANDONED"

\* What a step of the listener does: it takes its consumer out of the work, and
\* writes nothing to the journal but the disposition of the row at hand.
Listens(c) ==
    /\ \A d \in Consumers : d # c => con'[d] = con[d]
    /\ HandsOK(c)'
    /\ con'[c].pc \notin Working
    /\ \/ row' = row
       \/ \E status \in Statuses : Disposes(c, status) /\ Writes(con[c].key, {status})

\* The steps that fetch or settle a message touch the broker and con only.
LEMMA ListenerQuiet ==
    ASSUME NEW bodies, ReconcilerTypeOK(bodies), NEW c \in Consumers, row' = row, QueueTypeOK',
           NEW next \in Consumer, con' = [con EXCEPT ![c] = next], next.pc \notin Working,
           next.pc # "idle" => next.key \in Keys /\ next.msg \in Messages
    PROVE  ReconcilerTypeOK(bodies)' /\ Listens(c)
  <1>1. con \in [Consumers -> Consumer]
    BY DEF ReconcilerTypeOK
  <1>2. /\ con' \in [Consumers -> Consumer]
        /\ con'[c] = next
        /\ \A d \in Consumers : d # c => con'[d] = con[d]
    BY <1>1
  <1> QED
    BY <1>2 DEF ReconcilerTypeOK, JournalTypeOK, Listens, HandsOK

\* The row a consumer settles gets the disposition the consumer came with.
LEMMA DispositionWritten ==
    ASSUME NEW bodies, None \notin RowOf(bodies), ReconcilerTypeOK(bodies), NEW c \in Consumers,
           HandsOK(c), RecordSuccess(c) \/ RecordFailure(c) \/ RecordAbandon(c)
    PROVE  ReconcilerTypeOK(bodies)' /\ Listens(c)
  <1>t. con \in [Consumers -> Consumer] /\ con[c] \in Consumer /\ JournalTypeOK(bodies) /\ QueueTypeOK
    BY DEF ReconcilerTypeOK
  <1>k. PICK k \in Keys : k = con[c].key /\ con[c].msg \in Messages
    BY DEF RecordSuccess, RecordFailure, RecordAbandon, At, HandsOK
  <1>s. PICK status \in Statuses :
               Disposes(c, status) /\ (MarkTerminal(k, status) \/ Overwrite(k, status))
    BY <1>k DEF RecordSuccess, RecordFailure, RecordAbandon, Disposes,
                Statuses, OpenStatuses, FinalStatuses
  <1>p. PICK pc \in Settling : Goto(c, pc)
    BY DEF RecordSuccess, RecordFailure, RecordAbandon, Settling
  <1>1. Writes(k, {status}) /\ JournalTypeOK(bodies)'
    BY <1>t, <1>s, StatusWrites, JournalWrites
  <1>2. con' \in [Consumers -> Consumer]
    BY <1>t, <1>p, ConsumerMoves DEF ConsumerStates
  <1>3. QueueTypeOK'
    BY <1>t DEF RecordSuccess, RecordFailure, RecordAbandon, queueVars, QueueTypeOK
  <1>4. /\ \A d \in Consumers : d # c => con'[d] = con[d]
        /\ con'[c].pc = pc /\ con'[c].key = con[c].key /\ con'[c].msg = con[c].msg
    BY <1>t, <1>p DEF Goto, Consumer
  <1>5. HandsOK(c)' /\ con'[c].pc \notin Working
    BY <1>k, <1>4 DEF HandsOK, Working, Reversing, Settling
  <1> QED
    BY <1>k, <1>s, <1>1, <1>2, <1>3, <1>4, <1>5 DEF ReconcilerTypeOK, Listens

\* Every step of the listener.
LEMMA ListenerShape ==
    ASSUME NEW bodies, None \notin RowOf(bodies), ReconcilerTypeOK(bodies), NEW c \in Consumers,
           HandsOK(c), \E locked : ListenerStep(c, locked)
    PROVE  ReconcilerTypeOK(bodies)' /\ Listens(c)
  <1>t. con \in [Consumers -> Consumer] /\ con[c] \in Consumer /\ QueueTypeOK
    BY DEF ReconcilerTypeOK
  <1>w. \A pc \in {"idle", "drained", "claim"} \cup Settling : pc \in ConsumerStates \ Working
    BY DEF ConsumerStates, Working, Reversing, Settling
  <1>r. Resting \in Consumer /\ Resting.pc = "idle"
    BY AttemptsAssumption, DeliveriesAssumption DEF Resting, Consumer, ConsumerStates
  \* Fetching.
  <1>1. ASSUME NEW k \in Keys, DrainDue(c, k)
        PROVE  ReconcilerTypeOK(bodies)' /\ Listens(c)
    <2>1. PICK m \in Messages :
                 con' = [con EXCEPT ![c] = [pc |-> "drained", key |-> k, msg |-> m,
                                            tries |-> 0, seen |-> 0]]
      BY <1>1 DEF DrainDue
    <2> DEFINE next == [pc |-> "drained", key |-> k, msg |-> m, tries |-> 0, seen |-> 0]
    <2>2. next \in Consumer
      BY <1>w, AttemptsAssumption, DeliveriesAssumption DEF Consumer
    <2>3. QueueTypeOK' /\ row' = row
      BY <1>1, <1>t DEF DrainDue, Unschedule, QueueTypeOK
    <2>4. next.pc \notin Working /\ next.key \in Keys /\ next.msg \in Messages
      BY <1>w
    <2> QED
      BY <2>1, <2>2, <2>3, <2>4, ListenerQuiet
  <1>2. CASE Republish(c)
    <2>1. con[c].key \in Keys /\ con[c].msg \in Messages
      BY <1>2 DEF Republish, At, HandsOK
    <2>2. QueueTypeOK'
      BY <1>2, <1>t, <2>1, QueueMoves DEF Republish
    <2> QED
      BY <1>2, <1>r, <1>w, <2>2, ListenerQuiet DEF Republish, Rest
  <1>3. ASSUME NEW m \in Messages, Pull(c, m) \/ Reclaim(c, m)
        PROVE  ReconcilerTypeOK(bodies)' /\ Listens(c)
    <2>1. entries[m] \in Entry /\ entries'[m] \in Entry /\ QueueTypeOK'
      <3>1. CASE Read(m)
        BY <1>t, <3>1, DeliveriesAssumption DEF Read, QueueTypeOK, Entry
      <3>2. CASE Redeliver(m)
        BY <1>t, <3>2, DeliveriesAssumption DEF Redeliver, QueueTypeOK, Entry
      <3> QED
        BY <1>3, <3>1, <3>2 DEF Pull, Reclaim
    <2>2. PICK count \in 0..MaxDeliveries : Handed(c, m, count)
      BY <1>3, <2>1, DeliveriesAssumption DEF Pull, Reclaim, Entry
    <2> DEFINE next == [pc |-> "claim", key |-> entries[m].key, msg |-> m, tries |-> 0, seen |-> count]
    <2>3. next \in Consumer /\ next.key \in Keys
      BY <1>w, <2>1, AttemptsAssumption DEF Consumer, Entry
    <2>4. con' = [con EXCEPT ![c] = next] /\ row' = row
      BY <1>3, <2>2 DEF Handed, Pull, Reclaim
    <2>5. next.pc \notin Working /\ next.msg \in Messages
      BY <1>w
    <2> QED
      BY <2>1, <2>3, <2>4, <2>5, ListenerQuiet
  \* Settling.
  <1>4. CASE \/ \E locked : SkipRow(c, locked)
             \/ Reschedule(c) \/ DeadLetter(c) \/ Acknowledge(c) \/ Throw(c) \/ CrashConsumer(c)
    <2>1. con[c].key \in Keys /\ con[c].msg \in Messages
      BY <1>4 DEF SkipRow, Reschedule, DeadLetter, Acknowledge, Throw, CrashConsumer, At, HandsOK
    <2>2. QueueTypeOK' /\ row' = row
      BY <1>4, <1>t, <2>1 DEF SkipRow, Reschedule, DeadLetter, Acknowledge, Throw, CrashConsumer,
                              Schedule, ParkInDlq, Ack, QueueTypeOK
    <2>3. Goto(c, "ack") \/ Goto(c, "park") \/ Rest(c)
      BY <1>4 DEF SkipRow, Reschedule, DeadLetter, Acknowledge, Throw, CrashConsumer
    <2>4. ASSUME NEW pc \in Settling, Goto(c, pc)
          PROVE  ReconcilerTypeOK(bodies)' /\ Listens(c)
      <3> DEFINE next == [con[c] EXCEPT !.pc = pc]
      <3>1. next \in Consumer /\ next.pc = pc /\ next.key = con[c].key /\ next.msg = con[c].msg
        BY <1>t, <1>w DEF Consumer
      <3>2. con' = [con EXCEPT ![c] = next]
        BY <2>4, <1>t DEF Goto
      <3> QED
        BY <1>w, <2>1, <2>2, <3>1, <3>2, ListenerQuiet
    <2>5. CASE Rest(c)
      BY <1>r, <1>w, <2>2, <2>5, ListenerQuiet DEF Rest
    <2> QED
      BY <2>3, <2>4, <2>5 DEF Settling
  <1> QED
    BY <1>1, <1>2, <1>3, <1>4, DispositionWritten DEF ListenerStep

-----------------------------------------------------------------------------
(* Who will look at a key again.  While nothing fails, a consumer lets go  *)
(* of a key only when the key is settled, scheduled or dead-lettered, or   *)
(* when it leaves the key to somebody else.                                *)

\* Consumer c has k in hand and is not about to let go of it.
Handles(c, k) == HasInHand(c, k) /\ ~At(c, "ack")

\* Entry m names k, and nobody is about to acknowledge it.
Waits(m, k) ==
    /\ entries[m] # None
    /\ entries[m].key = k
    /\ \A c \in Consumers : At(c, "ack") => con[c].msg # m

Covered(k) ==
    \/ k \in schedule
    \/ \E m \in Messages : Waits(m, k)
    \/ \E c \in Consumers : Handles(c, k)

\* The message in hand names the key in hand, as long as it exists; the id set
\* aside for a drained key is free, and nobody else's.
MessageOK(c) ==
    /\ HandsOK(c)
    /\ At(c, "drained") => /\ entries[con[c].msg] = None
                           /\ \A d \in Consumers : d # c => con[d].msg # con[c].msg
    /\ con[c].pc \notin {"idle", "drained"} /\ entries[con[c].msg] # None
         => entries[con[c].msg].key = con[c].key

MessagesOK == \A c \in Consumers : MessageOK(c)

\* Nobody loses sight of a key.
CoverStays == \A k \in Keys : Covered(k) => Covered(k)'

\* Steps that leave broker and consumers alone.
LEMMA CoverUnchanged ==
    ASSUME MessagesOK, UNCHANGED <<queueVars, con>>
    PROVE  CoverStays /\ MessagesOK'
  BY DEF queueVars, CoverStays, Covered, Waits, Handles, HasInHand, At, MessagesOK, MessageOK, HandsOK

\* A published key is covered, under an id nobody holds.
LEMMA PublishCovers ==
    ASSUME QueueTypeOK, MessagesOK, con' = con, NEW k \in Keys, Publish(k, HeldMessages)
    PROVE  CoverStays /\ MessagesOK' /\ Covered(k)'
  <1>1. PICK m \in Messages : m \notin HeldMessages /\ AddEntry(m, k)
    BY DEF Publish
  <1>2. \A c \in Consumers : con[c].msg # m
    BY <1>1, EntryAssumption DEF HeldMessages
  <1>3. /\ entries' = [entries EXCEPT ![m] = [key |-> k, count |-> 0]]
        /\ entries[m] = None
        /\ schedule' = schedule
    BY <1>1 DEF AddEntry
  <1>4. [key |-> k, count |-> 0] # None
    <2>1. [key |-> k, count |-> 0] \in Entry
      BY DeliveriesAssumption DEF Entry
    <2> QED
      BY <2>1, EntryAssumption
  <1>5. entries'[m] # None /\ entries'[m].key = k /\ \A n \in Messages : n # m => entries'[n] = entries[n]
    BY <1>3, <1>4 DEF QueueTypeOK
  <1>6. Waits(m, k)'
    BY <1>2, <1>5 DEF Waits, At
  <1>7. CoverStays
    BY <1>3, <1>5 DEF CoverStays, Covered, Waits, Handles, HasInHand, At
  <1>8. MessagesOK'
    BY <1>2, <1>5 DEF MessagesOK, MessageOK, HandsOK, At
  <1> QED
    BY <1>6, <1>7, <1>8 DEF Covered

\* A scheduled key is covered.
LEMMA ScheduleCovers ==
    ASSUME MessagesOK, con' = con, NEW k \in Keys, Schedule(k)
    PROVE  CoverStays /\ MessagesOK' /\ Covered(k)'
  BY DEF Schedule, CoverStays, Covered, Waits, Handles, HasInHand, At, MessagesOK, MessageOK, HandsOK

\* Taking a key off the schedule uncovers no other.
LEMMA UnscheduleCovers ==
    ASSUME MessagesOK, con' = con, NEW k \in Keys, Unschedule(k)
    PROVE  MessagesOK' /\ \A j \in Keys : j # k /\ Covered(j) => Covered(j)'
  BY DEF Unschedule, Covered, Waits, Handles, HasInHand, At, MessagesOK, MessageOK, HandsOK

\* A consumer that goes on with what it has in hand covers what it covered,
\* unless it is done with it.
LEMMA WorkCovers ==
    ASSUME MessagesOK, UNCHANGED queueVars, NEW c \in Consumers,
           con[c].pc \notin {"idle", "drained", "ack"}, con'[c].pc \notin {"idle", "drained"},
           con'[c].key = con[c].key, con'[c].msg = con[c].msg,
           \A d \in Consumers : d # c => con'[d] = con[d]
    PROVE  /\ MessagesOK'
           /\ \A k \in Keys : Covered(k) => Covered(k)' \/ (con[c].key = k /\ con'[c].pc = "ack")
  <1>1. MessagesOK'
    BY DEF queueVars, MessagesOK, MessageOK, HandsOK, At
  <1>2. ASSUME NEW k \in Keys, Covered(k), ~(con[c].key = k /\ con'[c].pc = "ack")
        PROVE  Covered(k)'
    <2>1. CASE k \in schedule
      BY <2>1 DEF queueVars, Covered
    <2>2. ASSUME NEW m \in Messages, Waits(m, k)
          PROVE  Covered(k)'
      <3>1. con'[c].pc = "ack" => con[c].msg # m
        BY <1>2, <2>2 DEF MessagesOK, MessageOK, Waits
      <3> QED
        BY <2>2, <3>1 DEF queueVars, Covered, Waits, At
    <2>3. ASSUME NEW d \in Consumers, Handles(d, k)
          PROVE  Covered(k)'
      BY <1>2, <2>3 DEF Covered, Handles, HasInHand, At
    <2> QED
      BY <1>2, <2>1, <2>2, <2>3 DEF Covered
  <1> QED
    BY <1>1, <1>2

\* Where the listener lets k go uncovered: it skips the row it has in hand, or
\* records a success of it.
LetsGo(c, k, locked) ==
    /\ con[c].key = k
    /\ At(c, "succeed") \/ (At(c, "claim") /\ (locked \/ ~Claimable(k)))

\* Without faults, every other key of a step of the listener stays covered or
\* ends up in the dead letter stream.
LEMMA ListenerCovers ==
    ASSUME NEW bodies, ReconcilerTypeOK(bodies), MessagesOK, Faults = {},
           NEW c \in Consumers, NEW locked, ListenerStep(c, locked)
    PROVE  /\ MessagesOK'
           /\ \A k \in Keys : Covered(k) => Covered(k)' \/ k \in dlq' \/ LetsGo(c, k, locked)
  <1> DEFINE Goal == /\ MessagesOK'
                     /\ \A k \in Keys : Covered(k) => Covered(k)' \/ k \in dlq' \/ LetsGo(c, k, locked)
  <1>t. con \in [Consumers -> Consumer] /\ QueueTypeOK /\ MessageOK(c)
    BY DEF ReconcilerTypeOK, MessagesOK
  <1>n. /\ None \notin Messages
        /\ \A k \in Keys : [key |-> k, count |-> 0] \in Entry /\ [key |-> k, count |-> 0] # None
    BY EntryAssumption, DeliveriesAssumption DEF Entry
  \* Fetching.
  <1>1. ASSUME NEW k \in Keys, DrainDue(c, k) PROVE Goal
    <2>1. PICK m \in Messages \ HeldMessages :
                 /\ entries[m] = None
                 /\ con' = [con EXCEPT ![c] = [pc |-> "drained", key |-> k, msg |-> m,
                                               tries |-> 0, seen |-> 0]]
      BY <1>1 DEF DrainDue
    <2>2. \A d \in Consumers : con[d].msg # m
      BY <1>n, <2>1 DEF HeldMessages
    <2>3. /\ con'[c] = [pc |-> "drained", key |-> k, msg |-> m, tries |-> 0, seen |-> 0]
          /\ \A d \in Consumers : d # c => con'[d] = con[d]
      BY <1>t, <2>1
    <2>4. con[c].pc = "idle" /\ entries' = entries /\ schedule' = schedule \ {k}
      BY <1>1 DEF DrainDue, Unschedule, At
    <2>5. MessagesOK'
      BY <2>1, <2>2, <2>3, <2>4 DEF MessagesOK, MessageOK, HandsOK, At
    <2>6. Covered(k)'
      BY <2>3 DEF Covered, Handles, HasInHand, At
    <2>7. \A j \in Keys : j # k /\ Covered(j) => Covered(j)'
      BY <2>3, <2>4 DEF Covered, Waits, Handles, HasInHand, At
    <2> QED
      BY <2>5, <2>6, <2>7
  <1>2. CASE Republish(c)
    <2>k. PICK k \in Keys, m \in Messages :
                 k = con[c].key /\ m = con[c].msg /\ con[c].pc = "drained"
      BY <1>2, <1>t DEF Republish, At, MessageOK, HandsOK
    <2>1. /\ entries' = [entries EXCEPT ![m] = [key |-> k, count |-> 0]]
          /\ schedule' = schedule
          /\ con' = [con EXCEPT ![c] = Resting]
          /\ entries[m] = None
      BY <1>2, <2>k DEF Republish, AddEntry, Rest
    <2>2. /\ con'[c].pc = "idle" /\ con'[c].msg = None
          /\ \A d \in Consumers : d # c => con'[d] = con[d] /\ con[d].msg # m
      BY <1>t, <2>k, <2>1 DEF Resting, MessageOK, At
    <2>3. entries'[m] # None /\ entries'[m].key = k /\ \A n \in Messages : n # m => entries'[n] = entries[n]
      BY <1>t, <1>n, <2>1 DEF QueueTypeOK
    <2>4. MessagesOK'
      <3> SUFFICES ASSUME NEW d \in Consumers, d # c
                   PROVE  MessageOK(d)'
        BY <2>2 DEF MessagesOK, MessageOK, HandsOK, At
      <3>1. MessageOK(d) /\ con'[d] = con[d] /\ con[d].msg # m
        BY <2>2 DEF MessagesOK
      <3>2. \A e \in Consumers : At(d, "drained") /\ e # d => con'[e].msg # con[d].msg
        BY <1>n, <2>2, <3>1 DEF MessageOK, HandsOK, At
      <3> QED
        BY <2>3, <3>1, <3>2 DEF MessageOK, HandsOK, At
    <2>5. Waits(m, k)'
      BY <1>n, <2>2, <2>3 DEF Waits, At
    <2>6. \A j \in Keys : j # k /\ Covered(j) => Covered(j)'
      BY <2>k, <2>1, <2>2, <2>3 DEF Covered, Waits, Handles, HasInHand, At
    <2> QED
      BY <2>4, <2>5, <2>6 DEF Covered
  <1>3. ASSUME NEW m \in Messages, Pull(c, m) \/ Reclaim(c, m) PROVE Goal
    <2>1. /\ entries[m] \in Entry /\ entries'[m] \in Entry /\ entries'[m].key = entries[m].key
          /\ \A n \in Messages : n # m => entries'[n] = entries[n]
          /\ schedule' = schedule
      <3>1. CASE Read(m)
        BY <1>t, <3>1, DeliveriesAssumption DEF Read, QueueTypeOK, Entry
      <3>2. CASE Redeliver(m)
        BY <1>t, <3>2, DeliveriesAssumption DEF Redeliver, QueueTypeOK, Entry
      <3> QED
        BY <1>3, <3>1, <3>2 DEF Pull, Reclaim
    <2>2. entries[m] # None /\ entries'[m] # None /\ entries[m].key \in Keys
      BY <2>1, EntryAssumption DEF Entry
    <2>3. /\ con[c].pc = "idle" /\ con'[c].pc = "claim"
          /\ con'[c].key = entries[m].key /\ con'[c].msg = m
          /\ \A d \in Consumers : d # c => con'[d] = con[d]
      BY <1>3, <1>t DEF Pull, Reclaim, Handed, At
    <2>4. MessagesOK'
      BY <2>1, <2>2, <2>3 DEF MessagesOK, MessageOK, HandsOK, At
    <2>5. CoverStays
      <3> SUFFICES ASSUME NEW k \in Keys, Covered(k)
                   PROVE  Covered(k)'
        BY DEF CoverStays
      <3>1. ASSUME NEW n \in Messages, Waits(n, k) PROVE Waits(n, k)'
        BY <2>1, <2>2, <2>3, <3>1 DEF Waits, At
      <3> QED
        BY <2>1, <2>3, <3>1 DEF Covered, Handles, HasInHand, At
    <2> QED
      BY <2>4, <2>5 DEF CoverStays
  \* Settling.
  <1>4. CASE SkipRow(c, locked)
    <2>1. /\ con[c].pc = "claim" /\ con'[c].pc = "ack" /\ UNCHANGED queueVars
          /\ con'[c].key = con[c].key /\ con'[c].msg = con[c].msg
          /\ \A d \in Consumers : d # c => con'[d] = con[d]
      BY <1>4, <1>t DEF SkipRow, Goto, At, Consumer, queueVars
    <2>2. \/ locked \/ ~Claimable(con[c].key)
          \/ \E d \in Consumers : d # c /\ LocksRow(d, con[c].key)
      BY <1>4 DEF SkipRow
    <2>3. ASSUME NEW d \in Consumers, d # c, LocksRow(d, con[c].key)
          PROVE  Covered(con[c].key)'
      BY <2>1, <2>3 DEF LocksRow, Covered, Handles, HasInHand, At
    <2> QED
      BY <2>1, <2>2, <2>3, WorkCovers DEF LetsGo, At
  <1>5. CASE RecordSuccess(c) \/ RecordFailure(c) \/ RecordAbandon(c)
    <2>1. /\ con[c].pc \in {"succeed", "fail", "abandon"}
          /\ con'[c].pc \in Settling /\ (con'[c].pc = "ack" => At(c, "succeed"))
          /\ UNCHANGED queueVars
          /\ con'[c].key = con[c].key /\ con'[c].msg = con[c].msg
          /\ \A d \in Consumers : d # c => con'[d] = con[d]
      BY <1>5, <1>t DEF RecordSuccess, RecordFailure, RecordAbandon, Goto, At, Consumer, Settling
    <2> QED
      BY <2>1, WorkCovers DEF Settling, LetsGo
  <1>6. CASE Reschedule(c) \/ DeadLetter(c)
    <2>k. PICK k \in Keys : k = con[c].key /\ con[c].pc \in {"retry", "park"}
      BY <1>6, <1>t DEF Reschedule, DeadLetter, At, MessageOK, HandsOK
    <2>1. /\ con'[c].pc = "ack" /\ con'[c].key = k /\ con'[c].msg = con[c].msg
          /\ \A d \in Consumers : d # c => con'[d] = con[d]
          /\ entries' = entries
      BY <1>6, <1>t, <2>k DEF Reschedule, DeadLetter, Goto, At, Consumer, Schedule, ParkInDlq
    <2>2. schedule \subseteq schedule' /\ (k \in schedule' \/ k \in dlq')
      BY <1>6, <2>k DEF Reschedule, DeadLetter, Schedule, ParkInDlq
    <2>3. MessagesOK'
      BY <2>k, <2>1 DEF MessagesOK, MessageOK, HandsOK, At
    <2>4. \A j \in Keys : j # k /\ Covered(j) => Covered(j)'
      BY <2>k, <2>1, <2>2 DEF Covered, Waits, Handles, HasInHand, At, MessagesOK, MessageOK
    <2> QED
      BY <2>2, <2>3, <2>4 DEF Covered
  <1>7. CASE Acknowledge(c)
    <2>1. /\ con[c].pc = "ack" /\ con'[c].pc = "idle" /\ con'[c].msg = None
          /\ \A d \in Consumers : d # c => con'[d] = con[d]
          /\ entries' = [entries EXCEPT ![con[c].msg] = None]
          /\ schedule' = schedule
      BY <1>7, <1>t DEF Acknowledge, Rest, Resting, Ack, At
    <2>2. \A n \in Messages : entries'[n] = IF n = con[c].msg THEN None ELSE entries[n]
      BY <1>t, <2>1 DEF QueueTypeOK
    <2>3. MessagesOK'
      <3> SUFFICES ASSUME NEW d \in Consumers, d # c
                   PROVE  MessageOK(d)'
        BY <2>1 DEF MessagesOK, MessageOK, HandsOK, At
      <3>1. MessageOK(d) /\ con'[d] = con[d]
        BY <2>1 DEF MessagesOK
      <3>2. \A e \in Consumers : At(d, "drained") /\ e # d => con'[e].msg # con[d].msg
        BY <1>n, <2>1, <3>1 DEF MessageOK, HandsOK, At
      <3> QED
        BY <2>2, <3>1, <3>2 DEF MessageOK, HandsOK, At
    <2>4. CoverStays
      BY <2>1, <2>2 DEF CoverStays, Covered, Waits, Handles, HasInHand, At
    <2> QED
      BY <2>3, <2>4 DEF CoverStays
  <1>8. ~Throw(c) /\ ~CrashConsumer(c)
    BY DEF Throw, CrashConsumer
  <1> QED
    BY <1>1, <1>2, <1>3, <1>4, <1>5, <1>6, <1>7, <1>8 DEF ListenerStep

-----------------------------------------------------------------------------
(* The attempts of a row.  The claim that spends the last one makes its    *)
(* consumer responsible: there is no later attempt to leave the row to.    *)

Spent(k) == Journaled(k) /\ row[k].attempts = MaxAttempts

\* Consumer c makes the last attempt at k, and does not put it off.
LastTry(c, k) ==
    /\ con[c].key = k
    /\ con[c].tries = MaxAttempts
    /\ con[c].pc \in (Working \ {"fail"}) \cup {"park"}

SpendsNothing == \A k \in Keys : Spent(k)' => Spent(k)

\* Only a claim spends attempts.
LEMMA WritesSpendNothing ==
    ASSUME NEW bodies, None \notin RowOf(bodies), JournalTypeOK(bodies), NEW k \in Keys,
           \/ row' = row
           \/ \E body \in bodies : CreateIntentIfAbsent(k, body)
           \/ \E status \in Statuses : MarkTerminal(k, status) \/ Overwrite(k, status)
           \/ Resurrect(k) \/ UndoResurrect(k) \/ DeleteSettled(k)
    PROVE  SpendsNothing
  <1>1. CASE row' = row
    BY <1>1 DEF SpendsNothing, Spent, Journaled
  <1>2. ASSUME NEW body \in bodies, CreateIntentIfAbsent(k, body)
        PROVE  SpendsNothing
    BY <1>2, AttemptsAssumption DEF CreateIntentIfAbsent, SpendsNothing, Spent, Journaled, JournalTypeOK
  <1>3. ASSUME NEW status \in Statuses, row[k] \in RowOf(bodies),
               row' = [row EXCEPT ![k].status = status]
        PROVE  SpendsNothing
    <2>1. row'[k].attempts = row[k].attempts /\ row[k] # None
      BY <1>3 DEF JournalTypeOK, RowOf
    <2> QED
      BY <1>3, <2>1 DEF SpendsNothing, Spent, Journaled, JournalTypeOK
  <1>4. ASSUME NEW status \in Statuses, MarkTerminal(k, status) \/ Overwrite(k, status)
        PROVE  SpendsNothing
    <2>1. row[k] \in RowOf(bodies)
      BY <1>4 DEF MarkTerminal, Overwrite, Journaled, JournalTypeOK
    <2> QED
      BY <1>1, <1>3, <1>4, <2>1 DEF MarkTerminal, Overwrite
  <1>5. CASE Resurrect(k) \/ DeleteSettled(k)
    BY <1>5, AttemptsAssumption DEF Resurrect, DeleteSettled, SpendsNothing, Spent, Journaled, JournalTypeOK
  <1>6. CASE UndoResurrect(k)
    <2>1. row' = row \/ Overwrite(k, "ABANDONED")
      BY <1>6 DEF UndoResurrect, Overwrite, HasStatus
    <2> QED
      BY <1>1, <1>4, <2>1 DEF Statuses, FinalStatuses
  <1> QED
    BY <1>1, <1>2, <1>4, <1>5, <1>6

\* A claim spends one attempt of its row.
LEMMA ClaimSpends ==
    ASSUME NEW bodies, JournalTypeOK(bodies), NEW k \in Keys, Claim(k)
    PROVE  \A j \in Keys : Spent(j)' => Spent(j) \/ (j = k /\ row[k].attempts + 1 = MaxAttempts)
  BY DEF Claim, Claimable, HasStatus, Journaled, JournalTypeOK, RowOf, Spent

\* Without faults, the listener gives up a last attempt only with a success,
\* and parks it otherwise.
LEMMA ListenerTries ==
    ASSUME NEW bodies, None \notin RowOf(bodies), ReconcilerTypeOK(bodies), Faults = {},
           NEW c \in Consumers, HandsOK(c), NEW locked, ListenerStep(c, locked)
    PROVE  /\ SpendsNothing
           /\ dlq \subseteq dlq'
           /\ \A d \in Consumers, k \in Keys :
                 LastTry(d, k) => LastTry(d, k)' \/ k \in dlq' \/ (d = c /\ At(c, "succeed"))
  <1>t. con \in [Consumers -> Consumer] /\ JournalTypeOK(bodies)
    BY DEF ReconcilerTypeOK
  <1>1. SpendsNothing
    <2>1. CASE row' = row
      BY <1>t, <2>1 DEF SpendsNothing, Spent, Journaled
    <2>2. CASE RecordSuccess(c) \/ RecordFailure(c) \/ RecordAbandon(c)
      <3>1. PICK k \in Keys : \E status \in Statuses : MarkTerminal(k, status) \/ Overwrite(k, status)
        BY <2>2 DEF RecordSuccess, RecordFailure, RecordAbandon, At, HandsOK, Statuses,
                    OpenStatuses, FinalStatuses
      <3> QED
        BY <1>t, <3>1, WritesSpendNothing
    <2> QED
      BY <2>1, <2>2 DEF ListenerStep, DrainDue, Republish, Pull, Reclaim, SkipRow, Reschedule,
                        DeadLetter, Acknowledge, Throw, CrashConsumer
  <1>2. dlq \subseteq dlq'
    BY DEF ListenerStep, DrainDue, Republish, Pull, Reclaim, SkipRow, RecordSuccess, RecordFailure,
           RecordAbandon, Reschedule, DeadLetter, Acknowledge, Throw, CrashConsumer, queueVars,
           Unschedule, AddEntry, Read, Redeliver, Schedule, ParkInDlq, Ack
  <1>3. ASSUME NEW k \in Keys, LastTry(c, k)
        PROVE  LastTry(c, k)' \/ k \in dlq' \/ At(c, "succeed")
    <2>1. con[c].pc \notin {"idle", "drained", "claim", "retry", "ack", "fail"}
      BY <1>3 DEF LastTry, Working, Reversing
    <2>2. RecordSuccess(c) \/ RecordAbandon(c) \/ DeadLetter(c)
      BY <2>1 DEF ListenerStep, DrainDue, Republish, Pull, Reclaim, SkipRow, RecordFailure,
                  Reschedule, Acknowledge, Throw, CrashConsumer, At
    <2>3. CASE RecordAbandon(c)
      BY <1>3, <1>t, <2>3 DEF RecordAbandon, Goto, At, LastTry, Consumer
    <2> QED
      BY <1>3, <2>2, <2>3 DEF RecordSuccess, DeadLetter, ParkInDlq, LastTry
  <1>4. \A d \in Consumers : d # c => con'[d] = con[d]
    BY <1>t DEF ListenerStep, DrainDue, Republish, Pull, Reclaim, Handed, SkipRow, RecordSuccess,
                RecordFailure, RecordAbandon, Reschedule, DeadLetter, Acknowledge, Throw,
                CrashConsumer, Goto, Rest
  <1> QED
    BY <1>1, <1>2, <1>3, <1>4 DEF LastTry

=============================================================================
