----------------------- MODULE DepositRecoveryProofs -----------------------
(***************************************************************************)
(* Zero transaction loss of the deposit saga: while nothing fails but the  *)
(* webhooks (lost or late), the engine's answers (lost or late) and the    *)
(* pace of the consumers, no captured deposit is ever out of sight.  Each  *)
(* kind of fault alone breaks this, as TLC shows on the instance of        *)
(* deposit_recovery, so the theorem assumes that there is none.            *)
(*                                                                         *)
(* That a paid deposit is on its way is not inductive.  A consumer that    *)
(* skips a row acknowledges the only message that named it, so it matters  *)
(* why it may skip: the row is final, or somebody else holds it, or its    *)
(* attempts are spent, and then the consumer that spent the last one still *)
(* works on it (BudgetOK).  An acknowledged message must have named the    *)
(* key in hand (MessagesOK), and a webhook that takes a backstop off the   *)
(* schedule must know that nobody will need it (HookAware).                *)
(***************************************************************************)
EXTENDS DepositProofs

\* Nothing more is owed for k: it is credited, or its intent was declined.
Dead(k) == k \in credited \/ psp[IntentOf(k)] = "declined"

\* A secret for the intent of row k is out, or about to be.
Started(k) ==
    /\ Journaled(k)
    /\ \/ IntentOf(k) \in issued
       \/ \E r \in Requests : req[r].key = k /\ req[r].pc = "reply"

\* A webhook delivery that will credit, settle or publish k.
HookCarries(k) ==
    \E h \in Hooks : hook[h].key = k /\ hook[h].pc \in {"call", "succeed", "fail", "publish"}

Carried(k) == Covered(k) \/ k \in replaying \/ HookCarries(k)

FlowOK(k) == Started(k) => Dead(k) \/ Visible(k) \/ Carried(k)

BudgetOK(k) ==
    Spent(k) => k \in dlq \/ k \in credited \/ \E c \in Consumers : LastTry(c, k)

HookAware(h) == hook[h].pc \in {"abandon", "cancel"} => Dead(hook[h].key)

RecoveryInv ==
    /\ MessagesOK
    /\ \A i \in declines : psp[i] = "declined"
    /\ \A h \in Hooks : HookAware(h)
    /\ \A k \in Keys : ~HasStatus(k, {"COMPENSATED"}) /\ BudgetOK(k) /\ FlowOK(k)

-----------------------------------------------------------------------------
(* What no step takes back.                                                *)

\* A row may go once it is credited; a declined intent stays declined.
Keeps ==
    /\ credited \subseteq credited'
    /\ \A k \in Keys : Journaled(k) => k \in credited \/ (Journaled(k)' /\ row'[k].body = row[k].body)
    /\ \A i \in PaymentIntents : psp[i] = "declined" => psp'[i] = "declined"

\* A deposit for which nothing is owed stays one.
LEMMA DeadStays ==
    ASSUME TypeOK, Keeps, NEW k \in Keys, Journaled(k), Dead(k)
    PROVE  Dead(k)'
  <1>1. CASE k \in credited
    BY <1>1 DEF Keeps, Dead
  <1>2. CASE k \notin credited
    <2>1. IntentOf(k) \in PaymentIntents /\ psp[IntentOf(k)] = "declined"
      BY <1>2, IntentOfType DEF Dead
    <2>2. IntentOf(k)' = IntentOf(k)
      BY <1>2 DEF Keeps, IntentOf
    <2> QED
      BY <2>1, <2>2 DEF Keeps, Dead
  <1> QED
    BY <1>1, <1>2

\* What a webhook delivery that does not move knows stays true.
LEMMA AwareStays ==
    ASSUME IInv, Keeps, NEW h \in Hooks, HookAware(h), hook'[h] = hook[h]
    PROVE  HookAware(h)'
  <1> SUFFICES ASSUME hook[h].pc \in {"abandon", "cancel"}
               PROVE  Dead(hook[h].key)'
    BY DEF HookAware
  <1>1. TypeOK /\ hook[h].key \in Keys /\ Journaled(hook[h].key) /\ Dead(hook[h].key)
    BY DEF IInv, HookOK, HookAware
  <1> QED
    BY <1>1, DeadStays

\* A statement against one row, seen from here.
LEMMA WritesKeep ==
    ASSUME NEW k \in Keys, NEW statuses, Writes(k, statuses), "COMPENSATED" \notin statuses,
           credited \subseteq credited', psp' = psp,
           \A j \in Keys : ~HasStatus(j, {"COMPENSATED"})
    PROVE  /\ Keeps
           /\ \A j \in Keys : ~HasStatus(j, {"COMPENSATED"})'
  BY DEF Writes, RowsStay, Keeps, HasStatus, Journaled

\* A budget is kept by whoever spends nothing and abandons no last attempt.
LEMMA BudgetStays ==
    ASSUME NEW k \in Keys, BudgetOK(k), Spent(k)' => Spent(k),
           dlq \subseteq dlq', credited \subseteq credited',
           \A c \in Consumers : LastTry(c, k) => LastTry(c, k)' \/ k \in dlq' \/ k \in credited'
    PROVE  BudgetOK(k)'
  BY DEF BudgetOK

\* A deposit stays in sight.
LEMMA FlowStays ==
    ASSUME TypeOK, Keeps, NEW k \in Keys, FlowOK(k),
           Started(k)' => Started(k) \/ k \in credited' \/ Carried(k)',
           Visible(k) => Visible(k)' \/ Carried(k)',
           Carried(k) => Carried(k)' \/ Dead(k)' \/ Visible(k)'
    PROVE  FlowOK(k)'
  <1>1. Started(k) => Journaled(k)
    BY DEF Started
  <1> QED
    BY <1>1, DeadStays DEF FlowOK, Dead

\* A key is carried on as long as what carries it is left alone.
LEMMA CarriedStays ==
    ASSUME NEW k \in Keys, Covered(k) => Covered(k)', replaying' = replaying, hook' = hook
    PROVE  Carried(k) => Carried(k)'
  BY DEF Carried, HookCarries

-----------------------------------------------------------------------------
(* The purchase requests and the PSP.                                      *)

\* A secret is returned after the backstop was scheduled.
LEMMA PurchaseRecovers ==
    ASSUME IInv, RecoveryInv, Faults = {}, NEW r \in Requests, PurchaseStep(r)
    PROVE  RecoveryInv'
  <1> USE DEF pspVars, engineVars, reconcilerVars
  <1>t. TypeOK /\ RequestOK(r) /\ JournalTypeOK(Instructions) /\ req \in [Requests -> Request]
    BY DEF IInv, TypeOK, ReconcilerTypeOK
  <1>u. UNCHANGED <<declines, hook, con, dlq, entries, replaying, credited>> /\ ~CrashRequest(r)
    BY DEF PurchaseStep, StartPurchase, OpenIntent, RequestFails, JournalPurchase, ScheduleBackstop,
           ReturnSecret, CrashRequest, BestEffort, Schedule, queueVars
  <1>o. \A s \in Requests : s # r => req'[s] = req[s]
    BY <1>t DEF PurchaseStep, StartPurchase, OpenIntent, RequestFails, JournalPurchase,
                ScheduleBackstop, ReturnSecret, CrashRequest, RequestGoto
  <1>p. \A i \in PaymentIntents : psp[i] = "declined" => psp'[i] = "declined"
    <2>1. CASE OpenIntent(r)
      <3>1. <<req[r].who, req[r].key>> \in PaymentIntents
        BY <1>t, <2>1 DEF OpenIntent, RequestOK, PaymentIntents
      <3> QED
        BY <1>t, <2>1, <3>1 DEF OpenIntent, TypeOK
    <2> QED
      BY <2>1 DEF PurchaseStep, StartPurchase, RequestFails, JournalPurchase, ScheduleBackstop,
                  ReturnSecret, CrashRequest
  \* The journal.
  <1>j. /\ Keeps /\ SpendsNothing
        /\ \A k \in Keys : /\ ~HasStatus(k, {"COMPENSATED"})'
                           /\ Visible(k) => Visible(k)'
                           /\ Journaled(k)' /\ ~Journaled(k) => JournalPurchase(r)
                           /\ Journaled(k) => IntentOf(k)' = IntentOf(k)
    <2>1. CASE JournalPurchase(r)
      <3>k. PICK k \in Keys, body \in Instructions : CreateIntentIfAbsent(k, body)
        BY <1>t, <2>1 DEF JournalPurchase, RequestOK, Instructions
      <3>1. Writes(k, {"PENDING"})
        BY <1>t, <3>k, CreateWrites, RowAssumption
      <3>2. SpendsNothing
        BY <1>t, <3>k, WritesSpendNothing, RowAssumption
      <3>3. Keeps /\ \A j \in Keys : ~HasStatus(j, {"COMPENSATED"})'
        BY <1>u, <2>1, <3>1, WritesKeep DEF JournalPurchase, RecoveryInv
      <3>4. \A j \in Keys : Visible(j) => Visible(j)'
        BY <1>u, <3>k DEF CreateIntentIfAbsent, Visible, HasStatus, Journaled, JournalTypeOK
      <3> QED
        BY <2>1, <3>1, <3>2, <3>3, <3>4 DEF Writes, RowsStay, IntentOf
    <2>2. CASE ~JournalPurchase(r)
      <3>1. row' = row
        BY <2>2 DEF PurchaseStep, StartPurchase, OpenIntent, RequestFails, ScheduleBackstop,
                    ReturnSecret, CrashRequest
      <3> QED
        BY <1>u, <1>p, <3>1 DEF Keeps, SpendsNothing, Spent, RecoveryInv, HasStatus, Journaled,
                                Visible, IntentOf
    <2> QED
      BY <2>1, <2>2
  \* The broker.
  <1>q. /\ MessagesOK' /\ CoverStays
        /\ \A k \in Keys : ScheduleBackstop(r) /\ req[r].key = k => Covered(k)'
    <2>1. CASE ScheduleBackstop(r)
      <3>1. PICK k \in Keys : k = req[r].key /\ Schedule(k)
        BY <1>t, <2>1 DEF ScheduleBackstop, RequestOK, BestEffort
      <3> QED
        BY <1>u, <3>1, ScheduleCovers DEF RecoveryInv
    <2>2. CASE ~ScheduleBackstop(r)
      <3>1. UNCHANGED queueVars
        BY <2>2 DEF PurchaseStep, StartPurchase, OpenIntent, RequestFails, JournalPurchase,
                    ReturnSecret, CrashRequest, queueVars
      <3> QED
        BY <1>u, <2>2, <3>1, CoverUnchanged DEF RecoveryInv
    <2> QED
      BY <2>1, <2>2
  <1>1. \A i \in declines' : psp'[i] = "declined"
    BY <1>t, <1>u, <1>p DEF RecoveryInv, TypeOK
  <1>2. \A h \in Hooks : HookAware(h)'
    BY <1>u, <1>j, AwareStays DEF RecoveryInv
  <1>3. \A k \in Keys : BudgetOK(k)'
    BY <1>u, <1>j, BudgetStays DEF RecoveryInv, SpendsNothing, LastTry
  <1>4. ASSUME NEW k \in Keys PROVE FlowOK(k)'
    <2>1. Started(k)' => Started(k) \/ k \in credited' \/ Carried(k)'
      <3> SUFFICES ASSUME Started(k)'
                   PROVE  Started(k) \/ k \in credited' \/ Carried(k)'
        OBVIOUS
      <3>1. CASE ~Journaled(k)
        <4>1. JournalPurchase(r) /\ issued' = issued
          BY <1>j, <3>1 DEF Started, JournalPurchase
        <4>2. \A s \in Requests : req'[s].pc = "reply" => req'[s].key # k
          BY <1>t, <1>o, <3>1, <4>1 DEF IInv, RequestOK, JournalPurchase, RequestGoto, Request
        <4>3. PICK i \in PaymentIntents : i \in issued /\ i[2] = k
          <5>1. TypeOK'
            BY <1>t, <1>j, StepSafe DEF Next, IInv
          <5>2. IntentOf(k)' \in PaymentIntents /\ IntentOf(k)'[2] = k
            BY <5>1 DEF Started, IntentOf, TypeOK, ReconcilerTypeOK, JournalTypeOK, RowOf,
                        Instructions, PaymentIntents, Journaled
          <5> QED
            BY <4>1, <4>2, <5>2 DEF Started
        <4> QED
          BY <1>u, <3>1, <4>3 DEF IInv, IntentOK, Kept
      <3>2. CASE Journaled(k) /\ ScheduleBackstop(r) /\ req[r].key = k
        BY <1>q, <3>2 DEF Carried
      <3>3. CASE Journaled(k) /\ ReturnSecret(r)
        BY <1>t, <1>j, <1>o, <3>3 DEF ReturnSecret, Started, IntentOf, NoRequest
      <3>4. CASE Journaled(k) /\ ~ReturnSecret(r) /\ ~(ScheduleBackstop(r) /\ req[r].key = k)
        <4>1. issued' = issued
          BY <3>4 DEF PurchaseStep, StartPurchase, OpenIntent, RequestFails, JournalPurchase,
                      ScheduleBackstop, CrashRequest
        <4>2. req'[r].pc = "reply" => ScheduleBackstop(r) /\ req'[r].key = req[r].key
          BY <1>t, <3>4 DEF PurchaseStep, StartPurchase, OpenIntent, RequestFails, JournalPurchase,
                            ScheduleBackstop, CrashRequest, RequestGoto, NoRequest, Request
        <4> QED
          BY <1>j, <1>o, <3>4, <4>1, <4>2 DEF Started
      <3> QED
        BY <3>1, <3>2, <3>3, <3>4
    <2>2. Carried(k) => Carried(k)'
      BY <1>u, <1>q, CarriedStays DEF CoverStays
    <2> QED
      BY <1>t, <1>j, <2>1, <2>2, FlowStays DEF RecoveryInv
  <1> QED
    BY <1>1, <1>2, <1>3, <1>4, <1>j, <1>q DEF RecoveryInv

\* Without late confirmations, a declined intent is never captured.
LEMMA PspRecovers ==
    ASSUME IInv, RecoveryInv, Faults = {}, NEW i \in PaymentIntents, PspStep(i)
    PROVE  RecoveryInv'
  <1> USE DEF engineVars, reconcilerVars
  <1>t. TypeOK
    BY DEF IInv
  <1>1. /\ UNCHANGED <<row, schedule, entries, dlq, con, issued, credited, req, hook, replaying>>
        /\ \A j \in PaymentIntents : psp[j] = "declined" => psp'[j] = "declined"
        /\ \A j \in declines' : psp'[j] = "declined"
    BY <1>t DEF PspStep, Confirm, Decline, TypeOK, RecoveryInv
  <1>2. Keeps
    BY <1>1 DEF Keeps, Journaled
  <1>3. MessagesOK' /\ CoverStays
    BY <1>1, CoverUnchanged DEF RecoveryInv, queueVars
  <1>4. \A h \in Hooks : HookAware(h)'
    BY <1>1, <1>2, AwareStays DEF RecoveryInv
  <1>5. ASSUME NEW k \in Keys
        PROVE  ~HasStatus(k, {"COMPENSATED"})' /\ BudgetOK(k)' /\ FlowOK(k)'
    <2>1. ~HasStatus(k, {"COMPENSATED"})' /\ BudgetOK(k)'
      BY <1>1 DEF RecoveryInv, HasStatus, Journaled, BudgetOK, Spent, LastTry
    <2>2. (Started(k)' => Started(k)) /\ (Visible(k) => Visible(k)')
      BY <1>1 DEF Started, IntentOf, Visible, HasStatus, Journaled
    <2>3. Carried(k) => Carried(k)'
      BY <1>1, <1>3, CarriedStays DEF CoverStays
    <2> QED
      BY <1>t, <1>2, <2>1, <2>2, <2>3, FlowStays DEF RecoveryInv
  <1> QED
    BY <1>1, <1>3, <1>4, <1>5 DEF RecoveryInv

-----------------------------------------------------------------------------
(* The webhook deliveries.                                                 *)

\* A webhook leaves the key it has credited, settled or published behind.
LEMMA HookRecovers ==
    ASSUME IInv, RecoveryInv, Faults = {}, NEW h \in Hooks, HookStep(h)
    PROVE  RecoveryInv'
  <1> USE DEF pspVars, engineVars, reconcilerVars
  <1>t. TypeOK /\ HookOK(h) /\ HookAware(h) /\ hook \in [Hooks -> Hook]
    BY DEF IInv, TypeOK, RecoveryInv
  <1>j. JournalTypeOK(Instructions) /\ QueueTypeOK
    BY <1>t DEF TypeOK, ReconcilerTypeOK
  <1>u. /\ UNCHANGED <<psp, declines, issued, con, dlq, req, replaying>> /\ ~CrashHook(h)
        /\ credited \subseteq credited'
    BY DEF HookStep, HandlerStep, ReceiveSuccess, ReceiveFailure, CreditFromHook, RecordHookSuccess,
           RecordHookFailure, PublishFromHook, RecordHookAbandon, CancelBackstop, CrashHook,
           BestEffort, Publish, AddEntry, Unschedule, EngineCommits, EngineTimesOut, EngineRefuses,
           queueVars
  <1>o. \A g \in Hooks : g # h => hook'[g] = hook[g]
    BY <1>t DEF HookStep, HandlerStep, ReceiveSuccess, ReceiveFailure, CreditFromHook, RecordHookSuccess,
                RecordHookFailure, PublishFromHook, RecordHookAbandon, CancelBackstop, CrashHook,
                HookGoto, HookRest
  \* The journal.
  <1>w. /\ Keeps /\ SpendsNothing
        /\ \A k \in Keys : /\ ~HasStatus(k, {"COMPENSATED"})'
                           /\ Visible(k) => Visible(k)'
                           /\ Journaled(k)' => Journaled(k) /\ IntentOf(k)' = IntentOf(k)
    <2>1. CASE RecordHookSuccess(h) \/ RecordHookFailure(h) \/ RecordHookAbandon(h)
      <3>k. PICK k \in Keys, status \in {"SUCCEEDED", "FAILED", "ABANDONED"} :
                   MarkTerminal(k, status) \/ (status = "ABANDONED" /\ Overwrite(k, status))
        BY <1>t, <2>1 DEF RecordHookSuccess, RecordHookFailure, RecordHookAbandon, HookOK
      <3>s. status \in Statuses
        BY DEF Statuses, OpenStatuses, FinalStatuses
      <3>1. Writes(k, {status})
        BY <1>j, <3>k, <3>s, StatusWrites, RowAssumption
      <3>2. SpendsNothing
        BY <1>j, <3>k, <3>s, WritesSpendNothing, RowAssumption
      <3>3. Keeps /\ \A j \in Keys : ~HasStatus(j, {"COMPENSATED"})'
        BY <1>u, <3>1, WritesKeep DEF RecoveryInv
      <3>4. HasStatus(k, {"ABANDONED"}) => HasStatus(k, {"ABANDONED"})'
        <4>1. CASE MarkTerminal(k, status)
          BY <4>1 DEF MarkTerminal, HasStatus, FinalStatuses, Journaled
        <4>2. CASE status = "ABANDONED" /\ Overwrite(k, status)
          BY <3>1, <4>2 DEF Overwrite, HasStatus, Writes, RowsStay, Journaled
        <4> QED
          BY <3>k, <4>1, <4>2
      <3>5. \A j \in Keys : Visible(j) => Visible(j)'
        BY <1>u, <3>1, <3>4 DEF Writes, Visible, HasStatus, Journaled
      <3>6. Journaled(k)
        BY <3>k DEF MarkTerminal, Overwrite
      <3> QED
        BY <3>1, <3>2, <3>3, <3>5, <3>6 DEF Writes, RowsStay, Journaled, IntentOf
    <2>2. CASE ~(RecordHookSuccess(h) \/ RecordHookFailure(h) \/ RecordHookAbandon(h))
      <3>1. row' = row
        BY <2>2 DEF HookStep, HandlerStep, ReceiveSuccess, ReceiveFailure, CreditFromHook,
                    PublishFromHook, CancelBackstop, CrashHook
      <3> QED
        BY <1>u, <3>1 DEF Keeps, SpendsNothing, Spent, RecoveryInv, HasStatus, Journaled, Visible,
                          IntentOf
    <2> QED
      BY <2>1, <2>2
  \* The broker.
  <1>q. /\ MessagesOK'
        /\ \A k \in Keys : Covered(k) => Covered(k)' \/ (CancelBackstop(h) /\ hook[h].key = k)
        /\ \A k \in Keys : PublishFromHook(h) /\ hook[h].key = k => Covered(k)'
    <2>1. CASE PublishFromHook(h)
      <3>1. PICK k \in Keys : k = hook[h].key /\ Publish(k, HeldMessages)
        BY <1>t, <2>1 DEF PublishFromHook, HookOK, BestEffort
      <3> QED
        BY <1>j, <1>u, <3>1, PublishCovers DEF RecoveryInv, CoverStays
    <2>2. CASE CancelBackstop(h)
      <3>1. PICK k \in Keys : k = hook[h].key /\ Unschedule(k)
        BY <1>t, <2>2 DEF CancelBackstop, HookOK, BestEffort
      <3>2. ~PublishFromHook(h)
        BY <2>2 DEF CancelBackstop, PublishFromHook
      <3> QED
        BY <1>u, <2>2, <3>1, <3>2, UnscheduleCovers DEF RecoveryInv
    <2>3. CASE ~PublishFromHook(h) /\ ~CancelBackstop(h)
      <3>1. UNCHANGED queueVars
        BY <2>3 DEF HookStep, HandlerStep, ReceiveSuccess, ReceiveFailure, CreditFromHook,
                    RecordHookSuccess, RecordHookFailure, RecordHookAbandon, CrashHook, queueVars
      <3> QED
        BY <1>u, <2>3, <3>1, CoverUnchanged DEF RecoveryInv, CoverStays
    <2> QED
      BY <2>1, <2>2, <2>3
  \* The delivery.
  <1>k. \E k \in Keys : hook'[h].pc \in {"abandon", "cancel"} => hook'[h].key = k /\ Dead(k)'
    <2>1. ASSUME NEW i \in PaymentIntents, ReceiveSuccess(h, i) \/ ReceiveFailure(h, i)
          PROVE  \E k \in Keys : hook'[h].pc \in {"abandon", "cancel"} => hook'[h].key = k /\ Dead(k)'
      <3>k. PICK k \in Keys : k = i[2]
        BY DEF PaymentIntents
      <3>1. Journaled(k) /\ hook'[h].key = k
        BY <1>t, <2>1, <3>k DEF ReceiveSuccess, ReceiveFailure, HasStatus
      <3>2. hook'[h].pc \in {"abandon", "cancel"} => Dead(k)
        BY <1>t, <2>1, <3>k DEF ReceiveSuccess, ReceiveFailure, RecoveryInv, Dead, IInv, RowOK, HasStatus
      <3> QED
        BY <1>t, <1>w, <3>1, <3>2, DeadStays
    <2>2. CASE HandlerStep(h) /\ hook'[h].pc \in {"abandon", "cancel"}
      <3>k. PICK k \in Keys : k = hook[h].key /\ Journaled(k)
        BY <1>t, <2>2 DEF HandlerStep, CreditFromHook, RecordHookSuccess, RecordHookFailure,
                          PublishFromHook, RecordHookAbandon, CancelBackstop, HookOK
      <3>1. hook'[h].key = k /\ hook[h].pc \in {"succeed", "abandon"}
        BY <1>t, <2>2, <3>k DEF HandlerStep, CreditFromHook, RecordHookSuccess, RecordHookFailure,
                                PublishFromHook, RecordHookAbandon, CancelBackstop, HookGoto,
                                HookRest, NoHook, Hook
      <3>2. Dead(k)
        BY <1>t, <3>k, <3>1 DEF HookOK, HookAware, Dead
      <3> QED
        BY <1>t, <1>w, <3>k, <3>1, <3>2, DeadStays
    <2>3. CASE HandlerStep(h) /\ hook'[h].pc \notin {"abandon", "cancel"}
      BY <1>t, <2>3 DEF HandlerStep, CreditFromHook, RecordHookSuccess, RecordHookFailure,
                        PublishFromHook, RecordHookAbandon, CancelBackstop, HookOK
    <2> QED
      BY <1>u, <2>1, <2>2, <2>3 DEF HookStep
  <1>c. \A k \in Keys : HookCarries(k) => HookCarries(k)' \/ Covered(k)' \/ k \in credited'
    <2> SUFFICES ASSUME NEW k \in Keys, hook[h].key = k,
                        hook[h].pc \in {"call", "succeed", "fail", "publish"}
                 PROVE  HookCarries(k)' \/ Covered(k)' \/ k \in credited'
      BY <1>o DEF HookCarries
    <2>1. CASE CreditFromHook(h) \/ RecordHookFailure(h)
      BY <1>t, <2>1 DEF CreditFromHook, RecordHookFailure, HookGoto, Hook, HookCarries
    <2>2. CASE RecordHookSuccess(h)
      BY <1>t, <1>u, <2>2 DEF RecordHookSuccess, HookOK
    <2>3. CASE PublishFromHook(h)
      BY <1>q, <2>3
    <2> QED
      BY <1>u, <2>1, <2>2, <2>3 DEF HookStep, HandlerStep, ReceiveSuccess, ReceiveFailure,
                                    RecordHookAbandon, CancelBackstop
  <1>1. \A g \in Hooks : HookAware(g)'
    <2>1. HookAware(h)'
      BY <1>k DEF HookAware
    <2>2. \A g \in Hooks : g # h => HookAware(g)'
      BY <1>o, <1>w, AwareStays DEF RecoveryInv
    <2> QED
      BY <2>1, <2>2
  <1>2. \A k \in Keys : BudgetOK(k)'
    BY <1>u, <1>w, BudgetStays DEF RecoveryInv, SpendsNothing, LastTry
  <1>3. ASSUME NEW k \in Keys PROVE FlowOK(k)'
    <2>1. Started(k)' => Started(k)
      BY <1>u, <1>w DEF Started
    <2>2. CASE CancelBackstop(h) /\ hook[h].key = k
      <3>1. Dead(k)
        BY <1>t, <2>2 DEF CancelBackstop, HookAware
      <3> QED
        BY <1>t, <1>w, <2>1, <3>1, DeadStays DEF FlowOK, Started
    <2>3. CASE ~(CancelBackstop(h) /\ hook[h].key = k)
      <3>1. Carried(k) => Carried(k)' \/ Dead(k)' \/ Visible(k)'
        BY <1>c, <1>q, <1>u, <2>3 DEF Carried, Dead
      <3> QED
        BY <1>t, <1>w, <2>1, <3>1, FlowStays DEF RecoveryInv
    <2> QED
      BY <2>2, <2>3
  <1> QED
    BY <1>1, <1>2, <1>3, <1>q, <1>u, <1>w DEF RecoveryInv

-----------------------------------------------------------------------------
(* The operator, the engine and the retention sweep.                       *)

\* A replay is in the operator's hand until its event is in the stream.
LEMMA ReplayRecovers ==
    ASSUME IInv, RecoveryInv, NEW k \in Keys, Replay(k) \/ PublishReplay(k) \/ LateCommit(k)
    PROVE  RecoveryInv'
  <1>t. TypeOK /\ JournalTypeOK(Instructions) /\ QueueTypeOK
    BY DEF IInv, TypeOK, ReconcilerTypeOK
  <1>u. /\ UNCHANGED <<psp, declines, issued, con, dlq, req, hook>>
        /\ credited \subseteq credited'
    BY DEF Replay, PublishReplay, LateCommit, EngineCommits, pspVars, engineVars, queueVars,
           reconcilerVars, Publish, AddEntry
  <1>w. /\ Keeps /\ SpendsNothing
        /\ \A j \in Keys : /\ ~HasStatus(j, {"COMPENSATED"})'
                           /\ Visible(j) => Visible(j)' \/ j \in replaying'
                           /\ Journaled(j)' => Journaled(j) /\ IntentOf(j)' = IntentOf(j)
    <2>1. CASE Replay(k)
      <3>1. Resurrect(k) /\ replaying' = replaying \cup {k}
        BY <2>1 DEF Replay
      <3>2. Writes(k, {"PENDING", "ABANDONED"})
        BY <1>t, <3>1, ReplayWrites, RowAssumption
      <3>3. SpendsNothing
        BY <1>t, <3>1, WritesSpendNothing, RowAssumption
      <3>4. Keeps /\ \A j \in Keys : ~HasStatus(j, {"COMPENSATED"})'
        BY <1>u, <3>2, WritesKeep DEF RecoveryInv
      <3>5. Journaled(k)
        BY <3>1 DEF Resurrect, HasStatus
      <3> QED
        BY <1>u, <3>1, <3>2, <3>3, <3>4, <3>5 DEF Writes, RowsStay, Visible, HasStatus, Journaled, IntentOf
    <2>2. CASE ~Replay(k)
      <3>1. row' = row
        BY <2>2 DEF PublishReplay, LateCommit, reconcilerVars
      <3> QED
        BY <1>u, <3>1 DEF Keeps, SpendsNothing, Spent, RecoveryInv, HasStatus, Journaled, Visible,
                          IntentOf
    <2> QED
      BY <2>1, <2>2
  <1>q. /\ MessagesOK' /\ CoverStays
        /\ \A j \in Keys : j \in replaying => j \in replaying' \/ Covered(j)'
    <2>1. CASE PublishReplay(k)
      <3>1. Publish(k, HeldMessages) /\ replaying' = replaying \ {k}
        BY <2>1 DEF PublishReplay
      <3> QED
        BY <1>t, <1>u, <3>1, PublishCovers DEF RecoveryInv
    <2>2. CASE ~PublishReplay(k)
      <3>1. UNCHANGED queueVars /\ replaying \subseteq replaying'
        BY <2>2 DEF Replay, LateCommit, reconcilerVars, queueVars
      <3> QED
        BY <1>u, <3>1, CoverUnchanged DEF RecoveryInv
    <2> QED
      BY <2>1, <2>2
  <1>1. \A h \in Hooks : HookAware(h)'
    BY <1>u, <1>w, AwareStays DEF RecoveryInv
  <1>2. \A j \in Keys : BudgetOK(j)'
    BY <1>u, <1>w, BudgetStays DEF RecoveryInv, SpendsNothing, LastTry
  <1>3. ASSUME NEW j \in Keys PROVE FlowOK(j)'
    <2>1. Started(j)' => Started(j)
      BY <1>u, <1>w DEF Started
    <2>2. Carried(j) => Carried(j)'
      BY <1>q, <1>u DEF CoverStays, Carried, HookCarries
    <2>3. Visible(j) => Visible(j)' \/ Carried(j)'
      BY <1>w DEF Carried
    <2> QED
      BY <1>t, <1>w, <2>1, <2>2, <2>3, FlowStays DEF RecoveryInv
  <1> QED
    BY <1>1, <1>2, <1>3, <1>q, <1>u, <1>w DEF RecoveryInv

\* A swept row was settled, and nobody was at work on it.
LEMMA SweepRecovers ==
    ASSUME IInv, RecoveryInv, NEW k \in Keys, Sweep(k)
    PROVE  RecoveryInv'
  <1>t. TypeOK /\ JournalTypeOK(Instructions)
    BY DEF IInv, TypeOK, ReconcilerTypeOK
  <1>u. UNCHANGED <<psp, declines, issued, credited, con, schedule, entries, dlq, req, hook, replaying>>
    BY DEF Sweep, depositVars, queueVars
  <1>w. /\ row' = [row EXCEPT ![k] = None] /\ k \in credited
        /\ SpendsNothing
    <2>1. DeleteSettled(k)
      BY DEF Sweep
    <2> QED
      BY <1>t, <2>1, WritesSpendNothing, RowAssumption DEF DeleteSettled, IInv, RowOK
  <1>1. Keeps
    BY <1>t, <1>u, <1>w DEF Keeps, Journaled, JournalTypeOK
  <1>2. MessagesOK' /\ CoverStays
    BY <1>u, CoverUnchanged DEF RecoveryInv, queueVars
  <1>3. \A h \in Hooks : HookAware(h)'
    BY <1>1, <1>u, AwareStays DEF RecoveryInv
  <1>4. ASSUME NEW j \in Keys
        PROVE  ~HasStatus(j, {"COMPENSATED"})' /\ BudgetOK(j)' /\ FlowOK(j)'
    <2>1. ~HasStatus(j, {"COMPENSATED"})'
      BY <1>t, <1>w DEF RecoveryInv, HasStatus, Journaled, JournalTypeOK
    <2>2. BudgetOK(j)'
      BY <1>u, <1>w, BudgetStays DEF RecoveryInv, SpendsNothing, LastTry
    <2>3. CASE j = k
      <3>1. ~Journaled(j)'
        BY <1>t, <1>w, <2>3 DEF Journaled, JournalTypeOK
      <3> QED
        BY <2>1, <2>2, <3>1 DEF FlowOK, Started
    <2>4. CASE j # k
      <3>1. row'[j] = row[j]
        BY <1>t, <1>w, <2>4 DEF JournalTypeOK
      <3>2. (Started(j)' => Started(j)) /\ (Visible(j) => Visible(j)')
        BY <1>u, <3>1 DEF Started, Visible, HasStatus, Journaled, IntentOf
      <3>3. Carried(j) => Carried(j)'
        BY <1>u, <1>2, CarriedStays DEF CoverStays
      <3> QED
        BY <1>t, <1>1, <2>1, <2>2, <3>2, <3>3, FlowStays DEF RecoveryInv
    <2> QED
      BY <2>1, <2>2, <2>3, <2>4
  <1> QED
    BY <1>2, <1>3, <1>4, <1>u DEF RecoveryInv

\* The steps that belong to a key.
LEMMA KeyRecovers ==
    ASSUME IInv, RecoveryInv, Faults = {}, NEW k \in Keys, KeyStep(k)
    PROVE  RecoveryInv'
  BY ReplayRecovers, SweepRecovers DEF KeyStep, UndoReplay, CrashReplay

-----------------------------------------------------------------------------
(* The consumers.                                                          *)

\* A consumer that skips a row leaves it to whoever holds it, or to whoever
\* makes its last attempt, or has nothing to do for it.
LEMMA SkipIsSafe ==
    ASSUME IInv, RecoveryInv, NEW c \in Consumers, NEW k \in Keys, Journaled(k),
           LetsGo(c, k, HookLocks(con[c].key))
    PROVE  \/ Dead(k) \/ Visible(k) \/ HookCarries(k)
           \/ \E d \in Consumers : d # c /\ Handles(d, k)
  <1>t. ConsumerOK(c) /\ RowOK(k) /\ JournalTypeOK(Instructions)
    BY DEF IInv, TypeOK, ReconcilerTypeOK
  <1>1. CASE At(c, "succeed")
    BY <1>t, <1>1 DEF LetsGo, At, ConsumerOK, Dead
  <1>2. ASSUME NEW h \in Hooks, hook[h].key = k, hook[h].pc \in {"succeed", "fail", "abandon"}
        PROVE  Dead(k) \/ HookCarries(k)
    BY <1>2 DEF RecoveryInv, HookAware, HookCarries
  <1>3. CASE At(c, "claim") /\ ~Claimable(k)
    <2>1. \/ HasStatus(k, {"SUCCEEDED"}) \/ HasStatus(k, {"COMPENSATED"}) \/ HasStatus(k, {"ABANDONED"})
          \/ Spent(k)
      BY <1>t, <1>3, AttemptsAssumption
         DEF Claimable, HasStatus, Spent, JournalTypeOK, RowOf, Statuses, OpenStatuses, FinalStatuses,
             Journaled
    <2>2. ASSUME NEW d \in Consumers, LastTry(d, k)
          PROVE  d # c /\ Handles(d, k)
      BY <1>3, <2>2 DEF LastTry, Handles, HasInHand, At, Working, Reversing
    <2> QED
      BY <1>t, <2>1, <2>2 DEF RecoveryInv, BudgetOK, RowOK, Dead, Visible
  <1> QED
    BY <1>1, <1>2, <1>3 DEF LetsGo, HookLocks

\* The listener drops no deposit.
LEMMA ListenerRecovers ==
    ASSUME IInv, RecoveryInv, Faults = {}, NEW c \in Consumers,
           ListenerStep(c, HookLocks(con[c].key)), UNCHANGED depositVars
    PROVE  RecoveryInv'
  <1>t. TypeOK /\ ReconcilerTypeOK(Instructions) /\ JournalTypeOK(Instructions) /\ ConsumerOK(c)
    BY DEF IInv, TypeOK, ReconcilerTypeOK
  <1>u. UNCHANGED <<psp, declines, issued, credited, req, hook, replaying>>
    BY DEF depositVars
  <1>h. HandsOK(c) /\ MessagesOK
    BY DEF RecoveryInv, MessagesOK, MessageOK
  <1>q. /\ MessagesOK'
        /\ \A k \in Keys : Covered(k) => \/ Covered(k)' \/ k \in dlq'
                                         \/ LetsGo(c, k, HookLocks(con[c].key))
    BY <1>t, <1>h, ListenerCovers
  <1>s. /\ SpendsNothing
        /\ dlq \subseteq dlq'
        /\ \A d \in Consumers, k \in Keys :
              LastTry(d, k) => LastTry(d, k)' \/ k \in dlq' \/ (d = c /\ At(c, "succeed"))
    BY <1>t, <1>h, ListenerTries, RowAssumption
  <1>l. Listens(c)
    BY <1>t, <1>h, ListenerShape, RowAssumption
  <1>w. /\ Keeps
        /\ At(c, "claim") => row' = row
        /\ \A k \in Keys : /\ ~HasStatus(k, {"COMPENSATED"})'
                           /\ Visible(k) => Visible(k)' \/ Covered(k)'
                           /\ Journaled(k)' => Journaled(k) /\ IntentOf(k)' = IntentOf(k)
    <2>1. CASE row' = row
      BY <1>u, <1>s, <2>1 DEF Keeps, RecoveryInv, HasStatus, Journaled, Visible, IntentOf
    <2>2. ASSUME NEW status \in Statuses, Disposes(c, status), Writes(con[c].key, {status}), row' # row
          PROVE  /\ Keeps
                 /\ ~At(c, "claim")
                 /\ \A k \in Keys : /\ ~HasStatus(k, {"COMPENSATED"})'
                                    /\ Visible(k) => Visible(k)' \/ Covered(k)'
                                    /\ Journaled(k)' => Journaled(k) /\ IntentOf(k)' = IntentOf(k)
      <3>k. PICK k \in Keys : k = con[c].key /\ Journaled(k)
        BY <1>t, <2>2 DEF Disposes, At, ConsumerOK, Working
      <3>1. Keeps /\ \A j \in Keys : ~HasStatus(j, {"COMPENSATED"})'
        BY <1>u, <2>2, <3>k, WritesKeep DEF RecoveryInv, Disposes
      <3>2. Visible(k) => Visible(k)' \/ Covered(k)'
        <4>1. RecordSuccess(c) \/ RecordFailure(c) \/ RecordAbandon(c)
          BY <2>2 DEF ListenerStep, DrainDue, Republish, Pull, Reclaim, SkipRow, Reschedule,
                      DeadLetter, Acknowledge, Throw, CrashConsumer
        <4>2. CASE RecordSuccess(c)
          BY <1>s, <3>k, <4>2 DEF RecordSuccess, MarkTerminal, Visible, HasStatus, Journaled, FinalStatuses
        <4>3. CASE RecordFailure(c)
          BY <1>t, <3>k, <4>3 DEF RecordFailure, Goto, Covered, Handles, HasInHand, At,
                                  ReconcilerTypeOK, Consumer
        <4>4. CASE RecordAbandon(c)
          <5>1. row' = [row EXCEPT ![k].status = "ABANDONED"] /\ row[k] \in RowOf(Instructions)
            BY <1>t, <3>k, <4>4 DEF RecordAbandon, Overwrite, JournalTypeOK, Journaled
          <5>2. row'[k].status = "ABANDONED"
            BY <1>t, <5>1 DEF JournalTypeOK, RowOf
          <5> QED
            BY <2>2, <3>k, <5>2 DEF Visible, HasStatus, Writes, RowsStay
        <4> QED
          BY <4>1, <4>2, <4>3, <4>4
      <3> QED
        BY <1>s, <2>2, <3>k, <3>1, <3>2
           DEF Writes, RowsStay, Visible, HasStatus, Journaled, IntentOf, Disposes, At
    <2> QED
      BY <1>l, <2>1, <2>2 DEF Listens
  <1>1. \A h \in Hooks : HookAware(h)'
    BY <1>u, <1>w, AwareStays DEF RecoveryInv
  <1>2. \A k \in Keys : BudgetOK(k)'
    <2> SUFFICES ASSUME NEW k \in Keys, NEW d \in Consumers, LastTry(d, k)
                 PROVE  LastTry(d, k)' \/ k \in dlq' \/ k \in credited'
      BY <1>s, <1>u, BudgetStays DEF RecoveryInv, SpendsNothing
    <2> QED
      BY <1>s, <1>t, <1>u DEF LastTry, ConsumerOK, At
  <1>3. ASSUME NEW k \in Keys PROVE FlowOK(k)'
    <2>1. CASE ~Journaled(k)
      BY <1>w, <2>1 DEF FlowOK, Started
    <2>2. CASE Journaled(k)
      <3>1. Started(k)' => Started(k)
        BY <1>u, <1>w DEF Started
      <3>2. ASSUME LetsGo(c, k, HookLocks(con[c].key))
            PROVE  Carried(k)' \/ Dead(k)' \/ Visible(k)'
        <4>1. \A d \in Consumers : d # c /\ Handles(d, k) => Covered(k)'
          BY <1>l DEF Listens, Covered, Handles, HasInHand, At
        <4>2. Dead(k) => Dead(k)'
          BY <1>t, <1>w, <2>2, DeadStays
        <4>3. HookCarries(k) => HookCarries(k)'
          BY <1>u DEF HookCarries
        <4> QED
          BY <1>w, <2>2, <3>2, <4>1, <4>2, <4>3, SkipIsSafe DEF Carried
      <3>3. Carried(k) => Carried(k)' \/ Dead(k)' \/ Visible(k)'
        BY <1>q, <1>u, <3>2 DEF Carried, HookCarries, Visible
      <3> QED
        BY <1>t, <1>w, <3>1, <3>3, FlowStays DEF RecoveryInv, Carried
    <2> QED
      BY <2>1, <2>2
  <1> QED
    BY <1>1, <1>2, <1>3, <1>q, <1>u, <1>w DEF RecoveryInv

\* Neither does the work: the claim that spends the last attempt makes its
\* consumer responsible, and only an earlier attempt is put off.
LEMMA WorkRecovers ==
    ASSUME IInv, RecoveryInv, NEW c \in Consumers, ConsumerWork(c)
    PROVE  RecoveryInv'
  <1>t. TypeOK /\ JournalTypeOK(Instructions) /\ ConsumerOK(c) /\ con \in [Consumers -> Consumer]
    BY DEF IInv, TypeOK, ReconcilerTypeOK
  <1>k. PICK k \in Keys : k = con[c].key
    BY <1>t DEF ConsumerWork, ClaimDeposit, PollPsp, CreditFromConsumer, At, ConsumerOK
  <1>u. /\ UNCHANGED <<queueVars, psp, declines, issued, req, hook, replaying>>
        /\ dlq' = dlq
        /\ credited \subseteq credited'
    BY DEF ConsumerWork, ClaimDeposit, ClaimRow, PollPsp, CreditFromConsumer, EngineCommits,
           EngineTimesOut, EngineRefuses, depositVars, pspVars, engineVars, queueVars
  \* What the consumer goes on with.
  <1>c. /\ \A d \in Consumers : d # c => con'[d] = con[d]
        /\ con[c].pc \in {"claim", "poll", "call"}
        /\ con'[c].pc \in {"poll", "call", "succeed", "fail", "abandon", "retry"}
        /\ con'[c].key = k /\ con'[c].msg = con[c].msg
    BY <1>t, <1>k DEF ConsumerWork, ClaimDeposit, ClaimRow, PollPsp, CreditFromConsumer, Goto, At,
                      AwaitPayment, AfterTimeout, Consumer
  <1>l. LastTry(c, k) => LastTry(c, k)'
    <2>1. CASE ClaimDeposit(c)
      BY <2>1 DEF ClaimDeposit, At, LastTry, Working, Reversing
    <2>2. CASE PollPsp(c) \/ CreditFromConsumer(c)
      <3> SUFFICES ASSUME con[c].tries = MaxAttempts
                   PROVE  con'[c].tries = MaxAttempts /\ con'[c].pc \in Working \ {"fail"}
        BY <1>c, <1>k DEF LastTry
      <3>1. AwaitPayment(c) = "abandon" /\ AfterTimeout(c) = "abandon"
        BY AttemptsAssumption DEF AwaitPayment, AfterTimeout
      <3>2. con'[c].tries = con[c].tries /\ con'[c].pc \in {"call", "succeed", "abandon"}
        BY <1>t, <2>2, <3>1 DEF PollPsp, CreditFromConsumer, Goto, Consumer
      <3> QED
        BY <3>2 DEF Working
    <2> QED
      BY <2>1, <2>2 DEF ConsumerWork
  \* The journal.
  <1>w. /\ Keeps
        /\ \A j \in Keys : /\ ~HasStatus(j, {"COMPENSATED"})'
                           /\ Visible(j) => Visible(j)'
                           /\ Journaled(j)' => Journaled(j) /\ IntentOf(j)' = IntentOf(j)
                           /\ Spent(j)' => Spent(j) \/ LastTry(c, j)'
    <2>1. CASE ClaimDeposit(c)
      <3>1. Claim(k) /\ con'[c].tries = row[k].attempts + 1 /\ con'[c].pc \in {"call", "poll"}
        BY <1>t, <1>k, <2>1 DEF ClaimDeposit, ClaimRow, Consumer
      <3>2. Writes(k, {row[k].status}) /\ Journaled(k)
        BY <1>t, <3>1, ClaimWrites, RowAssumption
      <3>3. \A j \in Keys : Spent(j)' => Spent(j) \/ LastTry(c, j)'
        BY <1>c, <1>t, <3>1, ClaimSpends DEF LastTry, Working
      <3>4. row[k].status # "COMPENSATED"
        BY <3>2 DEF RecoveryInv, HasStatus
      <3>5. Keeps /\ \A j \in Keys : ~HasStatus(j, {"COMPENSATED"})'
        BY <1>u, <3>2, <3>4, WritesKeep DEF RecoveryInv
      <3> QED
        BY <1>u, <3>2, <3>3, <3>5 DEF Writes, RowsStay, Visible, HasStatus, Journaled, IntentOf
    <2>2. CASE PollPsp(c) \/ CreditFromConsumer(c)
      <3>1. row' = row
        BY <2>2 DEF PollPsp, CreditFromConsumer
      <3> QED
        BY <1>u, <3>1 DEF Keeps, Spent, RecoveryInv, HasStatus, Journaled, Visible, IntentOf
    <2> QED
      BY <2>1, <2>2 DEF ConsumerWork
  <1>q. MessagesOK' /\ CoverStays
    BY <1>c, <1>k, <1>u, WorkCovers DEF RecoveryInv, CoverStays
  <1>1. \A h \in Hooks : HookAware(h)'
    BY <1>u, <1>w, AwareStays DEF RecoveryInv
  <1>2. \A j \in Keys : BudgetOK(j)'
    BY <1>c, <1>k, <1>l, <1>u, <1>w DEF RecoveryInv, BudgetOK, LastTry
  <1>3. ASSUME NEW j \in Keys PROVE FlowOK(j)'
    <2>1. Started(j)' => Started(j)
      BY <1>u, <1>w DEF Started
    <2>2. Carried(j) => Carried(j)'
      BY <1>q, <1>u, CarriedStays DEF CoverStays
    <2> QED
      BY <1>t, <1>w, <2>1, <2>2, FlowStays DEF RecoveryInv
  <1> QED
    BY <1>1, <1>2, <1>3, <1>q, <1>u, <1>w DEF RecoveryInv

-----------------------------------------------------------------------------
(* The theorems.                                                           *)

LEMMA InitRecovers == Init => RecoveryInv
  <1> SUFFICES ASSUME Init
               PROVE  RecoveryInv
    OBVIOUS
  <1>1. MessagesOK
    BY DEF Init, ReconcilerInit, Resting, MessagesOK, MessageOK, HandsOK, At
  <1>2. \A h \in Hooks : HookAware(h)
    BY DEF Init, NoHook, HookAware
  <1>3. \A k \in Keys : ~Journaled(k)
    BY DEF Init, ReconcilerInit, JournalInit, Journaled
  <1> QED
    BY <1>1, <1>2, <1>3 DEF RecoveryInv, Init, HasStatus, BudgetOK, Spent, FlowOK, Started

\* Nobody loses sight of a deposit that is paid or may be.
LEMMA StepRecovers == Faults = {} /\ IInv /\ RecoveryInv /\ [Next]_vars => RecoveryInv'
  <1> SUFFICES ASSUME Faults = {}, IInv, RecoveryInv, [Next]_vars
               PROVE  RecoveryInv'
    OBVIOUS
  <1>1. CASE UNCHANGED vars
    BY <1>1 DEF vars, RecoveryInv, MessagesOK, MessageOK, HandsOK, At, HookAware, HasStatus, Journaled,
                BudgetOK, Spent, LastTry, FlowOK, Started, Dead, Visible, Carried, Covered, Waits,
                Handles, HasInHand, HookCarries, IntentOf
  <1>2. ASSUME NEW c \in Consumers, ConsumerStep(c)
        PROVE  RecoveryInv'
    BY <1>2, ListenerRecovers, WorkRecovers DEF ConsumerStep
  <1> QED
    BY <1>1, <1>2, PurchaseRecovers, PspRecovers, HookRecovers, KeyRecovers DEF Next

\* While nothing fails but webhooks, answers and timing, every deposit whose
\* secret is out is settled, declined, in front of an operator or carried on.
THEOREM Recovery == ASSUME Faults = {} PROVE Spec => []RecoveryInv
  <1>1. IInv /\ RecoveryInv /\ [Next]_vars => RecoveryInv'
    BY StepRecovers
  <1> QED
    BY <1>1, InitRecovers, Invariance, PTL DEF Spec

\* Zero transaction loss (handlePspWebhookEvent and reconcileDeposit): a
\* journaled deposit whose own intent is captured and that is not credited is
\* on its way or visible, however often webhooks are lost, engine calls time
\* out and consumers overtake each other, for any number of them and any retry
\* budget.  The capture of an intent no row names is outside it.
THEOREM NoDepositDropped == ASSUME Faults = {} PROVE Spec => []NoSilentDrop
  <1>1. IInv /\ RecoveryInv => NoSilentDrop
    <2> SUFFICES ASSUME IInv, RecoveryInv, NEW k \in Keys, Paid(k), k \notin credited
                 PROVE  OnItsWay(k) \/ Visible(k)
      BY DEF NoSilentDrop
    <2>1. Journaled(k) /\ IntentOf(k) \in PaymentIntents /\ Captured(IntentOf(k))
      BY IntentOfType DEF IInv, Paid
    <2>2. Started(k) /\ ~Dead(k)
      BY <2>1 DEF IInv, IntentOK, Started, Dead, Captured
    <2>3. CASE Covered(k)
      BY <2>3 DEF Covered, Waits, Handles, OnItsWay, InStream
    <2>4. CASE k \in replaying \/ HookCarries(k)
      BY <2>4 DEF HookCarries, OnItsWay
    <2> QED
      BY <2>2, <2>3, <2>4 DEF RecoveryInv, FlowOK, Carried
  <1> QED
    BY <1>1, Invariance, Recovery, PTL

=============================================================================
