--------------------------- MODULE DepositProofs ---------------------------
(***************************************************************************)
(* Safety of the deposit saga for every set of keys, players, prices,      *)
(* requests, webhook deliveries and consumers, every attempt and delivery  *)
(* budget and every combination of faults.                                 *)
(*                                                                         *)
(* The invariants of the journal are not inductive: they speak of rows,    *)
(* while what keeps a row honest is what its next writer knows.  IInv adds *)
(* that knowledge: a process about to credit, to record a success or to    *)
(* record a failed credit works on a paid deposit, one about to record a   *)
(* success on a credited one, and a credit in flight was sent for a paid   *)
(* one.  All of it survives every step of every other process because a    *)
(* capture and a credit are never undone and a row keeps its instruction   *)
(* until the retention sweep, which waits until no process works on it.    *)
(***************************************************************************)
EXTENDS Deposit, ReconcilerProofs

\* What consumer c, webhook delivery h and request r know.
ConsumerOK(c) ==
    /\ con[c].pc # "idle" => con[c].key \in Keys /\ con[c].msg \in Messages
    /\ con[c].pc \in Working => Journaled(con[c].key)
    /\ con[c].pc \in {"call", "succeed", "fail"} => Paid(con[c].key)
    /\ con[c].pc = "succeed" => con[c].key \in credited

HookOK(h) ==
    /\ hook[h].pc # "idle" => hook[h].key \in Keys /\ Journaled(hook[h].key)
    /\ hook[h].pc \in {"call", "succeed", "fail"} => Paid(hook[h].key)
    /\ hook[h].pc = "succeed" => hook[h].key \in credited

RequestOK(r) ==
    /\ req[r].pc # "idle" => /\ req[r].who \in Players
                             /\ req[r].key \in Keys
                             /\ req[r].price \in Prices
    /\ req[r].pc \in {"backstop", "reply"} => Journaled(req[r].key)

\* A journaled key, or one whose row was swept after its credit.
Kept(k) == Journaled(k) \/ k \in credited

RowOK(k) ==
    /\ HasStatus(k, {"FAILED"}) => Paid(k)
    /\ HasStatus(k, {"SUCCEEDED"}) => k \in credited
    /\ k \in inflight => Paid(k)

IntentOK(i) ==
    /\ Captured(i) => i \in issued
    /\ i \in issued => Kept(i[2])

IInv ==
    /\ TypeOK
    /\ \A c \in Consumers : ConsumerOK(c)
    /\ \A h \in Hooks : HookOK(h)
    /\ \A r \in Requests : RequestOK(r)
    /\ \A k \in Keys : RowOK(k)
    /\ \A i \in PaymentIntents : IntentOK(i)

-----------------------------------------------------------------------------
(* What no step but the sweep takes back.                                  *)

CapturesStay == \A i \in PaymentIntents : Captured(i) => Captured(i)'

Grows == RowsStay /\ CapturesStay /\ credited \subseteq credited'

\* The intent a row names is one of the PSP's intents.
LEMMA IntentOfType ==
    ASSUME TypeOK, NEW k \in Keys, Journaled(k)
    PROVE  IntentOf(k) \in PaymentIntents
  BY DEF TypeOK, ReconcilerTypeOK, JournalTypeOK, RowOf, Instructions, IntentOf,
         PaymentIntents, Journaled

\* A paid deposit stays paid while its row stays.
LEMMA PaidStays ==
    ASSUME TypeOK, RowsStay, CapturesStay, NEW k \in Keys, Paid(k)
    PROVE  Paid(k)'
  <1>1. Journaled(k) /\ Captured(IntentOf(k))
    BY DEF Paid
  <1>2. Journaled(k)' /\ IntentOf(k)' = IntentOf(k)
    BY <1>1 DEF RowsStay, IntentOf
  <1>3. Captured(IntentOf(k))'
    BY <1>1, <1>2, IntentOfType DEF CapturesStay, Captured
  <1> QED
    BY <1>2, <1>3 DEF Paid

\* What a process knows survives the steps of the others.
LEMMA ConsumerStays ==
    ASSUME TypeOK, Grows, NEW c \in Consumers, ConsumerOK(c), con'[c] = con[c]
    PROVE  ConsumerOK(c)'
  BY PaidStays DEF Grows, RowsStay, ConsumerOK, Working, Reversing

\* The same for a webhook delivery ...
LEMMA HookStays ==
    ASSUME TypeOK, Grows, NEW h \in Hooks, HookOK(h), hook'[h] = hook[h]
    PROVE  HookOK(h)'
  BY PaidStays DEF Grows, RowsStay, HookOK

\* ... for a purchase request ...
LEMMA RequestStays ==
    ASSUME TypeOK, Grows, NEW r \in Requests, RequestOK(r), req'[r] = req[r]
    PROVE  RequestOK(r)'
  BY DEF Grows, RowsStay, RequestOK

\* ... for a row no step writes to ...
LEMMA RowStays ==
    ASSUME TypeOK, Grows, NEW k \in Keys, RowOK(k), row'[k] = row[k],
           k \in inflight' => k \in inflight
    PROVE  RowOK(k)'
  BY PaidStays DEF Grows, RowsStay, RowOK, HasStatus, Journaled

\* ... and for a payment intent.
LEMMA IntentStays ==
    ASSUME TypeOK, Grows, NEW i \in PaymentIntents, IntentOK(i), psp'[i] = psp[i],
           i \in issued' <=> i \in issued
    PROVE  IntentOK(i)'
  BY DEF Grows, RowsStay, IntentOK, Kept, Captured, PaymentIntents

\* The invariant of the next state, from the parts a step does not touch.
LEMMA Rebuild ==
    ASSUME IInv, Grows, TypeOK',
           \A c \in Consumers : con'[c] = con[c] \/ ConsumerOK(c)',
           \A h \in Hooks : hook'[h] = hook[h] \/ HookOK(h)',
           \A r \in Requests : req'[r] = req[r] \/ RequestOK(r)',
           \A k \in Keys : \/ row'[k] = row[k] /\ (k \in inflight' => k \in inflight)
                           \/ RowOK(k)',
           \A i \in PaymentIntents : \/ psp'[i] = psp[i] /\ (i \in issued' <=> i \in issued)
                                     \/ IntentOK(i)'
    PROVE  IInv'
  <1>1. \A c \in Consumers : ConsumerOK(c)'
    BY ConsumerStays DEF IInv
  <1>2. \A h \in Hooks : HookOK(h)'
    BY HookStays DEF IInv
  <1>3. \A r \in Requests : RequestOK(r)'
    BY RequestStays DEF IInv
  <1>4. \A k \in Keys : RowOK(k)'
    BY RowStays DEF IInv
  <1>5. \A i \in PaymentIntents : IntentOK(i)'
    BY IntentStays DEF IInv
  <1> QED
    BY <1>1, <1>2, <1>3, <1>4, <1>5 DEF IInv, PaymentIntents

-----------------------------------------------------------------------------
(* Types.                                                                  *)

\* A webhook delivery that moves on or rests keeps its type.
LEMMA HookMoves ==
    ASSUME hook \in [Hooks -> Hook], NEW h \in Hooks,
           \/ \E pc \in HookStates : HookGoto(h, pc)
           \/ HookRest(h)
    PROVE  hook' \in [Hooks -> Hook]
  BY DEF HookGoto, HookRest, NoHook, Hook, HookStates

\* So does a purchase request.
LEMMA RequestMoves ==
    ASSUME req \in [Requests -> Request], NEW r \in Requests,
           \/ \E pc \in RequestStates : RequestGoto(r, pc)
           \/ req' = [req EXCEPT ![r] = NoRequest]
    PROVE  req' \in [Requests -> Request]
  BY DEF RequestGoto, NoRequest, Request, RequestStates

\* A statement against one row leaves every row honest, if what it writes is.
LEMMA RowWritten ==
    ASSUME IInv, Grows, NEW k \in Keys, NEW statuses, Writes(k, statuses),
           inflight' \subseteq inflight,
           "FAILED" \in statuses => Paid(k),
           "SUCCEEDED" \in statuses => k \in credited'
    PROVE  \A j \in Keys : RowOK(j)'
  <1> SUFFICES ASSUME NEW j \in Keys
               PROVE  RowOK(j)'
    OBVIOUS
  <1>1. TypeOK /\ RowOK(j)
    BY DEF IInv
  <1>2. CASE row'[j] = row[j]
    BY <1>1, <1>2, RowStays
  <1>3. CASE row'[j] # row[j]
    <2>1. j = k /\ row'[k].status \in statuses
      BY <1>3 DEF Writes
    <2>2. Paid(k) => Paid(k)'
      BY <1>1, PaidStays DEF Grows
    <2> QED
      BY <1>1, <2>1, <2>2 DEF RowOK, HasStatus
  <1> QED
    BY <1>2, <1>3

-----------------------------------------------------------------------------
(* Every step of a purchase request preserves the invariant.               *)

\* A purchase request journals before it returns a secret.
LEMMA PurchaseSafe ==
    ASSUME IInv, NEW r \in Requests, PurchaseStep(r)
    PROVE  IInv'
  <1> USE DEF pspVars, engineVars, reconcilerVars, queueVars
  <1> DEFINE Others == \A s \in Requests : s # r => req'[s] = req[s]
  <1>t. TypeOK /\ RequestOK(r) /\ req \in [Requests -> Request]
    BY DEF IInv, TypeOK
  <1>1. ASSUME NEW p \in Players, NEW k \in Keys, NEW x \in Prices, StartPurchase(r, p, k, x)
        PROVE  IInv'
    <2>1. TypeOK'
      BY <1>1, <1>t DEF StartPurchase, TypeOK, Request, RequestStates, ReconcilerTypeOK,
                        JournalTypeOK, QueueTypeOK
    <2>2. Grows
      BY <1>1 DEF StartPurchase, Grows, RowsStay, CapturesStay, Journaled, Captured
    <2>3. RequestOK(r)' /\ Others
      BY <1>1, <1>t DEF StartPurchase, RequestOK
    <2> QED
      BY <1>1, <2>1, <2>2, <2>3, Rebuild DEF StartPurchase
  <1>2. CASE OpenIntent(r)
    <2> DEFINE i == <<req[r].who, req[r].key>>
    <2>1. i \in PaymentIntents /\ req[r].price \in Prices
      BY <1>2, <1>t DEF OpenIntent, RequestOK, PaymentIntents
    <2>2. req' \in [Requests -> Request]
      BY <1>2, <1>t, RequestMoves DEF OpenIntent, RequestStates
    <2>3. TypeOK'
      BY <1>2, <1>t, <2>1, <2>2 DEF OpenIntent, TypeOK, ReconcilerTypeOK, JournalTypeOK, QueueTypeOK
    <2>4. Grows
      BY <1>2, <1>t, <2>1 DEF OpenIntent, Grows, RowsStay, CapturesStay, Journaled, Captured, TypeOK
    <2>5. RequestOK(r)' /\ Others
      BY <1>2, <1>t DEF OpenIntent, RequestGoto, Request, RequestOK
    <2>6. \A j \in PaymentIntents : psp'[j] = psp[j] \/ IntentOK(j)'
      <3> SUFFICES ASSUME NEW j \in PaymentIntents, psp'[j] # psp[j]
                   PROVE  IntentOK(j)'
        OBVIOUS
      <3>1. ~Captured(j)' /\ IntentOK(j) /\ issued' = issued /\ j[2] \in Keys
        BY <1>2, <1>t, <2>1 DEF OpenIntent, TypeOK, Captured, IInv, PaymentIntents
      <3> QED
        BY <3>1, <2>4 DEF IntentOK, Kept, Grows, RowsStay
    <2> QED
      BY <1>2, <2>3, <2>4, <2>5, <2>6, Rebuild DEF OpenIntent
  <1>3. CASE RequestFails(r) \/ CrashRequest(r)
    <2>1. req' \in [Requests -> Request]
      BY <1>3, <1>t, RequestMoves DEF RequestFails, CrashRequest
    <2>2. TypeOK'
      BY <1>3, <1>t, <2>1 DEF RequestFails, CrashRequest, TypeOK, ReconcilerTypeOK,
                              JournalTypeOK, QueueTypeOK
    <2>3. Grows
      BY <1>3 DEF RequestFails, CrashRequest, Grows, RowsStay, CapturesStay, Journaled, Captured
    <2>4. RequestOK(r)' /\ Others
      BY <1>3, <1>t DEF RequestFails, CrashRequest, NoRequest, Request, RequestOK
    <2> QED
      BY <1>3, <2>2, <2>3, <2>4, Rebuild DEF RequestFails, CrashRequest
  <1>4. CASE JournalPurchase(r)
    <2>k. PICK k \in Keys : k = req[r].key
      BY <1>4, <1>t DEF JournalPurchase, RequestOK
    <2>b. PICK body \in Instructions : body = [owner |-> req[r].who, price |-> req[r].price]
      BY <1>4, <1>t DEF JournalPurchase, RequestOK, Instructions
    <2>2. req' \in [Requests -> Request]
      BY <1>4, <1>t, RequestMoves DEF JournalPurchase, RequestStates
    <2>c. CreateIntentIfAbsent(k, body) /\ JournalTypeOK(Instructions)
      BY <1>4, <1>t, <2>k, <2>b DEF JournalPurchase, TypeOK, ReconcilerTypeOK
    <2>3. JournalTypeOK(Instructions)'
      BY <2>c, JournalWrites
    <2>4. TypeOK'
      BY <1>4, <1>t, <2>2, <2>3 DEF JournalPurchase, TypeOK, ReconcilerTypeOK, QueueTypeOK
    <2>w. Writes(k, {"PENDING"}) /\ Journaled(k)'
      BY <2>c, CreateWrites, RowAssumption
    <2>5. Grows
      BY <1>4, <2>w DEF JournalPurchase, Writes, Grows, CapturesStay, Captured
    <2>6. RequestOK(r)' /\ Others
      BY <1>4, <1>t, <2>k, <2>w DEF JournalPurchase, RequestGoto, Request, RequestOK
    <2>7. \A j \in Keys : RowOK(j)'
      BY <1>4, <2>w, <2>5, RowWritten DEF JournalPurchase
    <2> QED
      BY <1>4, <2>4, <2>5, <2>6, <2>7, Rebuild DEF JournalPurchase
  <1>5. CASE ScheduleBackstop(r)
    <2>1. req[r].key \in Keys
      BY <1>5, <1>t DEF ScheduleBackstop, RequestOK
    <2>2. req' \in [Requests -> Request]
      BY <1>5, <1>t, RequestMoves DEF ScheduleBackstop, RequestStates
    <2>3. QueueTypeOK'
      BY <1>5, <1>t, <2>1 DEF ScheduleBackstop, BestEffort, Schedule, QueueTypeOK, TypeOK,
                              ReconcilerTypeOK
    <2>4. TypeOK'
      BY <1>5, <1>t, <2>2, <2>3 DEF ScheduleBackstop, TypeOK, ReconcilerTypeOK, JournalTypeOK
    <2>5. Grows
      BY <1>5 DEF ScheduleBackstop, Grows, RowsStay, CapturesStay, Journaled, Captured
    <2>6. RequestOK(r)' /\ Others
      BY <1>5, <1>t DEF ScheduleBackstop, RequestGoto, Request, RequestOK, Journaled
    <2> QED
      BY <1>5, <2>4, <2>5, <2>6, Rebuild DEF ScheduleBackstop
  <1>6. CASE ReturnSecret(r)
    <2> DEFINE i == <<req[r].who, req[r].key>>
    <2>1. i \in PaymentIntents /\ Journaled(i[2])
      BY <1>6, <1>t DEF ReturnSecret, RequestOK, PaymentIntents
    <2>2. req' \in [Requests -> Request]
      BY <1>6, <1>t, RequestMoves DEF ReturnSecret
    <2>3. TypeOK'
      BY <1>6, <1>t, <2>1, <2>2 DEF ReturnSecret, TypeOK, ReconcilerTypeOK, JournalTypeOK, QueueTypeOK
    <2>4. Grows
      BY <1>6 DEF ReturnSecret, Grows, RowsStay, CapturesStay, Journaled, Captured
    <2>5. RequestOK(r)' /\ Others
      BY <1>6, <1>t DEF ReturnSecret, NoRequest, Request, RequestOK
    <2>6. \A j \in PaymentIntents : IntentOK(j)'
      <3> SUFFICES ASSUME NEW j \in PaymentIntents
                   PROVE  IntentOK(j)'
        OBVIOUS
      <3>1. IntentOK(j) /\ issued' = issued \cup {i} /\ row' = row /\ psp' = psp /\ credited' = credited
        BY <1>6 DEF ReturnSecret, IInv
      <3> QED
        BY <2>1, <3>1 DEF IntentOK, Kept, Journaled, Captured
    <2> QED
      BY <1>6, <2>3, <2>4, <2>5, <2>6, Rebuild DEF ReturnSecret
  <1> QED
    BY <1>1, <1>2, <1>3, <1>4, <1>5, <1>6 DEF PurchaseStep

-----------------------------------------------------------------------------
(* The customer at the PSP, and the late answers of the engine.            *)

\* A capture needs a secret, hence a row.
LEMMA PspSafe ==
    ASSUME IInv, NEW i \in PaymentIntents, PspStep(i)
    PROVE  IInv'
  <1> USE DEF pspVars, engineVars, reconcilerVars, queueVars
  <1>1. TypeOK /\ IntentOK(i)
    BY DEF IInv
  <1>2. TypeOK'
    BY <1>1 DEF PspStep, Confirm, Decline, TypeOK, ReconcilerTypeOK, JournalTypeOK, QueueTypeOK
  <1>3. Grows
    BY <1>1 DEF PspStep, Confirm, Decline, Grows, RowsStay, CapturesStay, Journaled, Captured, TypeOK
  <1>4. \A j \in PaymentIntents : psp'[j] = psp[j] \/ IntentOK(j)'
    BY <1>1 DEF PspStep, Confirm, Decline, TypeOK, IntentOK, Kept, Journaled, Captured
  <1> QED
    BY <1>2, <1>3, <1>4, Rebuild DEF PspStep, Confirm, Decline

\* Whatever the engine answers for a paid key, its books stay within the keys,
\* no credit is taken back, and a request that may commit yet is for a paid key.
LEMMA EngineAnswers ==
    ASSUME IInv, NEW k \in Keys, Paid(k), row' = row, psp' = psp,
           EngineCommits(k) \/ EngineTimesOut(k) \/ EngineRefuses(k)
    PROVE  /\ Grows
           /\ credited' \in SUBSET Keys /\ inflight' \in SUBSET Keys
           /\ \A j \in Keys : RowOK(j)'
  <1>1. /\ credited' \in SUBSET Keys /\ inflight' \in SUBSET Keys
        /\ credited \subseteq credited' /\ inflight' \subseteq inflight \cup {k}
    BY DEF IInv, TypeOK, EngineCommits, EngineTimesOut, EngineRefuses, engineVars
  <1>2. Grows
    BY <1>1 DEF Grows, RowsStay, CapturesStay, Journaled, Captured
  <1>3. \A j \in Keys : RowOK(j)'
    BY <1>1, <1>2, PaidStays DEF Grows, IInv, RowOK, HasStatus, Journaled
  <1> QED
    BY <1>1, <1>2, <1>3

\* A credit that commits late was sent for a paid deposit.
LEMMA LateCommitSafe ==
    ASSUME IInv, NEW k \in Keys, LateCommit(k)
    PROVE  IInv'
  <1> USE DEF pspVars, reconcilerVars
  <1>1. Paid(k)
    BY DEF LateCommit, IInv, RowOK
  <1>2. Grows /\ credited' \in SUBSET Keys /\ inflight' \in SUBSET Keys /\ \A j \in Keys : RowOK(j)'
    BY <1>1, EngineAnswers DEF LateCommit
  <1>3. TypeOK'
    BY <1>2 DEF LateCommit, IInv, TypeOK, ReconcilerTypeOK, JournalTypeOK, QueueTypeOK
  <1> QED
    BY <1>2, <1>3, Rebuild DEF LateCommit

-----------------------------------------------------------------------------
(* Every step of a webhook delivery preserves the invariant.               *)

\* A webhook credits the deposit its own intent paid for.
LEMMA HookSafe ==
    ASSUME IInv, NEW h \in Hooks, HookStep(h)
    PROVE  IInv'
  <1> USE DEF pspVars, engineVars, reconcilerVars, queueVars
  <1> DEFINE Others == \A g \in Hooks : g # h => hook'[g] = hook[g]
  <1>t. TypeOK /\ HookOK(h) /\ hook \in [Hooks -> Hook]
    BY DEF IInv, TypeOK
  <1>j. JournalTypeOK(Instructions)
    BY <1>t DEF TypeOK, ReconcilerTypeOK
  <1>1. ASSUME NEW i \in PaymentIntents, ReceiveSuccess(h, i) \/ ReceiveFailure(h, i)
        PROVE  IInv'
    <2>1. i[2] \in Keys
      BY DEF PaymentIntents
    <2>2. TypeOK'
      BY <1>1, <1>t, <2>1 DEF ReceiveSuccess, ReceiveFailure, TypeOK, Hook, HookStates,
                              ReconcilerTypeOK, JournalTypeOK, QueueTypeOK
    <2>3. Grows
      BY <1>1 DEF ReceiveSuccess, ReceiveFailure, Grows, RowsStay, CapturesStay, Journaled, Captured
    <2>4. HookOK(h)'
      <3>1. /\ hook'[h].pc \in {"cancel", "call", "abandon"}
            /\ hook'[h].key = i[2]
            /\ Journaled(i[2])
            /\ hook'[h].pc = "call" => Paid(i[2])
        BY <1>1, <1>t DEF ReceiveSuccess, ReceiveFailure, EventSettles, Paid, HasStatus
      <3>2. Journaled(i[2])' /\ (Paid(i[2]) => Paid(i[2])')
        BY <1>t, <2>1, <2>3, <3>1, PaidStays DEF Grows, RowsStay
      <3> QED
        BY <2>1, <3>1, <3>2 DEF HookOK
    <2>5. Others
      BY <1>1, <1>t DEF ReceiveSuccess, ReceiveFailure
    <2> QED
      BY <1>1, <2>2, <2>3, <2>4, <2>5, Rebuild DEF ReceiveSuccess, ReceiveFailure
  <1>2. CASE CreditFromHook(h)
    <2>k. PICK k \in Keys : k = hook[h].key /\ Paid(k)
      BY <1>2, <1>t DEF CreditFromHook, HookOK
    <2>1. Grows /\ credited' \in SUBSET Keys /\ inflight' \in SUBSET Keys /\ \A j \in Keys : RowOK(j)'
      BY <1>2, <2>k, EngineAnswers DEF CreditFromHook
    <2>2. hook' \in [Hooks -> Hook] /\ Others
      BY <1>2, <1>t DEF CreditFromHook, HookGoto, Hook, HookStates
    <2>3. TypeOK'
      BY <1>2, <1>t, <2>1, <2>2 DEF CreditFromHook, TypeOK, ReconcilerTypeOK, JournalTypeOK, QueueTypeOK
    <2>4. HookOK(h)'
      <3>1. /\ hook'[h].key = k
            /\ \/ hook'[h].pc = "succeed" /\ k \in credited'
               \/ hook'[h].pc = "fail"
        BY <1>2, <1>t, <2>k DEF CreditFromHook, HookGoto, Hook, EngineCommits
      <3>2. Paid(k)' /\ Journaled(k)'
        BY <1>t, <2>k, <2>1, PaidStays DEF Grows, Paid
      <3> QED
        BY <3>1, <3>2 DEF HookOK
    <2> QED
      BY <1>2, <2>1, <2>2, <2>3, <2>4, Rebuild DEF CreditFromHook
  <1>3. CASE RecordHookSuccess(h) \/ RecordHookFailure(h) \/ RecordHookAbandon(h)
    <2>k. PICK k \in Keys : k = hook[h].key /\ Journaled(k)
      BY <1>3, <1>t DEF RecordHookSuccess, RecordHookFailure, RecordHookAbandon, HookOK
    <2>s. PICK status \in {"SUCCEEDED", "FAILED", "ABANDONED"} :
                 /\ MarkTerminal(k, status) \/ Overwrite(k, status)
                 /\ status = "FAILED" => Paid(k)
                 /\ status = "SUCCEEDED" => k \in credited
      BY <1>3, <1>t, <2>k DEF RecordHookSuccess, RecordHookFailure, RecordHookAbandon, HookOK
    <2>1. status \in Statuses
      BY DEF Statuses, OpenStatuses, FinalStatuses
    <2>2. Writes(k, {status})
      BY <1>j, <2>s, <2>1, StatusWrites, RowAssumption
    <2>3. JournalTypeOK(Instructions)'
      BY <1>j, <2>s, <2>1, JournalWrites
    <2>4. Grows
      BY <1>3, <2>2 DEF RecordHookSuccess, RecordHookFailure, RecordHookAbandon, Writes, Grows,
                        CapturesStay, Captured
    <2>5. hook' \in [Hooks -> Hook] /\ Others
      BY <1>3, <1>t DEF RecordHookSuccess, RecordHookFailure, RecordHookAbandon, HookGoto, Hook, HookStates
    <2>6. TypeOK'
      BY <1>3, <1>t, <2>3, <2>5 DEF RecordHookSuccess, RecordHookFailure, RecordHookAbandon, TypeOK,
                                    ReconcilerTypeOK, QueueTypeOK
    <2>7. HookOK(h)'
      <3>1. hook'[h].key = k /\ hook'[h].pc \in {"cancel", "publish"}
        BY <1>3, <1>t, <2>k DEF RecordHookSuccess, RecordHookFailure, RecordHookAbandon, HookGoto, Hook
      <3> QED
        BY <2>k, <2>2, <3>1 DEF HookOK, Writes, RowsStay
    <2>8. \A j \in Keys : RowOK(j)'
      BY <1>3, <2>s, <2>2, <2>4, RowWritten DEF RecordHookSuccess, RecordHookFailure, RecordHookAbandon
    <2> QED
      BY <1>3, <2>4, <2>5, <2>6, <2>7, <2>8, Rebuild
         DEF RecordHookSuccess, RecordHookFailure, RecordHookAbandon
  <1>4. CASE PublishFromHook(h) \/ CancelBackstop(h) \/ CrashHook(h)
    <2>1. QueueTypeOK'
      <3>1. QueueTypeOK
        BY <1>t DEF TypeOK, ReconcilerTypeOK
      <3>2. CASE UNCHANGED queueVars
        BY <3>1, <3>2 DEF QueueTypeOK
      <3>3. CASE ~UNCHANGED queueVars
        BY <1>4, <1>t, <3>1, <3>3, DeliveriesAssumption
           DEF PublishFromHook, CancelBackstop, CrashHook, BestEffort, HookOK, Publish, AddEntry,
               Unschedule, QueueTypeOK, Entry
      <3> QED
        BY <3>2, <3>3
    <2>2. hook' = [hook EXCEPT ![h] = NoHook]
      BY <1>4 DEF PublishFromHook, CancelBackstop, CrashHook, HookRest
    <2>3. hook' \in [Hooks -> Hook] /\ Others
      BY <1>t, <2>2 DEF NoHook, Hook, HookStates
    <2>4. TypeOK'
      BY <1>4, <1>t, <2>1, <2>3 DEF PublishFromHook, CancelBackstop, CrashHook, TypeOK,
                                    ReconcilerTypeOK, JournalTypeOK
    <2>5. Grows
      BY <1>4 DEF PublishFromHook, CancelBackstop, CrashHook, Grows, RowsStay, CapturesStay,
                  Journaled, Captured
    <2>6. HookOK(h)'
      BY <1>t, <2>2 DEF HookOK, NoHook
    <2> QED
      BY <1>4, <2>3, <2>4, <2>5, <2>6, Rebuild DEF PublishFromHook, CancelBackstop, CrashHook
  <1> QED
    BY <1>1, <1>2, <1>3, <1>4 DEF HookStep, HandlerStep

-----------------------------------------------------------------------------
(* Operator replay and the retention sweep.                                *)

\* The sweep takes a row back, but only one that is credited and that no
\* process works on.
LEMMA SweepSafe ==
    ASSUME IInv, NEW k \in Keys, Sweep(k)
    PROVE  IInv'
  <1> USE DEF depositVars, queueVars
  <1>t. TypeOK /\ JournalTypeOK(Instructions)
    BY DEF IInv, TypeOK, ReconcilerTypeOK
  <1>1. /\ row' = [row EXCEPT ![k] = None]
        /\ \A j \in Keys : j # k => row'[j] = row[j]
        /\ row'[k] = None
        /\ k \in credited
        /\ UNCHANGED <<queueVars, con, depositVars>>
    BY <1>t DEF Sweep, DeleteSettled, IInv, RowOK, JournalTypeOK
  <1>2. TypeOK'
    <2>1. JournalTypeOK(Instructions)'
      BY <1>t, <1>1 DEF JournalTypeOK
    <2> QED
      BY <1>t, <1>1, <2>1 DEF TypeOK, ReconcilerTypeOK, QueueTypeOK
  <1>3. \A j \in Keys : j # k => (Journaled(j)' <=> Journaled(j)) /\ (Paid(j)' <=> Paid(j))
    BY <1>1 DEF Journaled, Paid, IntentOf, Captured
  <1>4. \A c \in Consumers : ConsumerOK(c)'
    <2> SUFFICES ASSUME NEW c \in Consumers
                 PROVE  ConsumerOK(c)'
      OBVIOUS
    <2>1. ConsumerOK(c) /\ (con[c].pc \in Working => con[c].key # k)
      BY DEF IInv, Sweep, WorksOn
    <2>2. con[c].pc \in Working => con[c].pc # "idle"
      BY DEF Working, Reversing
    <2>3. con[c].pc \in {"call", "succeed", "fail"} => con[c].pc \in Working
      BY DEF Working, Reversing
    <2> QED
      BY <1>1, <1>3, <2>1, <2>2, <2>3 DEF ConsumerOK
  <1>5. \A h \in Hooks : HookOK(h)'
    BY <1>1, <1>3 DEF IInv, Sweep, HookOK
  <1>6. \A r \in Requests : RequestOK(r)'
    BY <1>1, <1>3 DEF IInv, Sweep, RequestOK
  <1>7. \A j \in Keys : RowOK(j)'
    BY <1>1, <1>3 DEF IInv, Sweep, RowOK, HasStatus, Journaled
  <1>8. \A i \in PaymentIntents : IntentOK(i)'
    BY <1>1, <1>3 DEF IInv, IntentOK, Kept, Captured, PaymentIntents
  <1> QED
    BY <1>2, <1>4, <1>5, <1>6, <1>7, <1>8 DEF IInv, PaymentIntents

\* An operator's replay keeps what the processes know of the row.
LEMMA KeySafe ==
    ASSUME IInv, NEW k \in Keys, KeyStep(k)
    PROVE  IInv'
  <1> USE DEF pspVars, engineVars, reconcilerVars, queueVars
  <1>t. TypeOK /\ JournalTypeOK(Instructions) /\ QueueTypeOK
    BY DEF IInv, TypeOK, ReconcilerTypeOK
  <1>1. CASE Replay(k) \/ UndoReplay(k)
    <2>1. Resurrect(k) \/ UndoResurrect(k)
      BY <1>1 DEF Replay, UndoReplay
    <2>2. Writes(k, {"PENDING", "ABANDONED"})
      BY <1>t, <2>1, ReplayWrites, RowAssumption
    <2>3. JournalTypeOK(Instructions)'
      BY <1>t, <2>1, JournalWrites
    <2>4. TypeOK'
      BY <1>1, <1>t, <2>3 DEF Replay, UndoReplay, TypeOK, ReconcilerTypeOK, QueueTypeOK
    <2>5. Grows
      BY <1>1, <2>2 DEF Replay, UndoReplay, Writes, Grows, CapturesStay, Captured
    <2>6. \A j \in Keys : RowOK(j)'
      BY <1>1, <2>2, <2>5, RowWritten DEF Replay, UndoReplay
    <2> QED
      BY <1>1, <2>4, <2>5, <2>6, Rebuild DEF Replay, UndoReplay
  <1>2. CASE PublishReplay(k) \/ CrashReplay(k)
    <2>1. QueueTypeOK'
      BY <1>2, <1>t, DeliveriesAssumption
         DEF PublishReplay, CrashReplay, Publish, AddEntry, QueueTypeOK, Entry
    <2>2. TypeOK'
      BY <1>2, <1>t, <2>1 DEF PublishReplay, CrashReplay, TypeOK, ReconcilerTypeOK, JournalTypeOK
    <2>3. Grows
      BY <1>2 DEF PublishReplay, CrashReplay, Grows, RowsStay, CapturesStay, Journaled, Captured
    <2> QED
      BY <1>2, <2>2, <2>3, Rebuild DEF PublishReplay, CrashReplay
  <1> QED
    BY <1>1, <1>2, LateCommitSafe, SweepSafe DEF KeyStep

-----------------------------------------------------------------------------
(* Every step of a consumer preserves the invariant.                       *)

\* The listener writes nothing but the disposition its consumer came with.
LEMMA ListenerSafe ==
    ASSUME IInv, NEW c \in Consumers, \E locked : ListenerStep(c, locked), UNCHANGED depositVars
    PROVE  IInv'
  <1> USE DEF depositVars
  <1>t. TypeOK /\ ConsumerOK(c) /\ HandsOK(c)
    BY DEF IInv, ConsumerOK, HandsOK
  <1>1. ReconcilerTypeOK(Instructions)' /\ Listens(c)
    BY <1>t, ListenerShape, RowAssumption DEF TypeOK
  <1>2. TypeOK'
    BY <1>t, <1>1 DEF TypeOK
  <1>3. ConsumerOK(c)'
    BY <1>1 DEF Listens, HandsOK, ConsumerOK, Working, Reversing
  <1>4. CASE row' = row
    <2>1. Grows
      BY <1>4 DEF Grows, RowsStay, CapturesStay, Journaled, Captured
    <2> QED
      BY <1>1, <1>2, <1>3, <1>4, <2>1, Rebuild DEF Listens
  <1>5. ASSUME NEW status \in Statuses, Disposes(c, status), Writes(con[c].key, {status})
        PROVE  IInv'
    <2>k. PICK k \in Keys : k = con[c].key
      BY <1>5, <1>t DEF Disposes, At, ConsumerOK
    <2>1. Grows
      BY <1>5, <2>k DEF Writes, Grows, CapturesStay, Captured
    <2>2. (status = "FAILED" => Paid(k)) /\ (status = "SUCCEEDED" => k \in credited)
      BY <1>5, <1>t, <2>k DEF Disposes, At, ConsumerOK
    <2>3. \A j \in Keys : RowOK(j)'
      BY <1>5, <2>k, <2>1, <2>2, RowWritten
    <2> QED
      BY <1>1, <1>2, <1>3, <2>1, <2>3, Rebuild DEF Listens
  <1> QED
    BY <1>1, <1>4, <1>5 DEF Listens

\* A consumer credits a row the PSP reports captured, or a FAILED one.
LEMMA ConsumerSafe ==
    ASSUME IInv, NEW c \in Consumers, ConsumerStep(c)
    PROVE  IInv'
  <1> USE DEF queueVars
  <1> DEFINE Others == \A d \in Consumers : d # c => con'[d] = con[d]
  <1>t. TypeOK /\ ConsumerOK(c) /\ con \in [Consumers -> Consumer] /\ con[c] \in Consumer
    BY DEF IInv, TypeOK, ReconcilerTypeOK
  <1>j. JournalTypeOK(Instructions) /\ QueueTypeOK
    BY <1>t DEF TypeOK, ReconcilerTypeOK
  <1>1. CASE ClaimDeposit(c)
    <2>k. PICK k \in Keys : k = con[c].key
      BY <1>1, <1>t DEF ClaimDeposit, At, ConsumerOK
    <2>1. Claim(k) /\ Journaled(k) /\ UNCHANGED <<queueVars, depositVars>>
      BY <1>1, <2>k DEF ClaimDeposit, ClaimRow
    <2>2. Writes(k, {row[k].status}) /\ row[k].attempts + 1 \in 1..MaxAttempts
      BY <1>j, <2>1, ClaimWrites, RowAssumption
    <2>3. JournalTypeOK(Instructions)'
      BY <1>j, <2>1, JournalWrites
    <2>w. PICK work \in {"poll", "call"} :
                 /\ con' = [con EXCEPT ![c].pc = work, ![c].tries = row[k].attempts + 1]
                 /\ work = "call" => row[k].status = "FAILED"
      BY <1>1, <2>k DEF ClaimDeposit, ClaimRow
    <2>4. con' \in [Consumers -> Consumer] /\ Others /\ con'[c].pc = work
          /\ con'[c].key = k /\ con'[c].msg = con[c].msg
      <3>1. row[k].attempts + 1 \in 0..MaxAttempts
        BY <2>2, AttemptsAssumption
      <3>2. work \in ConsumerStates
        BY DEF ConsumerStates, Working, Reversing
      <3> QED
        BY <1>t, <2>k, <2>w, <3>1, <3>2 DEF Consumer
    <2>5. TypeOK'
      BY <1>t, <2>1, <2>3, <2>4 DEF depositVars, TypeOK, ReconcilerTypeOK, QueueTypeOK
    <2>6. Grows
      BY <2>1, <2>2 DEF depositVars, Writes, Grows, CapturesStay, Captured
    <2>7. RowOK(k)
      BY DEF IInv
    <2>8. ConsumerOK(c)'
      <3>1. con'[c].pc # "succeed" /\ con'[c].pc # "fail" /\ con[c].pc # "idle"
        BY <1>1, <2>4 DEF ClaimDeposit, At
      <3>2. work = "call" => Paid(k)'
        BY <1>t, <2>1, <2>6, <2>7, <2>w, PaidStays DEF RowOK, HasStatus, Grows
      <3>3. Journaled(k)'
        BY <2>1, <2>6 DEF Grows, RowsStay
      <3> QED
        BY <1>t, <2>4, <3>1, <3>2, <3>3 DEF ConsumerOK
    <2>9. \A j \in Keys : RowOK(j)'
      BY <2>1, <2>2, <2>6, <2>7, RowWritten DEF RowOK, HasStatus, depositVars
    <2> QED
      BY <2>1, <2>4, <2>5, <2>6, <2>8, <2>9, Rebuild DEF depositVars
  <1>2. CASE PollPsp(c)
    <2>k. PICK k \in Keys : k = con[c].key /\ Journaled(k) /\ con[c].msg \in Messages
      BY <1>2, <1>t DEF PollPsp, At, ConsumerOK, Working, Reversing
    <2>p. PICK pc \in {"call", "abandon", "retry"} : Goto(c, pc) /\ (pc = "call" => Paid(k))
      BY <1>2, <2>k DEF PollPsp, AwaitPayment
    <2>1. con' \in [Consumers -> Consumer]
      <3>1. pc \in ConsumerStates
        BY DEF ConsumerStates, Working, Reversing, Settling
      <3> QED
        BY <1>t, <2>p, <3>1, ConsumerMoves
    <2>2. Others /\ con'[c].pc = pc /\ con'[c].key = k /\ con'[c].msg = con[c].msg
      BY <1>t, <2>k, <2>p DEF Goto, Consumer
    <2>3. TypeOK'
      BY <1>2, <1>t, <2>1 DEF PollPsp, depositVars, TypeOK, ReconcilerTypeOK, JournalTypeOK, QueueTypeOK
    <2>4. Grows
      BY <1>2 DEF PollPsp, depositVars, Grows, RowsStay, CapturesStay, Journaled, Captured
    <2>5. Journaled(k)' /\ (Paid(k) => Paid(k)')
      BY <1>t, <2>k, <2>4, PaidStays DEF Grows, RowsStay
    <2>6. ConsumerOK(c)'
      BY <2>k, <2>p, <2>2, <2>5 DEF ConsumerOK
    <2> QED
      BY <1>2, <2>2, <2>3, <2>4, <2>6, Rebuild DEF PollPsp, depositVars
  <1>3. CASE CreditFromConsumer(c)
    <2>k. PICK k \in Keys : k = con[c].key /\ Paid(k) /\ con[c].msg \in Messages
      BY <1>3, <1>t DEF CreditFromConsumer, At, ConsumerOK
    <2>1. Grows /\ credited' \in SUBSET Keys /\ inflight' \in SUBSET Keys /\ \A j \in Keys : RowOK(j)'
      BY <1>3, <2>k, EngineAnswers DEF CreditFromConsumer, pspVars
    <2>p. PICK pc \in {"succeed", "fail", "abandon"} : Goto(c, pc) /\ (pc = "succeed" => k \in credited')
      BY <1>3, <2>k DEF CreditFromConsumer, AfterTimeout, EngineCommits
    <2>2. con' \in [Consumers -> Consumer]
      <3>1. pc \in ConsumerStates
        BY DEF ConsumerStates, Working, Reversing
      <3> QED
        BY <1>t, <2>p, <3>1, ConsumerMoves
    <2>3. Others /\ con'[c].pc = pc /\ con'[c].key = k /\ con'[c].msg = con[c].msg
      BY <1>t, <2>k, <2>p DEF Goto, Consumer
    <2>4. TypeOK'
      BY <1>3, <1>t, <2>1, <2>2 DEF CreditFromConsumer, pspVars, TypeOK, ReconcilerTypeOK,
                                    JournalTypeOK, QueueTypeOK
    <2>5. Paid(k)' /\ Journaled(k)'
      BY <1>t, <2>k, <2>1, PaidStays DEF Grows, Paid
    <2>6. ConsumerOK(c)'
      BY <2>k, <2>p, <2>3, <2>5 DEF ConsumerOK
    <2> QED
      BY <1>3, <2>1, <2>3, <2>4, <2>6, Rebuild DEF CreditFromConsumer, pspVars
  <1> QED
    BY <1>1, <1>2, <1>3, ListenerSafe DEF ConsumerStep, ConsumerWork

-----------------------------------------------------------------------------
(* The invariant, and what it establishes.                                 *)

\* Nothing is journaled, paid or held at the start.
LEMMA InitSafe == Init => IInv
  <1> SUFFICES ASSUME Init
               PROVE  IInv
    OBVIOUS
  <1> USE DEF Init, ReconcilerInit, JournalInit, QueueInit
  <1>1. TypeOK
    BY AttemptsAssumption, DeliveriesAssumption
       DEF TypeOK, ReconcilerTypeOK, JournalTypeOK, QueueTypeOK, Consumer, ConsumerStates, Resting,
           Request, RequestStates, NoRequest, Hook, HookStates, NoHook
  <1>2. \A c \in Consumers : ConsumerOK(c)
    BY DEF ConsumerOK, Resting, Working, Reversing
  <1>3. \A h \in Hooks : HookOK(h)
    BY DEF HookOK, NoHook
  <1>4. \A r \in Requests : RequestOK(r)
    BY DEF RequestOK, NoRequest
  <1>5. \A k \in Keys : RowOK(k)
    BY DEF RowOK, HasStatus, Journaled
  <1>6. \A i \in PaymentIntents : IntentOK(i)
    BY DEF IntentOK, Captured
  <1> QED
    BY <1>1, <1>2, <1>3, <1>4, <1>5, <1>6 DEF IInv

\* The invariant is inductive.
LEMMA StepSafe == IInv /\ [Next]_vars => IInv'
  <1> SUFFICES ASSUME IInv, [Next]_vars
               PROVE  IInv'
    OBVIOUS
  <1>1. CASE Next
    BY <1>1, PurchaseSafe, PspSafe, HookSafe, ConsumerSafe, KeySafe DEF Next
  <1>2. CASE UNCHANGED vars
    <2>1. TypeOK'
      BY <1>2 DEF vars, IInv, TypeOK, ReconcilerTypeOK, JournalTypeOK, QueueTypeOK
    <2>2. Grows
      BY <1>2 DEF vars, Grows, RowsStay, CapturesStay, Journaled, Captured
    <2> QED
      BY <1>2, <2>1, <2>2, Rebuild DEF vars
  <1> QED
    BY <1>1, <1>2

\* The strengthened invariant holds of the deposit saga.
THEOREM Invariance == Spec => []IInv
  BY InitSafe, StepSafe, PTL DEF Spec

\* Every variable keeps its type.
THEOREM TypeCorrect == Spec => []TypeOK
  <1>1. IInv => TypeOK
    BY DEF IInv
  <1> QED
    BY <1>1, Invariance, PTL

\* A FAILED row is a paid deposit whose credit is owed.
THEOREM FailedRowsArePaid == Spec => []FailedMeansPaid
  <1>1. IInv => FailedMeansPaid
    BY DEF IInv, RowOK, FailedMeansPaid
  <1> QED
    BY <1>1, Invariance, PTL

\* A SUCCEEDED row has its credit in the ledger.
THEOREM SettledRowsAreCredited == Spec => []SettledIsCredited
  <1>1. IInv => SettledIsCredited
    BY DEF IInv, RowOK, SettledIsCredited
  <1> QED
    BY <1>1, Invariance, PTL

-----------------------------------------------------------------------------
(* The credits, one step at a time.                                        *)

\* A step that adds to the ledger adds one key, whose own intent is captured,
\* and changes neither the journal nor the PSP.
LEMMA CreditingStep ==
    ASSUME IInv, Next, credited' # credited
    PROVE  \E k \in Keys : /\ Paid(k) /\ EngineCommits(k)
                           /\ UNCHANGED <<row, psp>>
  <1> USE DEF pspVars, engineVars, reconcilerVars, depositVars
  <1>1. ASSUME NEW r \in Requests, PurchaseStep(r) PROVE FALSE
    BY <1>1 DEF PurchaseStep, StartPurchase, OpenIntent, RequestFails, JournalPurchase,
                ScheduleBackstop, ReturnSecret, CrashRequest
  <1>2. ASSUME NEW i \in PaymentIntents, PspStep(i) PROVE FALSE
    BY <1>2 DEF PspStep, Confirm, Decline
  <1>3. ASSUME NEW h \in Hooks, HookStep(h)
        PROVE  \E k \in Keys : Paid(k) /\ EngineCommits(k) /\ UNCHANGED <<row, psp>>
    <2>1. CreditFromHook(h)
      BY <1>3 DEF HookStep, HandlerStep, ReceiveSuccess, ReceiveFailure, RecordHookSuccess,
                  RecordHookFailure, PublishFromHook, RecordHookAbandon, CancelBackstop, CrashHook
    <2>2. HookOK(h)
      BY DEF IInv
    <2> QED
      BY <2>1, <2>2 DEF CreditFromHook, HookOK, EngineTimesOut, EngineRefuses
  <1>4. ASSUME NEW c \in Consumers, ConsumerStep(c)
        PROVE  \E k \in Keys : Paid(k) /\ EngineCommits(k) /\ UNCHANGED <<row, psp>>
    <2>1. CreditFromConsumer(c)
      BY <1>4 DEF ConsumerStep, ConsumerWork, ClaimDeposit, PollPsp
    <2>2. ConsumerOK(c)
      BY DEF IInv
    <2> QED
      BY <2>1, <2>2 DEF CreditFromConsumer, At, ConsumerOK, EngineTimesOut, EngineRefuses
  <1>5. ASSUME NEW k \in Keys, KeyStep(k)
        PROVE  Paid(k) /\ EngineCommits(k) /\ UNCHANGED <<row, psp>>
    <2>1. LateCommit(k)
      BY <1>5 DEF KeyStep, Replay, PublishReplay, UndoReplay, CrashReplay, Sweep
    <2>2. RowOK(k)
      BY DEF IInv
    <2> QED
      BY <2>1, <2>2 DEF LateCommit, RowOK
  <1> QED
    BY <1>1, <1>2, <1>3, <1>4, <1>5 DEF Next

\* The ledger credits on the capture of the very intent the row names.
THEOREM CreditsAreOnOwnCapture == Spec => CreditsOnOwnCapture
  <1>1. IInv /\ [Next]_vars => [\A k \in credited' \ credited : Paid(k)]_vars
    <2> SUFFICES ASSUME IInv, Next, NEW k \in credited' \ credited
                 PROVE  Paid(k)
      OBVIOUS
    <2>1. PICK j \in Keys : Paid(j) /\ EngineCommits(j)
      BY CreditingStep
    <2> QED
      BY <2>1 DEF EngineCommits
  <1> QED
    BY <1>1, Invariance, PTL DEF Spec, CreditsOnOwnCapture

-----------------------------------------------------------------------------
(* The saga implements the abstract ledger: each step pays, credits,       *)
(* settles or reopens one attempt, or changes nothing the ledger shows.    *)

SamePaid == \A i \in PaymentIntents : Captured(i)' <=> Captured(i)

OneRow(k) == \A j \in Keys : j # k => row'[j] = row[j]

\* Every statement on the journal writes the row of one key at most.
LEMMA OneRowWrites ==
    ASSUME NEW k, \/ \E body : CreateIntentIfAbsent(k, body)
                  \/ \E status : MarkTerminal(k, status) \/ Overwrite(k, status)
                  \/ Claim(k) \/ Resurrect(k) \/ UndoResurrect(k) \/ DeleteSettled(k),
           JournalTypeOK(Instructions)
    PROVE  OneRow(k)
  BY DEF CreateIntentIfAbsent, MarkTerminal, Overwrite, Claim, Resurrect, UndoResurrect,
         DeleteSettled, OneRow, JournalTypeOK

\* What one step does to the variables the ledger is made of.
LEMMA StepShape ==
    ASSUME IInv, Next, credited' = credited
    PROVE  \/ /\ row' = row
              /\ SamePaid \/ \E i \in PaymentIntents : psp' = [psp EXCEPT ![i] = "captured"]
           \/ psp' = psp /\ \E k \in Keys : OneRow(k)
  <1> USE DEF pspVars, engineVars, reconcilerVars, depositVars
  <1> DEFINE Shape == \/ /\ row' = row
                         /\ SamePaid \/ \E i \in PaymentIntents : psp' = [psp EXCEPT ![i] = "captured"]
                      \/ psp' = psp /\ \E k \in Keys : OneRow(k)
  <1>t. TypeOK /\ JournalTypeOK(Instructions)
    BY DEF IInv, TypeOK, ReconcilerTypeOK
  <1>s. row' = row /\ psp' = psp => Shape
    BY DEF SamePaid, Captured
  <1>1. ASSUME NEW r \in Requests, PurchaseStep(r) PROVE Shape
    <2>1. RequestOK(r)
      BY DEF IInv
    <2>2. CASE OpenIntent(r)
      <3>1. <<req[r].who, req[r].key>> \in PaymentIntents
        BY <2>1, <2>2 DEF OpenIntent, RequestOK, PaymentIntents
      <3> QED
        BY <1>t, <2>2, <3>1 DEF OpenIntent, SamePaid, Captured, TypeOK
    <2>3. CASE JournalPurchase(r)
      BY <1>t, <2>1, <2>3, OneRowWrites DEF JournalPurchase, RequestOK
    <2> QED
      BY <1>1, <1>s, <2>2, <2>3 DEF PurchaseStep, StartPurchase, RequestFails, ScheduleBackstop,
                                    ReturnSecret, CrashRequest
  <1>2. ASSUME NEW i \in PaymentIntents, PspStep(i) PROVE Shape
    BY <1>2, <1>t DEF PspStep, Confirm, Decline, SamePaid, Captured, TypeOK
  <1>3. ASSUME NEW h \in Hooks, HookStep(h) PROVE Shape
    <2>1. HookOK(h)
      BY DEF IInv
    <2>2. CASE RecordHookSuccess(h) \/ RecordHookFailure(h) \/ RecordHookAbandon(h)
      BY <1>t, <2>1, <2>2, OneRowWrites DEF RecordHookSuccess, RecordHookFailure, RecordHookAbandon, HookOK
    <2> QED
      BY <1>3, <1>s, <2>2 DEF HookStep, HandlerStep, ReceiveSuccess, ReceiveFailure, CreditFromHook,
                              PublishFromHook, CancelBackstop, CrashHook
  <1>4. ASSUME NEW c \in Consumers, ConsumerStep(c) PROVE Shape
    <2>1. ConsumerOK(c) /\ psp' = psp
      BY <1>4 DEF IInv, ConsumerStep, ConsumerWork, ClaimDeposit, PollPsp, CreditFromConsumer
    <2>2. CASE RecordSuccess(c) \/ RecordFailure(c) \/ RecordAbandon(c) \/ ClaimDeposit(c)
      BY <1>t, <2>1, <2>2, OneRowWrites
         DEF RecordSuccess, RecordFailure, RecordAbandon, ClaimDeposit, ClaimRow, At, ConsumerOK
    <2> QED
      BY <1>4, <1>s, <2>1, <2>2
         DEF ConsumerStep, ConsumerWork, ListenerStep, DrainDue, Republish, Pull, Reclaim, SkipRow,
             Reschedule, DeadLetter, Acknowledge, Throw, CrashConsumer, PollPsp, CreditFromConsumer
  <1>5. ASSUME NEW k \in Keys, KeyStep(k) PROVE Shape
    <2>1. CASE Replay(k) \/ UndoReplay(k) \/ Sweep(k)
      BY <1>t, <2>1, OneRowWrites DEF Replay, UndoReplay, Sweep
    <2> QED
      BY <1>5, <1>s, <2>1 DEF KeyStep, LateCommit, PublishReplay, CrashReplay
  <1> QED
    BY <1>1, <1>2, <1>3, <1>4, <1>5 DEF Next

\* The saga starts as the ledger does.
LEMMA LedgerInit == Init => Ledger!Init
  BY DEF Init, ReconcilerInit, JournalInit, Ledger!Init, PaidAttempts, SettledAttempts, Captured,
         HasStatus, Journaled, PaymentIntents

\* A step of the saga is a step of the ledger, or shows nothing of it.
LEMMA LedgerStep == IInv /\ IInv' /\ [Next]_vars => [Ledger!Next]_(Ledger!ledgerVars)
  <1> SUFFICES ASSUME IInv, IInv', [Next]_vars
               PROVE  Ledger!Next \/ UNCHANGED Ledger!ledgerVars
    BY DEF Ledger!ledgerVars
  <1> USE DEF Ledger!ledgerVars
  <1>1. CASE UNCHANGED vars
    BY <1>1 DEF vars, PaidAttempts, SettledAttempts, Captured, HasStatus, Journaled
  <1>2. CASE Next /\ credited' # credited
    <2>1. PICK k \in Keys : Paid(k) /\ EngineCommits(k) /\ UNCHANGED <<row, psp>>
      BY <1>2, CreditingStep
    <2>2. k \in PaidAttempts \ credited
      BY <1>2, <2>1, IntentOfType DEF IInv, Paid, IntentOf, PaidAttempts, EngineCommits, PaymentIntents
    <2>3. UNCHANGED <<PaidAttempts, SettledAttempts>>
      BY <2>1 DEF PaidAttempts, SettledAttempts, Captured, HasStatus, Journaled
    <2> QED
      BY <2>1, <2>2, <2>3 DEF EngineCommits, Ledger!Next, Ledger!Credit
  <1>3. CASE Next /\ credited' = credited /\ row' = row /\ SamePaid
    BY <1>3 DEF PaidAttempts, SettledAttempts, SamePaid, HasStatus, Journaled, PaymentIntents
  <1>4. ASSUME credited' = credited, row' = row,
               NEW i \in PaymentIntents, psp' = [psp EXCEPT ![i] = "captured"]
        PROVE  Ledger!Next \/ UNCHANGED Ledger!ledgerVars
    <2>1. SettledAttempts' = SettledAttempts
      BY <1>4 DEF SettledAttempts, HasStatus, Journaled
    <2>2. PaidAttempts' = PaidAttempts \cup {i[2]} /\ i[2] \in Keys
      <3>1. PICK p \in Players, k \in Keys : i = <<p, k>>
        BY DEF PaymentIntents
      <3>2. psp \in [PaymentIntents -> {"none", "open", "declined", "captured"}]
        BY DEF IInv, TypeOK
      <3>3. \A q \in Players, j \in Keys :
               psp'[<<q, j>>] = IF <<q, j>> = i THEN "captured" ELSE psp[<<q, j>>]
        BY <1>4, <3>2 DEF PaymentIntents
      <3> QED
        BY <3>1, <3>3 DEF PaidAttempts, Captured
    <2> QED
      BY <1>4, <2>1, <2>2 DEF Ledger!Next, Ledger!Pay
  <1>5. ASSUME credited' = credited, psp' = psp, NEW k \in Keys, OneRow(k)
        PROVE  Ledger!Next \/ UNCHANGED Ledger!ledgerVars
    <2>1. PaidAttempts' = PaidAttempts
      BY <1>5 DEF PaidAttempts, Captured
    <2>2. \A j \in Keys : j # k => (j \in SettledAttempts' <=> j \in SettledAttempts)
      BY <1>5 DEF OneRow, SettledAttempts, HasStatus, Journaled
    <2>3. k \in SettledAttempts' => k \in credited
      BY <1>5 DEF IInv, RowOK, SettledAttempts
    <2>4. \/ SettledAttempts' = SettledAttempts
          \/ k \notin SettledAttempts /\ k \in credited /\ SettledAttempts' = SettledAttempts \cup {k}
          \/ k \in SettledAttempts /\ SettledAttempts' = SettledAttempts \ {k}
      BY <2>2, <2>3 DEF SettledAttempts
    <2> QED
      BY <1>5, <2>1, <2>4 DEF Ledger!Next, Ledger!Settle, Ledger!Reopen
  <1> QED
    BY <1>1, <1>2, <1>3, <1>4, <1>5, StepShape

\* The deposit saga implements pay, credit once, settle.
THEOREM ImplementsLedger == Spec => LedgerSpec
  BY LedgerInit, LedgerStep, Invariance, PTL DEF Spec, LedgerSpec, Ledger!Spec

-----------------------------------------------------------------------------
(* A row names an intent that was opened: its owner's.  So the row of an   *)
(* attempt one account presents names that account's intent.               *)

Opened(i) == psp[i] # "none"

OwnerOpened ==
    /\ \A r \in Requests : req[r].pc = "journal" => Opened(<<req[r].who, req[r].key>>)
    /\ \A k \in Keys : Journaled(k) => Opened(IntentOf(k))

\* The row of k was there before the step, for the same account.
KeepsOwner(k) == Journaled(k) /\ IntentOf(k)' = IntentOf(k)

\* The row of k is the one request r has come to journal.
JournaledBy(r, k) ==
    req[r].pc = "journal" /\ req[r].key = k /\ IntentOf(k)' = <<req[r].who, k>>

\* An intent the PSP has opened stays opened.
LEMMA OpensStay ==
    ASSUME IInv, Next, NEW i \in PaymentIntents, Opened(i)
    PROVE  Opened(i)'
  <1> USE DEF pspVars, engineVars, reconcilerVars, depositVars
  <1>t. psp \in [PaymentIntents -> {"none", "open", "declined", "captured"}]
    BY DEF IInv, TypeOK
  <1>1. ASSUME NEW r \in Requests, PurchaseStep(r) PROVE Opened(i)'
    BY <1>1, <1>t DEF PurchaseStep, StartPurchase, OpenIntent, RequestFails, JournalPurchase,
                      ScheduleBackstop, ReturnSecret, CrashRequest, Opened
  <1>2. ASSUME NEW j \in PaymentIntents, PspStep(j) PROVE Opened(i)'
    BY <1>2, <1>t DEF PspStep, Confirm, Decline, Opened
  <1>3. ASSUME NEW h \in Hooks, HookStep(h) PROVE Opened(i)'
    BY <1>3 DEF HookStep, HandlerStep, ReceiveSuccess, ReceiveFailure, CreditFromHook,
                RecordHookSuccess, RecordHookFailure, PublishFromHook, RecordHookAbandon,
                CancelBackstop, CrashHook, Opened
  <1>4. ASSUME NEW c \in Consumers, ConsumerStep(c) PROVE Opened(i)'
    BY <1>4 DEF ConsumerStep, ConsumerWork, ClaimDeposit, PollPsp, CreditFromConsumer, Opened
  <1>5. ASSUME NEW k \in Keys, KeyStep(k) PROVE Opened(i)'
    BY <1>5 DEF KeyStep, LateCommit, Replay, PublishReplay, UndoReplay, CrashReplay, Sweep, Opened
  <1> QED
    BY <1>1, <1>2, <1>3, <1>4, <1>5 DEF Next

\* No statement but the insert makes a row or changes whose it is.
LEMMA StatementsKeepOwners ==
    ASSUME JournalTypeOK(Instructions), NEW k,
           \/ \E status : MarkTerminal(k, status) \/ Overwrite(k, status)
           \/ Claim(k) \/ Resurrect(k) \/ UndoResurrect(k) \/ DeleteSettled(k)
    PROVE  \A j \in Keys : Journaled(j)' => KeepsOwner(j)
  <1> SUFFICES ASSUME NEW j \in Keys, Journaled(j)'
               PROVE  KeepsOwner(j)
    OBVIOUS
  <1>1. row \in [Keys -> RowOf(Instructions) \cup {None}]
    BY DEF JournalTypeOK
  <1>2. \/ row' = row
        \/ \E status : row' = [row EXCEPT ![k].status = status]
        \/ row' = [row EXCEPT ![k].attempts = @ + 1]
        \/ row' = [row EXCEPT ![k] = [status |-> "PENDING", attempts |-> 0, body |-> @.body]]
        \/ row' = [row EXCEPT ![k] = None]
    BY DEF MarkTerminal, Overwrite, Claim, Resurrect, UndoResurrect, DeleteSettled
  <1>3. row' = row \/ Journaled(k)
    BY DEF MarkTerminal, Overwrite, Claim, Claimable, Resurrect, UndoResurrect, DeleteSettled, HasStatus
  <1>4. j # k => row'[j] = row[j]
    BY <1>1, <1>2
  <1>5. j = k => row'[j].body = row[j].body
    BY <1>1, <1>2, <1>3 DEF Journaled, RowOf
  <1> QED
    BY <1>3, <1>4, <1>5 DEF KeepsOwner, IntentOf, Journaled

\* Every row was there before the step, for the same account, or comes from a request.
LEMMA RowsComeFromRequests ==
    ASSUME IInv, Next, NEW k \in Keys, Journaled(k)'
    PROVE  KeepsOwner(k) \/ \E r \in Requests : JournaledBy(r, k)
  <1> USE DEF pspVars, engineVars, reconcilerVars, depositVars
  <1> DEFINE Known == KeepsOwner(k) \/ \E r \in Requests : JournaledBy(r, k)
  <1>t. JournalTypeOK(Instructions)
    BY DEF IInv, TypeOK, ReconcilerTypeOK
  <1>s. row' = row => Known
    BY DEF KeepsOwner, IntentOf, Journaled
  <1>1. ASSUME NEW r \in Requests, PurchaseStep(r) PROVE Known
    <2>1. RequestOK(r)
      BY DEF IInv
    <2>2. CASE JournalPurchase(r)
      <3> DEFINE fresh == [status |-> "PENDING", attempts |-> 0,
                           body |-> [owner |-> req[r].who, price |-> req[r].price]]
      <3>1. row' = row \/ (row' = [row EXCEPT ![req[r].key] = fresh] /\ req[r].pc = "journal")
        BY <2>2 DEF JournalPurchase, CreateIntentIfAbsent
      <3>2. CASE row' = [row EXCEPT ![req[r].key] = fresh] /\ req[r].pc = "journal"
        <4>1. CASE k = req[r].key
          <5>1. row'[k] = fresh
            BY <1>t, <3>2, <4>1 DEF JournalTypeOK
          <5>2. IntentOf(k)' = <<req[r].who, k>>
            BY <5>1 DEF IntentOf
          <5> QED
            BY <3>2, <4>1, <5>2 DEF JournaledBy
        <4>2. CASE k # req[r].key
          BY <1>t, <3>2, <4>2 DEF JournalTypeOK, KeepsOwner, IntentOf, Journaled
        <4> QED
          BY <4>1, <4>2
      <3> QED
        BY <1>s, <3>1, <3>2
    <2> QED
      BY <1>1, <1>s, <2>2 DEF PurchaseStep, StartPurchase, OpenIntent, RequestFails,
                              ScheduleBackstop, ReturnSecret, CrashRequest
  <1>2. ASSUME NEW i \in PaymentIntents, PspStep(i) PROVE Known
    BY <1>2, <1>s DEF PspStep, Confirm, Decline
  <1>3. ASSUME NEW h \in Hooks, HookStep(h) PROVE Known
    <2>1. CASE RecordHookSuccess(h) \/ RecordHookFailure(h) \/ RecordHookAbandon(h)
      BY <1>t, <2>1, StatementsKeepOwners DEF RecordHookSuccess, RecordHookFailure, RecordHookAbandon
    <2> QED
      BY <1>3, <1>s, <2>1 DEF HookStep, HandlerStep, ReceiveSuccess, ReceiveFailure, CreditFromHook,
                              PublishFromHook, CancelBackstop, CrashHook
  <1>4. ASSUME NEW c \in Consumers, ConsumerStep(c) PROVE Known
    <2>1. CASE RecordSuccess(c) \/ RecordFailure(c) \/ RecordAbandon(c) \/ ClaimDeposit(c)
      BY <1>t, <2>1, StatementsKeepOwners
         DEF RecordSuccess, RecordFailure, RecordAbandon, ClaimDeposit, ClaimRow
    <2> QED
      BY <1>4, <1>s, <2>1
         DEF ConsumerStep, ConsumerWork, ListenerStep, DrainDue, Republish, Pull, Reclaim, SkipRow,
             Reschedule, DeadLetter, Acknowledge, Throw, CrashConsumer, PollPsp, CreditFromConsumer
  <1>5. ASSUME NEW j \in Keys, KeyStep(j) PROVE Known
    <2>1. CASE Replay(j) \/ UndoReplay(j) \/ Sweep(j)
      BY <1>t, <2>1, StatementsKeepOwners DEF Replay, UndoReplay, Sweep
    <2> QED
      BY <1>5, <1>s, <2>1 DEF KeyStep, LateCommit, PublishReplay, CrashReplay
  <1> QED
    BY <1>1, <1>2, <1>3, <1>4, <1>5 DEF Next

\* A request about to journal was about to journal before, or has just opened its intent.
LEMMA JournalersHaveOpened ==
    ASSUME IInv, Next, NEW r \in Requests, req'[r].pc = "journal", req'[r] # req[r]
    PROVE  OpenIntent(r)
  <1> USE DEF pspVars, engineVars, reconcilerVars, depositVars
  <1>t. req \in [Requests -> Request]
    BY DEF IInv, TypeOK
  <1>1. ASSUME NEW s \in Requests, PurchaseStep(s) PROVE OpenIntent(r)
    <2>1. s = r
      BY <1>1, <1>t DEF PurchaseStep, StartPurchase, OpenIntent, RequestFails, JournalPurchase,
                        ScheduleBackstop, ReturnSecret, CrashRequest, RequestGoto
    <2> QED
      BY <1>1, <1>t, <2>1 DEF PurchaseStep, StartPurchase, RequestFails, JournalPurchase,
                              ScheduleBackstop, ReturnSecret, CrashRequest, RequestGoto, NoRequest, Request
  <1>2. ASSUME NEW i \in PaymentIntents, PspStep(i) PROVE FALSE
    BY <1>2 DEF PspStep, Confirm, Decline
  <1>3. ASSUME NEW h \in Hooks, HookStep(h) PROVE FALSE
    BY <1>3 DEF HookStep, HandlerStep, ReceiveSuccess, ReceiveFailure, CreditFromHook,
                RecordHookSuccess, RecordHookFailure, PublishFromHook, RecordHookAbandon,
                CancelBackstop, CrashHook
  <1>4. ASSUME NEW c \in Consumers, ConsumerStep(c) PROVE FALSE
    BY <1>4 DEF ConsumerStep, ConsumerWork, ClaimDeposit, PollPsp, CreditFromConsumer
  <1>5. ASSUME NEW k \in Keys, KeyStep(k) PROVE FALSE
    BY <1>5 DEF KeyStep, LateCommit, Replay, PublishReplay, UndoReplay, CrashReplay, Sweep
  <1> QED
    BY <1>1, <1>2, <1>3, <1>4, <1>5 DEF Next

\* The intents of rows, and of requests about to journal, stay opened.
LEMMA OwnerStep == IInv /\ IInv' /\ OwnerOpened /\ [Next]_vars => OwnerOpened'
  <1> SUFFICES ASSUME IInv, IInv', OwnerOpened, [Next]_vars
               PROVE  OwnerOpened'
    OBVIOUS
  <1>1. CASE UNCHANGED vars
    BY <1>1 DEF vars, OwnerOpened, Opened, Journaled, IntentOf
  <1>2. CASE Next
    <2>1. ASSUME NEW r \in Requests, req'[r].pc = "journal"
          PROVE  Opened(<<req[r].who, req[r].key>>)'
      <3>1. RequestOK(r) /\ RequestOK(r)'
        BY DEF IInv
      <3>2. CASE req'[r] = req[r]
        <4>1. <<req[r].who, req[r].key>> \in PaymentIntents /\ Opened(<<req[r].who, req[r].key>>)
          BY <2>1, <3>1, <3>2 DEF RequestOK, OwnerOpened, PaymentIntents
        <4> QED
          BY <1>2, <3>2, <4>1, OpensStay DEF Opened
      <3>3. CASE req'[r] # req[r]
        <4>1. OpenIntent(r)
          BY <1>2, <2>1, <3>3, JournalersHaveOpened
        <4>2. /\ req'[r].who = req[r].who /\ req'[r].key = req[r].key
              /\ <<req[r].who, req[r].key>> \in PaymentIntents
          BY <3>1, <4>1 DEF IInv, TypeOK, OpenIntent, RequestGoto, Request, RequestOK, PaymentIntents
        <4> QED
          BY <4>1, <4>2 DEF IInv, TypeOK, OpenIntent, Opened
      <3> QED
        BY <3>2, <3>3
    <2>2. ASSUME NEW k \in Keys, Journaled(k)'
          PROVE  Opened(IntentOf(k))'
      <3>1. CASE KeepsOwner(k)
        <4>1. IntentOf(k) \in PaymentIntents /\ Opened(IntentOf(k))
          BY <3>1, IntentOfType DEF IInv, KeepsOwner, OwnerOpened
        <4> QED
          BY <1>2, <3>1, <4>1, OpensStay DEF KeepsOwner, Opened
      <3>2. ASSUME NEW r \in Requests, JournaledBy(r, k)
            PROVE  Opened(IntentOf(k))'
        <4>1. <<req[r].who, k>> \in PaymentIntents /\ Opened(<<req[r].who, k>>)
          BY <3>2 DEF IInv, RequestOK, JournaledBy, OwnerOpened, PaymentIntents
        <4> QED
          BY <1>2, <3>2, <4>1, OpensStay DEF JournaledBy, Opened
      <3> QED
        BY <1>2, <2>2, <3>1, <3>2, RowsComeFromRequests
    <2> QED
      BY <2>1, <2>2 DEF OwnerOpened
  <1> QED
    BY <1>1, <1>2

\* The capture of an attempt one account alone presented has the row that settles
\* it until its credit has committed: the intent is journaled before its secret is
\* returned, and only one account's intent was there to journal.  When two accounts
\* present the attempt this fails (CaptureHasARow).
THEOREM SoleCapturesHaveTheirRows == Spec => []SoleCaptureHasItsRow
  <1>1. Init => OwnerOpened
    BY DEF Init, OwnerOpened, NoRequest, ReconcilerInit, JournalInit, Journaled
  <1>2. IInv /\ OwnerOpened => SoleCaptureHasItsRow
    <2> SUFFICES ASSUME IInv, OwnerOpened, NEW i \in PaymentIntents,
                        Captured(i), ~Contested(i), i[2] \notin credited
                 PROVE  OwnRow(i)
      BY DEF SoleCaptureHasItsRow
    <2>1. Journaled(i[2]) /\ i[2] \in Keys
      BY DEF IInv, IntentOK, Kept, PaymentIntents
    <2>2. IntentOf(i[2]) \in PaymentIntents /\ Opened(IntentOf(i[2]))
      BY <2>1, IntentOfType DEF IInv, OwnerOpened
    <2>3. IntentOf(i[2])[2] = i[2]
      BY DEF IntentOf
    <2> QED
      BY <2>1, <2>2, <2>3 DEF Contested, OwnRow, Opened
  <1> QED
    BY <1>1, <1>2, OwnerStep, Invariance, PTL DEF Spec

=============================================================================
