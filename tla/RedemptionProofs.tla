-------------------------- MODULE RedemptionProofs --------------------------
(***************************************************************************)
(* Safety of redemptions for every set of orders, operators, workers and   *)
(* messages, every budget and every combination of faults.                 *)
(*                                                                         *)
(* A redemption is open to the payout rail only while it is PROCESSING or  *)
(* PAID, and to a refund only once an operator has rejected it or the rail *)
(* has given a definite no; neither can be undone, and they exclude each   *)
(* other.  An agent acts on what it saw earlier, so the invariant says     *)
(* which of these facts each agent still relies on.                        *)
(***************************************************************************)
EXTENDS Redemption, OrdersProofs

\* A worker has claimed r for payout.
Claimed(r) == Is(r, {"PROCESSING", "PAID"})

\* Why r may be given back.
Grounds(r) == Is(r, {"REJECTED"}) \/ rail[r] \in {"refused", "failed"}

\* The debit of r is on record.
Receipted(r) == Taken(Redeem(r)) /\ order[Redeem(r)].receipt

RedemptionOK(r) ==
    /\ rail[r] # "none" \/ r \in sent => Claimed(r)
    /\ Is(r, {"PAID"}) => rail[r] = "paid"
    /\ Moved(Refund(r)) => Grounds(r) /\ Receipted(r)
    /\ Taken(Redeem(r)) /\ order[Redeem(r)].refunded => Refund(r) \in ledger

\* What agent a relies on.
AgentOK(a) ==
    /\ agent[a].pc # "idle" => agent[a].req \in Redemptions
    /\ agent[a].pc \in Refunding => Grounds(agent[a].req) /\ Taken(Redeem(agent[a].req))
    /\ agent[a].pc \in Refunding \ {"refund"} => Receipted(agent[a].req)
    /\ agent[a].pc \in {"credited", "mark"} => Refund(agent[a].req) \in ledger
    /\ agent[a].pc \in Paying => Claimed(agent[a].req)
    /\ agent[a].pc = "paid" => rail[agent[a].req] = "paid"

PInv ==
    /\ TypeOK
    /\ \A r \in Redemptions : RedemptionOK(r)
    /\ \A a \in Agents : AgentOK(a)

IInv == OInv /\ PInv

\* What no step takes back, and what the agents therefore rely on.
NothingUndone ==
    /\ ledger \subseteq ledger'
    /\ \A r \in Redemptions :
          /\ Claimed(r) => Claimed(r)'
          /\ Is(r, {"PAID"}) => Is(r, {"PAID"})'
          /\ Grounds(r) => Grounds(r)'
          /\ Taken(Redeem(r)) => Taken(Redeem(r))'
          /\ Receipted(r) => Receipted(r)'
          /\ rail[r] = "paid" => rail'[r] = "paid"

\* What the agents do to an order: they decide on one that is debited.
Decides(k) ==
    /\ Taken(k) /\ order[k].receipt /\ order[k].status # "REQUESTED"
    /\ Taken(k)' /\ order'[k].receipt /\ order'[k].status # "REQUESTED"
    /\ order'[k].uses = order[k].uses

-----------------------------------------------------------------------------
(* What a step of one side leaves the other.                               *)

\* The redemptions under review, paid out or given back are not the orders'.
LEMMA OrdersKeepRedemptions ==
    ASSUME IInv, OInv', OrdersOnly, UNCHANGED payVars
    PROVE  PInv' /\ NothingUndone
  <1> USE DEF payVars
  <1>t. TypeOK'
    BY DEF IInv, OInv, PInv, TypeOK, payQueueVars, Payout!QueueTypeOK
  <1>1. ASSUME NEW r \in Redemptions
        PROVE  /\ RedemptionOK(r)'
               /\ Claimed(r) => Claimed(r)'
               /\ Is(r, {"PAID"}) => Is(r, {"PAID"})'
               /\ Grounds(r) => Grounds(r)'
               /\ Taken(Redeem(r)) => Taken(Redeem(r))'
               /\ Receipted(r) => Receipted(r)'
    <2>1. RedemptionOK(r) /\ ledger \subseteq ledger' /\ (Moved(Refund(r))' => Moved(Refund(r)))
      BY DEF IInv, PInv, OrdersOnly
    <2>2. Refund(r) \in ledger /\ Taken(Redeem(r)) => Moved(Refund(r))
      BY DEF Moved
    <2>3. PICK k \in OrderKeys : k = Redeem(r)
      BY KeyFacts
    <2>4. CASE order'[k] = order[k]
      BY <2>1, <2>3, <2>4 DEF RedemptionOK, Claimed, Grounds, Receipted, Is, OrderIn, Taken
    <2>5. CASE Advances(k)
      <3>1. OrderOK(k)
        BY DEF IInv, OInv
      <3>2. /\ ~Is(r, {"PROCESSING", "PAID", "REJECTED"}) /\ ~Receipted(r)
            /\ ~Is(r, {"PAID"}) /\ ~Is(r, {"PAID"})'
            /\ Taken(Redeem(r))'
        BY <2>3, <2>5, <3>1 DEF Advances, OrderIn, Taken, Is, Receipted, OrderOK
      <3>3. rail[r] = "none" /\ r \notin sent /\ ~Moved(Refund(r))
        BY <2>1, <3>2 DEF RedemptionOK, Claimed, Is, OrderIn
      <3>4. ~(Taken(Redeem(r))' /\ order'[k].refunded)
        BY <2>1, <2>2, <2>3, <2>5, <3>3 DEF Advances, RedemptionOK
      <3> QED
        BY <2>1, <2>3, <3>2, <3>3, <3>4 DEF RedemptionOK, Claimed, Grounds, Receipted, Is, OrderIn
    <2> QED
      BY <2>4, <2>5 DEF OrdersOnly
  <1>2. ASSUME NEW a \in Agents
        PROVE  AgentOK(a)'
    <2>1. AgentOK(a) /\ agent'[a] = agent[a] /\ rail' = rail /\ ledger \subseteq ledger'
      BY DEF IInv, PInv, OrdersOnly
    <2>2. CASE agent[a].pc = "idle"
      BY <2>1, <2>2 DEF AgentOK, Refunding, Paying
    <2>3. CASE agent[a].pc # "idle"
      <3>1. PICK r \in Redemptions : r = agent[a].req
        BY <2>1, <2>3 DEF AgentOK
      <3> QED
        BY <1>1, <2>1, <3>1 DEF AgentOK
    <2> QED
      BY <2>2, <2>3
  <1> QED
    BY <1>t, <1>1, <1>2 DEF PInv, NothingUndone, OrdersOnly

\* An order the agents decide is no longer open: no request and no replay has it.
LEMMA AgentsKeepOrders ==
    ASSUME OInv, OrdersTypeOK', UNCHANGED <<queueVars, con, call>>, ledger \subseteq ledger',
           \A k \in Keys : row'[k] = row[k] \/ (RowOK(k)' /\ ~HasStatus(k, {"ABANDONED"})'),
           \A k \in OrderKeys : Moved(k)' => Moved(k),
           \A k \in OrderKeys : order'[k] = order[k] \/ Decides(k)
    PROVE  OInv'
  <1> USE DEF queueVars
  <1>1. ASSUME NEW k \in OrderKeys
        PROVE  OrderOK(k)'
    <2>1. OrderOK(k) /\ (Moved(k)' => Moved(k)) /\ (order'[k] = order[k] \/ Decides(k))
      BY DEF OInv
    <2>2. \A j \in OrderKeys : Taken(j)' => Taken(j) /\ order'[j].uses = order[j].uses
      BY DEF Decides, Taken
    <2>3. Taken(k) => Taken(k)'
      BY <2>1 DEF Decides, Taken
    <2>4. \A j \in OrderKeys : j # k /\ Taken(j)' /\ Taken(k)' => order'[j].uses \cap order'[k].uses = {}
      BY <2>1, <2>2 DEF OrderOK
    <2>5. \A r \in Redemptions : k = Redeem(r) /\ Taken(k)' => <<"order", r>> \in order'[k].uses
      BY <2>1, <2>2 DEF OrderOK
    <2>6. Taken(k)' /\ order'[k].receipt => k \in ledger'
      BY <2>1 DEF OrderOK, Decides, Taken
    <2> QED
      BY <2>1, <2>3, <2>4, <2>5, <2>6 DEF OrderOK, Decides, Taken
  <1>2. \A k \in OrderKeys : OrderIn(k, {"REQUESTED"}) => OrderIn(k, {"REQUESTED"})'
    BY DEF Decides, OrderIn, Taken
  <1>3. ASSUME NEW h \in Calls
        PROVE  CallOK(h)'
    <2>1. CallOK(h) /\ call' = call
      BY DEF OInv
    <2>2. ~Taken(Grant(h)) => ~Taken(Grant(h))'
      BY KeyFacts DEF Decides, Taken
    <2>3. CASE call[h].pc \in Holding
      <3>1. PICK k \in OrderKeys : k = call[h].key
        BY <2>1, <2>3 DEF CallOK, Holding
      <3> QED
        BY <1>2, <2>1, <2>2, <2>3, <3>1 DEF CallOK, Holds
    <2>4. call[h].pc \in {"journal", "call", "refused", "refuse", "done", "accept"} => call[h].pc \in Holding
      BY DEF Holding, CallStates
    <2> QED
      BY <2>1, <2>2, <2>3, <2>4 DEF CallOK
  <1>4. \A k \in Keys : Driven(k)' => HandedOver(k)'
    <2> SUFFICES ASSUME NEW k \in Keys, Driven(k)'
                 PROVE  HandedOver(k)'
      OBVIOUS
    <2>1. Driven(k)
      BY DEF Driven, Queued, InStream, HasInHand, HasStatus, Journaled
    <2> QED
      BY <1>2, <2>1 DEF OInv, HandedOver, Holds
  <1> QED
    BY <1>1, <1>3, <1>4, Rebuild

-----------------------------------------------------------------------------
(* The agents.                                                             *)

\* Only agent a moves.
Moves(a) == agent' \in [Agents -> Agent] /\ \A b \in Agents : b # a => agent'[b] = agent[b]

\* The invariant of the next state, from what the step of one agent may touch.
LEMMA AgentMoves ==
    ASSUME IInv, NEW a \in Agents, Moves(a), AgentOK(a)', TypeOK',
           UNCHANGED <<queueVars, con, call>>, NothingUndone,
           \A k \in Keys : row'[k] = row[k] \/ (RowOK(k)' /\ ~HasStatus(k, {"ABANDONED"})'),
           \A k \in OrderKeys : Moved(k)' => Moved(k),
           \A k \in OrderKeys : order'[k] = order[k] \/ Decides(k),
           \A r \in Redemptions : RedemptionOK(r)'
    PROVE  IInv'
  <1>1. OInv'
    BY AgentsKeepOrders DEF IInv, NothingUndone, TypeOK
  <1>2. ASSUME NEW b \in Agents
        PROVE  AgentOK(b)'
    <2>1. CASE b # a /\ agent[b].pc = "idle"
      BY <2>1 DEF AgentOK, Moves, Refunding, Paying
    <2>2. CASE b # a /\ agent[b].pc # "idle"
      <3>1. AgentOK(b) /\ agent'[b] = agent[b]
        BY <2>2 DEF IInv, PInv, Moves
      <3>2. PICK r \in Redemptions : r = agent[b].req
        BY <2>2, <3>1 DEF AgentOK
      <3> QED
        BY <3>1, <3>2 DEF AgentOK, NothingUndone
    <2> QED
      BY <2>1, <2>2
  <1> QED
    BY <1>1, <1>2 DEF IInv, PInv

\* The same for a step that leaves orders, ledger and rail alone.
LEMMA QuietMove ==
    ASSUME IInv, NEW a \in Agents, Moves(a), AgentOK(a)',
           UNCHANGED <<reconcilerVars, orderVars, rail, sent>>, Payout!QueueTypeOK'
    PROVE  IInv' /\ NothingUndone
  <1> USE DEF reconcilerVars, queueVars, orderVars
  <1>1. TypeOK'
    BY DEF IInv, PInv, TypeOK, OrdersTypeOK, ReconcilerTypeOK, JournalTypeOK, QueueTypeOK, Moves
  <1>2. NothingUndone
    BY DEF NothingUndone, Claimed, Grounds, Receipted, Is, OrderIn, Taken
  <1>3. \A r \in Redemptions : RedemptionOK(r)'
    BY DEF IInv, PInv, RedemptionOK, Claimed, Grounds, Receipted, Is, OrderIn, Taken, Moved
  <1> QED
    BY <1>1, <1>2, <1>3, AgentMoves DEF Moved

\* An agent that rests, or goes on with the redemption it holds.
LEMMA AgentGoes ==
    ASSUME TypeOK, NEW a \in Agents
    PROVE  /\ AgentRest(a) => Moves(a) /\ agent'[a] = Free
           /\ \A pc \in AgentStates :
                 AgentGoto(a, pc) => Moves(a) /\ agent'[a].pc = pc /\ agent'[a].req = agent[a].req
           /\ \A pc \in AgentStates, r \in Redemptions :
                 agent' = [agent EXCEPT ![a] = [Free EXCEPT !.pc = pc, !.req = r]]
                    => Moves(a) /\ agent'[a].pc = pc /\ agent'[a].req = r
  <1>1. agent \in [Agents -> Agent] /\ agent[a] \in Agent
    BY DEF TypeOK
  <1>2. Free \in Agent
    BY DeliveriesAssumption DEF Free, Agent, AgentStates
  <1>3. ASSUME NEW pc \in AgentStates, AgentGoto(a, pc)
        PROVE  Moves(a) /\ agent'[a].pc = pc /\ agent'[a].req = agent[a].req
    BY <1>1, <1>3 DEF Moves, AgentGoto, Agent
  <1>4. ASSUME NEW pc \in AgentStates, NEW r \in Redemptions,
               agent' = [agent EXCEPT ![a] = [Free EXCEPT !.pc = pc, !.req = r]]
        PROVE  Moves(a) /\ agent'[a].pc = pc /\ agent'[a].req = r
    <2>1. [Free EXCEPT !.pc = pc, !.req = r] \in Agent
      BY <1>2 DEF Agent
    <2>2. [Free EXCEPT !.pc = pc, !.req = r].pc = pc /\ [Free EXCEPT !.pc = pc, !.req = r].req = r
      BY DEF Free
    <2> QED
      BY <1>1, <1>4, <2>1, <2>2 DEF Moves
  <1> QED
    BY <1>1, <1>2, <1>3, <1>4 DEF Moves, AgentRest

\* A resting agent relies on nothing.
LEMMA RestingKnows ==
    ASSUME NEW a \in Agents, agent'[a] = Free
    PROVE  AgentOK(a)'
  BY DEF AgentOK, Free, Refunding, Paying

\* Nor does one that holds a message and has decided nothing yet.
LEMMA WaitingKnows ==
    ASSUME NEW a \in Agents, agent'[a].req \in Redemptions,
           agent'[a].pc \notin Refunding \cup Paying
    PROVE  AgentOK(a)'
  BY DEF AgentOK, Refunding, Paying

\* The catch block schedules, parks, or leaves the message.
LEMMA CatchGoes ==
    ASSUME TypeOK, NEW w \in Agents, agent[w].pc # "idle" => agent[w].req \in Redemptions,
           agent[w].pc # "idle", CatchThen(w)
    PROVE  Moves(w) /\ AgentOK(w)'
  <1>1. CASE agent[w].caught
    BY <1>1, AgentGoes, RestingKnows DEF CatchThen
  <1>2. CASE ~agent[w].caught
    <2>1. agent \in [Agents -> Agent] /\ agent[w] \in Agent
      BY DEF TypeOK
    <2>2. PICK pc \in {"park", "retry"} :
             agent' = [agent EXCEPT ![w].caught = TRUE, ![w].pc = pc]
      BY <1>2 DEF CatchThen
    <2>3. pc \in AgentStates /\ pc \notin Refunding \cup Paying
      BY DEF AgentStates, Refunding, Paying
    <2>4. Moves(w) /\ agent'[w].req = agent[w].req /\ agent'[w].pc = pc
      BY <2>1, <2>2, <2>3 DEF Moves, Agent
    <2> QED
      BY <2>3, <2>4, WaitingKnows
  <1> QED
    BY <1>1, <1>2

-----------------------------------------------------------------------------
(* The broker of the redemption stream keeps its types.                    *)

\* What each method of the broker leaves is a stream, a schedule and a dead letter list.
LEMMA PayoutTypes ==
    ASSUME Payout!QueueTypeOK, NEW r \in Redemptions, NEW m \in PayMessages
    PROVE  /\ Payout!AddEntry(m, r) => Payout!QueueTypeOK'
           /\ Payout!Schedule(r) \/ Payout!Unschedule(r) => Payout!QueueTypeOK'
           /\ Payout!ParkInDlq(r) => Payout!QueueTypeOK'
           /\ Payout!Read(m) \/ Payout!Redeliver(m)
                 => /\ Payout!QueueTypeOK'
                    /\ payEntries[m].key \in Redemptions
                    /\ payEntries'[m].count \in 0..MaxDeliveries
           /\ Payout!Ack(m) => Payout!QueueTypeOK'
  <1> USE DeliveriesAssumption DEF Payout!QueueTypeOK
  <1>1. Payout!AddEntry(m, r) => Payout!QueueTypeOK'
    BY DEF Payout!AddEntry, Payout!Entry
  <1>2. Payout!Schedule(r) \/ Payout!Unschedule(r) => Payout!QueueTypeOK'
    BY DEF Payout!Schedule, Payout!Unschedule
  <1>3. Payout!ParkInDlq(r) => Payout!QueueTypeOK'
    BY DEF Payout!ParkInDlq
  <1>4. Payout!Ack(m) => Payout!QueueTypeOK'
    BY DEF Payout!Ack
  <1>5. ASSUME Payout!Read(m) \/ Payout!Redeliver(m)
        PROVE  /\ Payout!QueueTypeOK'
               /\ payEntries[m].key \in Redemptions
               /\ payEntries'[m].count \in 0..MaxDeliveries
    <2>1. payEntries[m] \in Payout!Entry
      BY <1>5 DEF Payout!Read, Payout!Redeliver
    <2>2. PICK n \in 0..MaxDeliveries : payEntries' = [payEntries EXCEPT ![m].count = n]
      <3>1. payEntries[m].count \in 0..MaxDeliveries
        BY <2>1 DEF Payout!Entry
      <3>2. CASE Payout!Read(m)
        <4>1. 1 \in 0..MaxDeliveries
          OBVIOUS
        <4> QED
          BY <3>2, <4>1 DEF Payout!Read
      <3>3. CASE Payout!Redeliver(m)
        <4>1. (IF payEntries[m].count < MaxDeliveries
                 THEN payEntries[m].count + 1 ELSE payEntries[m].count) \in 0..MaxDeliveries
          BY <3>1
        <4> QED
          BY <3>3, <4>1 DEF Payout!Redeliver
      <3> QED
        BY <1>5, <3>2, <3>3
    <2>3. [payEntries[m] EXCEPT !.count = n] \in Payout!Entry
      BY <2>1, <2>2 DEF Payout!Entry
    <2> QED
      BY <1>5, <2>1, <2>2, <2>3 DEF Payout!Read, Payout!Redeliver, Payout!Entry
  <1> QED
    BY <1>1, <1>2, <1>3, <1>4, <1>5

-----------------------------------------------------------------------------
(* The steps of the agents.                                                *)

\* The broker's side: publishing, delivering, retrying, parking, crashing.
LEMMA BrokerSafe ==
    ASSUME IInv, NEW a \in Agents,
           \/ PublishApproval(a) \/ FailToPublish(a) \/ RepublishPayout(a) \/ ThrowPayout(a)
           \/ ReschedulePayout(a) \/ ParkPayout(a) \/ AckPayout(a) \/ CrashAgent(a)
           \/ \E r \in Redemptions : DrainDuePayout(a, r)
           \/ \E m \in PayMessages : TakePayout(a, m)
    PROVE  IInv' /\ NothingUndone
  <1> USE DEF payQueueVars
  <1>t. /\ TypeOK /\ AgentOK(a) /\ Payout!QueueTypeOK
        /\ agent \in [Agents -> Agent] /\ agent[a] \in Agent
    BY DEF IInv, PInv, TypeOK
  <1>q. UNCHANGED payQueueVars => Payout!QueueTypeOK'
    BY <1>t DEF Payout!QueueTypeOK
  <1>u. UNCHANGED <<reconcilerVars, orderVars, rail, sent>>
    BY DEF PublishApproval, FailToPublish, RepublishPayout, ThrowPayout, ReschedulePayout,
           ParkPayout, AckPayout, CrashAgent, DrainDuePayout, TakePayout
  <1>w. "undo" \in AgentStates \ (Refunding \cup Paying) /\ "ack" \in AgentStates \ (Refunding \cup Paying)
        /\ "drained" \in AgentStates \ (Refunding \cup Paying)
        /\ "read" \in AgentStates \ (Refunding \cup Paying)
    BY DEF AgentStates, Refunding, Paying
  <1>g. \A pc \in AgentStates :
           AgentGoto(a, pc) => Moves(a) /\ agent'[a].pc = pc /\ agent'[a].req = agent[a].req
    BY <1>t, AgentGoes
  <1>f. Free \in Agent
    BY DeliveriesAssumption DEF Free, Agent, AgentStates
  <1>r. agent[a].pc # "idle" => agent[a].req \in Redemptions
    BY <1>t DEF AgentOK
  <1>1. CASE PublishApproval(a)
    <2>1. PICK m \in PayMessages : Payout!AddEntry(m, agent[a].req)
      BY <1>1 DEF PublishApproval, Payout!Publish
    <2>2. agent[a].req \in Redemptions
      BY <1>1, <1>r DEF PublishApproval, AgentAt
    <2> QED
      BY <1>1, <1>t, <1>u, <2>1, <2>2, AgentGoes, RestingKnows, PayoutTypes, QuietMove DEF PublishApproval
  <1>2. CASE FailToPublish(a)
    <2>1. agent[a].req \in Redemptions
      BY <1>2, <1>r DEF FailToPublish, AgentAt
    <2>2. Payout!QueueTypeOK'
      <3>1. CASE Payout!Publish(agent[a].req, HeldPayouts)
        <4>1. PICK m \in PayMessages : Payout!AddEntry(m, agent[a].req)
          BY <3>1 DEF Payout!Publish
        <4> QED
          BY <1>t, <2>1, <4>1, PayoutTypes
      <3> QED
        BY <1>2, <1>q, <3>1 DEF FailToPublish
    <2>3. Moves(a) /\ AgentOK(a)'
      BY <1>2, <1>g, <1>w, <2>1, WaitingKnows DEF FailToPublish
    <2> QED
      BY <1>u, <2>2, <2>3, QuietMove
  <1>3. CASE RepublishPayout(a)
    <2>1. agent[a].req \in Redemptions
      BY <1>3, <1>r DEF RepublishPayout, AgentAt
    <2>2. [key |-> agent[a].req, count |-> 0] \in Payout!Entry
      BY <2>1, DeliveriesAssumption DEF Payout!Entry
    <2>3. Payout!QueueTypeOK'
      BY <1>3, <1>t, <2>2 DEF RepublishPayout, Payout!AddEntry, Payout!QueueTypeOK
    <2> QED
      BY <1>3, <1>t, <1>u, <2>3, AgentGoes, RestingKnows, QuietMove DEF RepublishPayout
  <1>4. CASE ThrowPayout(a)
    <2>1. Moves(a) /\ AgentOK(a)'
      BY <1>4, <1>r, <1>t, AgentGoes, RestingKnows, CatchGoes DEF ThrowPayout, AgentAt
    <2> QED
      BY <1>4, <1>q, <1>u, <2>1, QuietMove DEF ThrowPayout
  <1>5. CASE ReschedulePayout(a)
    <2>1. agent[a].req \in Redemptions
      BY <1>5, <1>r DEF ReschedulePayout, AgentAt
    <2>2. Payout!QueueTypeOK'
      BY <1>5, <1>t, <2>1 DEF ReschedulePayout, Payout!Schedule, Payout!QueueTypeOK
    <2>3. Moves(a) /\ AgentOK(a)'
      BY <1>5, <1>g, <1>w, <2>1, WaitingKnows DEF ReschedulePayout
    <2> QED
      BY <1>u, <2>2, <2>3, QuietMove
  <1>6. CASE ParkPayout(a)
    <2>1. agent[a].req \in Redemptions
      BY <1>6, <1>r DEF ParkPayout, AgentAt
    <2>2. Payout!QueueTypeOK'
      BY <1>6, <1>t, <2>1 DEF ParkPayout, Payout!ParkInDlq, Payout!QueueTypeOK
    <2>3. Moves(a) /\ AgentOK(a)'
      BY <1>6, <1>g, <1>w, <2>1, WaitingKnows DEF ParkPayout
    <2> QED
      BY <1>u, <2>2, <2>3, QuietMove
  <1>7. CASE AckPayout(a)
    <2>1. Payout!QueueTypeOK'
      BY <1>7, <1>t DEF AckPayout, Payout!Ack, Payout!QueueTypeOK
    <2> QED
      BY <1>7, <1>t, <1>u, <2>1, AgentGoes, RestingKnows, QuietMove DEF AckPayout
  <1>8. CASE CrashAgent(a)
    BY <1>8, <1>q, <1>t, <1>u, AgentGoes, RestingKnows, QuietMove DEF CrashAgent
  <1>9. ASSUME NEW r \in Redemptions, DrainDuePayout(a, r)
        PROVE  IInv' /\ NothingUndone
    <2>1. PICK m \in PayMessages :
             agent' = [agent EXCEPT ![a] = [Free EXCEPT !.pc = "drained", !.req = r, !.msg = m]]
      BY <1>9 DEF DrainDuePayout
    <2>2. [Free EXCEPT !.pc = "drained", !.req = r, !.msg = m] \in Agent
      BY <1>f, <1>w DEF Agent
    <2>3. Moves(a) /\ agent'[a].pc = "drained" /\ agent'[a].req = r
      BY <1>t, <2>1, <2>2 DEF Moves, Free
    <2>4. Payout!QueueTypeOK'
      BY <1>9, <1>t DEF DrainDuePayout, Payout!Unschedule, Payout!QueueTypeOK
    <2> QED
      BY <1>u, <1>w, <2>3, <2>4, WaitingKnows, QuietMove
  <1>10. ASSUME NEW m \in PayMessages, TakePayout(a, m)
         PROVE  IInv' /\ NothingUndone
    <2>1. PICK n \in 0..MaxDeliveries, r \in Redemptions :
             agent' = [agent EXCEPT ![a] = [Free EXCEPT !.pc = "read", !.req = r,
                                                        !.msg = m, !.seen = n]]
      <3>1. payEntries[m].key \in Redemptions /\ payEntries'[m].count \in 0..MaxDeliveries
        <4>1. PICK r \in Redemptions : TRUE
          BY <1>10, <1>t DEF TakePayout, Payout!Read, Payout!Redeliver, Payout!QueueTypeOK, Payout!Entry
        <4> QED
          BY <1>10, <1>t, <4>1, PayoutTypes DEF TakePayout
      <3> QED
        BY <1>10, <3>1 DEF TakePayout
    <2>2. [Free EXCEPT !.pc = "read", !.req = r, !.msg = m, !.seen = n] \in Agent
      BY <1>f, <1>w DEF Agent
    <2>3. Moves(a) /\ agent'[a].pc = "read" /\ agent'[a].req = r
      BY <1>t, <2>1, <2>2 DEF Moves, Free
    <2>4. Payout!QueueTypeOK'
      BY <1>10, <1>t, <2>1, PayoutTypes DEF TakePayout
    <2> QED
      BY <1>u, <1>w, <2>3, <2>4, WaitingKnows, QuietMove
  <1> QED
    BY <1>1, <1>2, <1>3, <1>4, <1>5, <1>6, <1>7, <1>8, <1>9, <1>10

-----------------------------------------------------------------------------
(* Reading, and asking the rail.                                           *)

\* After a refund an operator rests and a worker parks its message.
LEMMA AfterRefundGoes ==
    ASSUME TypeOK, NEW a \in Agents, agent[a].req \in Redemptions, AfterRefund(a)
    PROVE  Moves(a) /\ (agent'[a] = Free \/ (agent'[a].pc = "park" /\ agent'[a].req = agent[a].req))
           /\ AgentOK(a)'
  <1>1. "park" \in AgentStates \ (Refunding \cup Paying)
    BY DEF AgentStates, Refunding, Paying
  <1>2. CASE a \in Workers
    BY <1>1, <1>2, AgentGoes, WaitingKnows DEF AfterRefund
  <1>3. CASE a \notin Workers
    BY <1>3, AgentGoes, RestingKnows DEF AfterRefund
  <1> QED
    BY <1>2, <1>3

\* What an agent reads it may rely on, for none of it can be undone.
LEMMA ReadSafe ==
    ASSUME IInv, NEW a \in Agents, ReadRedemption(a) \/ AskRail(a) \/ LookUpDebit(a)
    PROVE  IInv' /\ NothingUndone
  <1>t. /\ TypeOK /\ AgentOK(a) /\ agent \in [Agents -> Agent] /\ agent[a] \in Agent
    BY DEF IInv, PInv, TypeOK
  <1>u. UNCHANGED <<reconcilerVars, orderVars, rail, sent, payQueueVars>>
    BY DEF ReadRedemption, AskRail, LookUpDebit
  <1>q. Payout!QueueTypeOK'
    BY <1>t, <1>u DEF TypeOK, Payout!QueueTypeOK, payQueueVars
  <1>r. PICK r \in Redemptions : r = agent[a].req
    BY <1>t DEF ReadRedemption, AskRail, LookUpDebit, AgentAt, AgentOK
  <1>w. /\ {"retrieve", "send", "paid", "claim", "ack", "refund", "journal"} \subseteq AgentStates
        /\ {"claim", "ack"} \cap (Refunding \cup Paying) = {}
    BY DEF AgentStates, Refunding, Paying
  <1>s. /\ Claimed(r)' = Claimed(r) /\ Grounds(r)' = Grounds(r) /\ Receipted(r)' = Receipted(r)
        /\ Taken(Redeem(r))' = Taken(Redeem(r)) /\ rail'[r] = rail[r]
    BY <1>u DEF Claimed, Grounds, Receipted, Is, OrderIn, Taken, orderVars
  <1>1. CASE ReadRedemption(a)
    <2>1. PICK pc \in {"retrieve", "claim", "ack"} :
             AgentGoto(a, pc) /\ (pc = "retrieve" => Is(r, {"PROCESSING"}))
      BY <1>1, <1>r DEF ReadRedemption
    <2>2. Moves(a) /\ agent'[a].pc = pc /\ agent'[a].req = r
      BY <1>t, <1>r, <1>w, <2>1, AgentGoes
    <2>3. Is(r, {"PROCESSING"}) => Claimed(r)
      BY DEF Claimed, Is, OrderIn
    <2>4. AgentOK(a)'
      BY <1>s, <2>1, <2>2, <2>3 DEF AgentOK, Refunding, Paying
    <2> QED
      BY <1>u, <1>q, <2>2, <2>4, QuietMove
  <1>2. CASE AskRail(a)
    <2>1. PICK pc \in {"send", "ack", "paid", "refund"} :
             /\ AgentGoto(a, pc)
             /\ pc = "paid" => rail[r] = "paid"
             /\ pc = "refund" => rail[r] \notin {"none", "refused", "submitted", "paid"}
      BY <1>2, <1>r DEF AskRail, Upon
    <2>2. Moves(a) /\ agent'[a].pc = pc /\ agent'[a].req = r
      <3>1. pc \in AgentStates
        BY <1>w, <2>1
      <3> QED
        BY <1>t, <1>r, <2>1, <3>1, AgentGoes
    <2>3. Claimed(r) /\ Taken(Redeem(r))
      BY <1>2, <1>r, <1>t DEF AskRail, AgentAt, AgentOK, Paying, Claimed, Is, OrderIn
    <2>4. pc = "refund" => Grounds(r)
      BY <1>t, <2>1 DEF Grounds, TypeOK, RailAnswers
    <2>5. AgentOK(a)'
      BY <1>s, <2>1, <2>2, <2>3, <2>4 DEF AgentOK, Refunding, Paying
    <2> QED
      BY <1>u, <1>q, <2>2, <2>5, QuietMove
  <1>3. CASE LookUpDebit(a)
    <2>1. Grounds(r) /\ Taken(Redeem(r))
      BY <1>3, <1>r, <1>t DEF LookUpDebit, AgentAt, AgentOK, Refunding
    <2>2. CASE order[Redeem(r)].receipt
      <3>1. Moves(a) /\ agent'[a].pc = "journal" /\ agent'[a].req = r
        BY <1>3, <1>r, <1>t, <1>w, <2>2, AgentGoes DEF LookUpDebit
      <3>2. AgentOK(a)'
        BY <1>s, <2>1, <2>2, <3>1 DEF AgentOK, Refunding, Paying, Receipted
      <3> QED
        BY <1>u, <1>q, <3>1, <3>2, QuietMove
    <2>3. CASE ~order[Redeem(r)].receipt
      <3>1. Moves(a) /\ AgentOK(a)'
        BY <1>3, <1>r, <1>t, <2>3, AfterRefundGoes DEF LookUpDebit
      <3> QED
        BY <1>u, <1>q, <3>1, QuietMove
    <2> QED
      BY <2>2, <2>3
  <1> QED
    BY <1>1, <1>2, <1>3

\* A request to the rail belongs to a redemption that is claimed, and an answer
\* that says no is a ground for the refund.
LEMMA RailSafe ==
    ASSUME IInv, NEW a \in Agents, SendPayout(a) \/ RailFails(a)
    PROVE  IInv' /\ NothingUndone
  <1> USE DEF reconcilerVars, queueVars, orderVars, payQueueVars
  <1>t. /\ TypeOK /\ AgentOK(a) /\ agent \in [Agents -> Agent] /\ agent[a] \in Agent
    BY DEF IInv, PInv, TypeOK
  <1>u. UNCHANGED <<reconcilerVars, orderVars, payQueueVars>>
    BY DEF SendPayout, RailFails
  <1>r. PICK r \in Redemptions : r = agent[a].req
    BY <1>t DEF SendPayout, RailFails, AgentAt, AgentOK
  <1>c. Claimed(r) /\ Taken(Redeem(r))
    BY <1>r, <1>t DEF SendPayout, RailFails, AgentAt, AgentOK, Paying, Claimed, Is, OrderIn
  <1>s. ASSUME NEW q \in Redemptions
        PROVE  /\ Claimed(q)' = Claimed(q) /\ Receipted(q)' = Receipted(q)
               /\ Is(q, {"PAID"})' = Is(q, {"PAID"}) /\ Is(q, {"REJECTED"})' = Is(q, {"REJECTED"})
               /\ Taken(Redeem(q))' = Taken(Redeem(q)) /\ RedemptionOK(q)
    BY <1>u DEF Claimed, Receipted, Is, OrderIn, Taken, IInv, PInv
  <1>1. ASSUME rail' \in [Redemptions -> RailAnswers \cup {"none"}], sent' \in SUBSET Redemptions,
               \A q \in Redemptions : q # r => rail'[q] = rail[q] /\ (q \in sent' => q \in sent),
               rail[r] # "none" => rail'[r] = rail[r],
               Moves(a), AgentOK(a)'
        PROVE  IInv' /\ NothingUndone
    <2>1. TypeOK'
      BY <1>1, <1>t, <1>u DEF TypeOK, OrdersTypeOK, ReconcilerTypeOK, JournalTypeOK, QueueTypeOK,
                              Payout!QueueTypeOK, Moves
    <2>2. ASSUME NEW q \in Redemptions
          PROVE  RedemptionOK(q)' /\ (Grounds(q) => Grounds(q)') /\ (rail[q] = "paid" => rail'[q] = "paid")
      <3>1. rail[q] # "none" => rail'[q] = rail[q]
        BY <1>1, <2>2
      <3>2. Grounds(q) => Grounds(q)'
        BY <1>s, <3>1 DEF Grounds
      <3>3. (rail'[q] # "none" \/ q \in sent') => Claimed(q)
        BY <1>1, <1>c, <1>s DEF RedemptionOK
      <3>4. Moved(Refund(q))' = Moved(Refund(q)) /\ ledger' = ledger /\ order' = order
        BY <1>u DEF Moved
      <3> QED
        BY <1>s, <3>1, <3>2, <3>3, <3>4 DEF RedemptionOK
    <2>3. NothingUndone
      BY <1>s, <1>u, <2>2 DEF NothingUndone
    <2> QED
      BY <1>1, <1>u, <2>1, <2>2, <2>3, AgentMoves DEF Moved
  <1>2. CASE SendPayout(a)
    <2>1. PICK answer \in RailAnswers : RailTakes(r, answer)
      BY <1>2, <1>r DEF SendPayout
    <2>2. /\ rail' \in [Redemptions -> RailAnswers \cup {"none"}] /\ rail'[r] \in RailAnswers
          /\ \A q \in Redemptions : q # r => rail'[q] = rail[q]
          /\ rail[r] # "none" => rail'[r] = rail[r]
      BY <1>t, <2>1 DEF RailTakes, TypeOK, RailAnswers
    <2>3. sent' = sent /\ sent' \in SUBSET Redemptions
      BY <1>2, <1>t DEF SendPayout, TypeOK
    <2>4. PICK pc \in {"ack", "paid", "refund"} :
             /\ AgentGoto(a, pc)
             /\ pc = "paid" => rail'[r] = "paid"
             /\ pc = "refund" => rail'[r] \notin {"submitted", "paid"}
      BY <1>2, <1>r DEF SendPayout, Upon
    <2>5. pc \in AgentStates
      BY <2>4 DEF AgentStates, Refunding, Paying
    <2>6. Moves(a) /\ agent'[a].pc = pc /\ agent'[a].req = r
      BY <1>t, <1>r, <2>4, <2>5, AgentGoes
    <2>7. pc = "refund" => Grounds(r)'
      BY <2>2, <2>4 DEF Grounds, RailAnswers
    <2>8. AgentOK(a)'
      BY <1>c, <1>s, <2>4, <2>6, <2>7 DEF AgentOK, Refunding, Paying
    <2> QED
      BY <1>1, <2>2, <2>3, <2>6, <2>8
  <1>3. CASE RailFails(a)
    <2>1. sent' \in SUBSET Redemptions /\ \A q \in Redemptions : q # r => (q \in sent' => q \in sent)
      BY <1>3, <1>r, <1>t DEF RailFails, TypeOK
    <2>2. rail' = rail /\ rail' \in [Redemptions -> RailAnswers \cup {"none"}]
      BY <1>3, <1>t DEF RailFails, TypeOK
    <2>3. Moves(a) /\ AgentOK(a)'
      BY <1>3, <1>r, <1>t, CatchGoes DEF RailFails
    <2> QED
      BY <1>1, <2>1, <2>2, <2>3
  <1> QED
    BY <1>2, <1>3

\* The rail on its own turns no payment into anything else.
LEMMA RailStepSafe ==
    ASSUME IInv, NEW r \in Redemptions, RailStep(r)
    PROVE  IInv' /\ NothingUndone
  <1> USE DEF reconcilerVars, queueVars, orderVars, payQueueVars
  <1>t. TypeOK /\ UNCHANGED <<reconcilerVars, orderVars, payQueueVars, agent>>
    BY DEF IInv, PInv, RailStep
  <1>1. /\ rail' \in [Redemptions -> RailAnswers \cup {"none"}] /\ sent' \subseteq sent
        /\ \A q \in Redemptions : q # r => rail'[q] = rail[q]
        /\ rail[r] \notin {"none", "submitted"} => rail'[r] = rail[r]
        /\ rail[r] # "none" \/ r \in sent
    <2>1. CASE /\ r \in sent /\ sent' = sent \ {r}
               /\ \E answer \in RailAnswers : RailTakes(r, answer)
      BY <1>t, <2>1 DEF TypeOK, RailTakes
    <2>2. CASE /\ rail[r] = "submitted" /\ sent' = sent
               /\ \E answer \in {"paid", "failed"} : rail' = [rail EXCEPT ![r] = answer]
      BY <1>t, <2>2 DEF TypeOK, RailAnswers
    <2> QED
      BY <2>1, <2>2 DEF RailStep
  <1>2. TypeOK'
    BY <1>1, <1>t DEF TypeOK, OrdersTypeOK, ReconcilerTypeOK, JournalTypeOK, QueueTypeOK,
                      Payout!QueueTypeOK
  <1>3. ASSUME NEW q \in Redemptions
        PROVE  /\ RedemptionOK(q)' /\ (rail[q] = "paid" => rail'[q] = "paid")
               /\ Claimed(q) => Claimed(q)'
               /\ Is(q, {"PAID"}) => Is(q, {"PAID"})'
               /\ Grounds(q) => Grounds(q)'
               /\ Taken(Redeem(q)) => Taken(Redeem(q))'
               /\ Receipted(q) => Receipted(q)'
    <2>1. RedemptionOK(q)
      BY DEF IInv, PInv
    <2>2. rail[q] \notin {"none", "submitted"} => rail'[q] = rail[q]
      BY <1>1
    <2>3. (rail'[q] # "none" \/ q \in sent') => (rail[q] # "none" \/ q \in sent)
      BY <1>1
    <2> QED
      BY <1>t, <2>1, <2>2, <2>3
         DEF RedemptionOK, Claimed, Grounds, Receipted, Is, OrderIn, Taken, Moved
  <1>4. NothingUndone
    BY <1>t, <1>3 DEF NothingUndone
  <1>5. OInv'
    BY <1>2, <1>t, AgentsKeepOrders DEF IInv, TypeOK, Moved
  <1>6. ASSUME NEW b \in Agents
        PROVE  AgentOK(b)'
    <2>1. AgentOK(b) /\ agent' = agent
      BY <1>t DEF IInv, PInv
    <2>2. CASE agent[b].pc = "idle"
      BY <2>1, <2>2 DEF AgentOK, Refunding, Paying
    <2>3. CASE agent[b].pc # "idle"
      <3>1. PICK q \in Redemptions : q = agent[b].req
        BY <2>1, <2>3 DEF AgentOK
      <3> QED
        BY <1>4, <2>1, <3>1 DEF AgentOK, NothingUndone
    <2> QED
      BY <2>2, <2>3
  <1> QED
    BY <1>2, <1>3, <1>4, <1>5, <1>6 DEF IInv, PInv

-----------------------------------------------------------------------------
(* Deciding on a redemption.                                               *)

\* The order of r, once debited, gets the row next.
LEMMA OrderMove ==
    ASSUME IInv, NEW a \in Agents, NEW r \in Redemptions, NEW next \in Order,
           order' = [order EXCEPT ![Redeem(r)] = next],
           Receipted(r), ~Is(r, {"REQUESTED"}), next.receipt, next.status # "REQUESTED",
           next.uses = order[Redeem(r)].uses,
           Claimed(r) => next.status \in {"PROCESSING", "PAID"},
           Is(r, {"REJECTED"}) => next.status = "REJECTED",
           Is(r, {"PAID"}) => next.status = "PAID",
           next.status = "PAID" => rail[r] = "paid",
           next.refunded => Refund(r) \in ledger,
           UNCHANGED <<reconcilerVars, ledger, inflight, call, rail, sent, payQueueVars>>,
           Moves(a),
           \/ agent'[a] = Free
           \/ /\ agent'[a].req = r
              /\ \/ agent'[a].pc \notin Refunding \cup Paying
                 \/ agent'[a].pc = "refund" /\ next.status = "REJECTED"
                 \/ agent'[a].pc = "send" /\ next.status = "PROCESSING"
    PROVE  IInv' /\ NothingUndone
  <1> USE DEF reconcilerVars, queueVars, payQueueVars
  <1>t. TypeOK /\ next # None
    BY OrderAssumption DEF IInv, PInv
  <1>k. PICK k \in OrderKeys : k = Redeem(r)
    BY KeyFacts
  <1>1. /\ order' \in [OrderKeys -> Order \cup {None}] /\ order'[k] = next
        /\ \A j \in OrderKeys : j # k => order'[j] = order[j]
    BY <1>t, <1>k DEF TypeOK, OrdersTypeOK
  <1>2. TypeOK'
    BY <1>1, <1>t DEF TypeOK, OrdersTypeOK, ReconcilerTypeOK, JournalTypeOK, QueueTypeOK,
                      Payout!QueueTypeOK, Moves
  <1>3. \A j \in OrderKeys : order'[j] = order[j] \/ Decides(j)
    BY <1>t, <1>k, <1>1 DEF Decides, Taken, Receipted, Is, OrderIn
  <1>4. Taken(Redeem(r))' /\ Receipted(r)' /\ \A S : Is(r, S)' <=> next.status \in S
    BY <1>t, <1>k, <1>1 DEF Taken, Receipted, Is, OrderIn
  <1>5. ASSUME NEW q \in Redemptions
        PROVE  /\ RedemptionOK(q)' /\ (Claimed(q) => Claimed(q)') /\ (Grounds(q) => Grounds(q)')
               /\ (Taken(Redeem(q)) => Taken(Redeem(q))') /\ (Receipted(q) => Receipted(q)')
               /\ (Is(q, {"PAID"}) => Is(q, {"PAID"})')
    <2>1. RedemptionOK(q)
      BY DEF IInv, PInv
    <2>2. CASE q = r
      <3>1. (Claimed(r) => Claimed(r)') /\ (Grounds(r) => Grounds(r)')
        BY <1>4 DEF Claimed, Grounds
      <3>2. (Is(r, {"PAID"})' => rail'[r] = "paid") /\ (Is(r, {"PAID"}) => Is(r, {"PAID"})')
        BY <1>4
      <3>3. order'[Redeem(r)].refunded => Refund(r) \in ledger'
        BY <1>k, <1>1
      <3> QED
        BY <1>4, <2>1, <2>2, <3>1, <3>2, <3>3 DEF RedemptionOK, Moved
    <2>3. CASE q # r
      <3>1. PICK j \in OrderKeys : j = Redeem(q) /\ j # k
        BY <1>k, <2>3, KeyFacts
      <3>2. order'[j] = order[j]
        BY <1>1, <3>1
      <3> QED
        BY <2>1, <3>1, <3>2 DEF RedemptionOK, Claimed, Grounds, Receipted, Is, OrderIn, Taken, Moved
    <2> QED
      BY <2>2, <2>3
  <1>6. NothingUndone
    BY <1>5 DEF NothingUndone
  <1>7. AgentOK(a)'
    <2>1. CASE agent'[a] = Free
      BY <2>1, RestingKnows
    <2>2. CASE agent'[a].req = r /\ agent'[a].pc \notin Refunding \cup Paying
      BY <2>2, WaitingKnows
    <2>3. CASE agent'[a].req = r /\ agent'[a].pc = "refund" /\ next.status = "REJECTED"
      BY <1>4, <2>3 DEF AgentOK, Refunding, Paying, Grounds
    <2>4. CASE agent'[a].req = r /\ agent'[a].pc = "send" /\ next.status = "PROCESSING"
      BY <1>4, <2>4 DEF AgentOK, Refunding, Paying, Claimed
    <2> QED
      BY <2>1, <2>2, <2>3, <2>4
  <1> QED
    BY <1>2, <1>3, <1>5, <1>6, <1>7, AgentMoves DEF Moved

\* A redemption past REQUESTED has its debit on record, unless it was refused.
LEMMA Recorded ==
    ASSUME IInv, NEW r \in Redemptions, Is(r, {"UNDER_REVIEW", "APPROVED", "PROCESSING", "PAID"})
    PROVE  Receipted(r) /\ order[Redeem(r)] \in Order
  <1>1. PICK k \in OrderKeys : k = Redeem(r)
    BY KeyFacts
  <1>2. OrderOK(k) /\ OrdersTypeOK
    BY DEF IInv, OInv
  <1> QED
    BY <1>1, <1>2 DEF OrderOK, OrdersTypeOK, Receipted, Is, OrderIn, Taken

\* Every transition is a compare-and-set.
LEMMA DecideSafe ==
    ASSUME IInv, NEW a \in Agents,
           \/ \E r \in Redemptions : Approve(a, r) \/ Reject(a, r)
           \/ UndoApproval(a) \/ ClaimPayout(a) \/ RecordPaid(a)
    PROVE  IInv' /\ NothingUndone
  <1>t. /\ TypeOK /\ AgentOK(a) /\ agent \in [Agents -> Agent] /\ agent[a] \in Agent
    BY DEF IInv, PInv, TypeOK
  <1>u. UNCHANGED <<reconcilerVars, ledger, inflight, call, rail, sent, payQueueVars>>
    BY DEF Approve, Reject, Decide, UndoApproval, ClaimPayout, RecordPaid
  <1>q. Payout!QueueTypeOK'
    BY <1>t, <1>u DEF TypeOK, Payout!QueueTypeOK, payQueueVars
  <1>w. /\ {"publish", "refund", "send", "ack"} \subseteq AgentStates
        /\ {"publish", "ack"} \cap (Refunding \cup Paying) = {}
    BY DEF AgentStates, Refunding, Paying
  \* The compare-and-set moves the row of r from one status to the other.
  <1>m. ASSUME NEW r \in Redemptions,
               NEW from \in {"UNDER_REVIEW", "APPROVED", "PROCESSING"}, Is(r, {from}),
               NEW to \in {"UNDER_REVIEW", "APPROVED", "REJECTED", "PROCESSING", "PAID"},
               from = "PROCESSING" => to = "PAID",
               to = "PAID" => rail[r] = "paid",
               SetOrder(Redeem(r), to), Moves(a),
               \/ agent'[a] = Free
               \/ /\ agent'[a].req = r
                  /\ \/ agent'[a].pc \notin Refunding \cup Paying
                     \/ agent'[a].pc = "refund" /\ to = "REJECTED"
                     \/ agent'[a].pc = "send" /\ to = "PROCESSING"
        PROVE  IInv' /\ NothingUndone
    <2> DEFINE next == [order[Redeem(r)] EXCEPT !.status = to]
    <2>1. Receipted(r) /\ order[Redeem(r)] \in Order
      BY <1>m, Recorded DEF Is, OrderIn
    <2>2. /\ next \in Order /\ next.status = to /\ next.receipt
          /\ next.uses = order[Redeem(r)].uses /\ next.refunded = order[Redeem(r)].refunded
      BY <1>m, <2>1 DEF Order, OrderStatuses, Receipted
    <2>3. order' = [order EXCEPT ![Redeem(r)] = next]
      BY <1>m DEF SetOrder
    <2>4. next.refunded => Refund(r) \in ledger
      BY <2>1, <2>2 DEF IInv, PInv, RedemptionOK, Receipted
    <2>5. ~Is(r, {"REQUESTED", "REJECTED"}) /\ (Claimed(r) => from = "PROCESSING")
      BY <1>m DEF Is, OrderIn, Claimed
    <2>6. ~Is(r, {"REQUESTED"}) /\ ~Is(r, {"REJECTED"}) /\ ~Is(r, {"PAID"})
      BY <1>m, <2>5 DEF Is, OrderIn
    <2> QED
      BY <1>m, <1>u, <2>1, <2>2, <2>3, <2>4, <2>5, <2>6, OrderMove
  \* One that finds another status changes nothing.
  <1>n. ASSUME UNCHANGED order, Moves(a), AgentOK(a)'
        PROVE  IInv' /\ NothingUndone
    BY <1>n, <1>q, <1>u, QuietMove DEF orderVars
  <1>1. ASSUME NEW r \in Redemptions, Approve(a, r)
        PROVE  IInv' /\ NothingUndone
    <2>1. Is(r, {"UNDER_REVIEW"}) /\ SetOrder(Redeem(r), "APPROVED")
      BY <1>1 DEF Approve, Decide
    <2>2. Moves(a) /\ agent'[a].pc = "publish" /\ agent'[a].req = r
      BY <1>1, <1>t, <1>w, AgentGoes DEF Approve, Decide
    <2> QED
      BY <1>m, <1>w, <2>1, <2>2
  <1>2. ASSUME NEW r \in Redemptions, Reject(a, r)
        PROVE  IInv' /\ NothingUndone
    <2>1. Is(r, {"UNDER_REVIEW"}) /\ SetOrder(Redeem(r), "REJECTED")
      BY <1>2 DEF Reject, Decide
    <2>2. Moves(a) /\ agent'[a].pc = "refund" /\ agent'[a].req = r
      BY <1>2, <1>t, <1>w, AgentGoes DEF Reject, Decide
    <2> QED
      BY <1>m, <2>1, <2>2
  <1>3. CASE UndoApproval(a)
    <2>1. PICK r \in Redemptions : r = agent[a].req
      BY <1>3, <1>t DEF UndoApproval, AgentAt, AgentOK
    <2>2. Moves(a) /\ agent'[a] = Free
      BY <1>3, <1>t, AgentGoes DEF UndoApproval
    <2>3. CASE Is(r, {"APPROVED"})
      BY <1>3, <1>m, <2>1, <2>2, <2>3 DEF UndoApproval, CompareAndSet
    <2>4. CASE ~Is(r, {"APPROVED"})
      BY <1>3, <1>n, <2>1, <2>2, <2>4, RestingKnows DEF UndoApproval, CompareAndSet
    <2> QED
      BY <2>3, <2>4
  <1>4. CASE ClaimPayout(a)
    <2>1. PICK r \in Redemptions : r = agent[a].req
      BY <1>4, <1>t DEF ClaimPayout, AgentAt, AgentOK
    <2>3. CASE Is(r, {"APPROVED"})
      <3>1. Moves(a) /\ agent'[a].pc = "send" /\ agent'[a].req = r
        BY <1>4, <1>t, <1>w, <2>1, <2>3, AgentGoes DEF ClaimPayout
      <3> QED
        BY <1>4, <1>m, <2>1, <2>3, <3>1 DEF ClaimPayout, CompareAndSet
    <2>4. CASE ~Is(r, {"APPROVED"})
      <3>1. Moves(a) /\ agent'[a].pc = "ack" /\ agent'[a].req = r
        BY <1>4, <1>t, <1>w, <2>1, <2>4, AgentGoes DEF ClaimPayout
      <3> QED
        BY <1>4, <1>n, <1>w, <2>1, <2>4, <3>1, WaitingKnows DEF ClaimPayout, CompareAndSet
    <2> QED
      BY <2>3, <2>4
  <1>5. CASE RecordPaid(a)
    <2>1. PICK r \in Redemptions : r = agent[a].req /\ rail[r] = "paid"
      BY <1>5, <1>t DEF RecordPaid, AgentAt, AgentOK
    <2>2. Moves(a) /\ agent'[a].pc = "ack" /\ agent'[a].req = r
      BY <1>5, <1>t, <1>w, <2>1, AgentGoes DEF RecordPaid
    <2>3. CASE Is(r, {"PROCESSING"})
      BY <1>5, <1>m, <1>w, <2>1, <2>2, <2>3 DEF RecordPaid, CompareAndSet
    <2>4. CASE ~Is(r, {"PROCESSING"})
      BY <1>5, <1>n, <1>w, <2>1, <2>2, <2>4, WaitingKnows DEF RecordPaid, CompareAndSet
    <2> QED
      BY <2>3, <2>4
  <1> QED
    BY <1>1, <1>2, <1>3, <1>4, <1>5

-----------------------------------------------------------------------------
(* The refund.                                                             *)

\* What the engine, the journal and the row get of a refund.
LEMMA RefundSafe ==
    ASSUME IInv, NEW a \in Agents,
           \/ JournalRefund(a) \/ CreditRefund(a) \/ RecordUncredited(a)
           \/ RecordCredited(a) \/ MarkRefunded(a)
    PROVE  IInv' /\ NothingUndone
  <1> USE DEF payQueueVars
  <1>t. /\ TypeOK /\ OrdersTypeOK /\ AgentOK(a) /\ JournalTypeOK(Payloads)
        /\ agent \in [Agents -> Agent] /\ agent[a] \in Agent
    BY DEF IInv, PInv, TypeOK, OrdersTypeOK, ReconcilerTypeOK
  <1>r. PICK r \in Redemptions : r = agent[a].req
    BY <1>t DEF JournalRefund, CreditRefund, RecordUncredited, RecordCredited, MarkRefunded,
                AgentAt, AgentOK
  <1>w. {"credit", "credited", "uncredited", "mark"} \subseteq AgentStates
    BY DEF AgentStates, Refunding
  <1>k. PICK k \in Keys : k = Refund(r) /\ k \notin OrderKeys
    BY KeyFacts
  <1>g. Grounds(r) /\ Taken(Redeem(r)) /\ Receipted(r)
    BY <1>r, <1>t DEF JournalRefund, CreditRefund, RecordUncredited, RecordCredited, MarkRefunded,
                      AgentAt, AgentOK, Refunding
  \* Journal and ledger may change; orders and rail do not.
  <1>m. ASSUME UNCHANGED <<queueVars, con, call, order, rail, sent, payQueueVars>>,
               JournalTypeOK(Payloads)', ledger \subseteq ledger',
               ledger' \subseteq Keys, inflight' \subseteq Keys,
               \A j \in Keys : j # k /\ Moved(j)' => Moved(j),
               \A j \in Keys : row'[j] = row[j] \/ (RowOK(j)' /\ ~HasStatus(j, {"ABANDONED"})'),
               Moves(a), AgentOK(a)'
        PROVE  IInv' /\ NothingUndone
    <2>1. TypeOK'
      BY <1>m, <1>t DEF TypeOK, OrdersTypeOK, ReconcilerTypeOK, QueueTypeOK, queueVars,
                        Payout!QueueTypeOK, Moves
    <2>2. NothingUndone
      BY <1>m DEF NothingUndone, Claimed, Grounds, Receipted, Is, OrderIn, Taken
    <2>3. ASSUME NEW q \in Redemptions
          PROVE  RedemptionOK(q)'
      <3>1. RedemptionOK(q)
        BY DEF IInv, PInv
      <3>2. PICK j \in Keys : j = Refund(q)
        BY KeyFacts
      <3>3. Moved(j)' => Moved(j) \/ q = r
        BY <1>k, <1>m, <3>2, KeyFacts
      <3>4. Moved(j)' => Grounds(q) /\ Receipted(q)
        BY <1>g, <3>1, <3>2, <3>3 DEF RedemptionOK
      <3> QED
        BY <1>m, <3>1, <3>2, <3>4
           DEF RedemptionOK, Claimed, Grounds, Receipted, Is, OrderIn, Taken
    <2>4. \A j \in OrderKeys : Moved(j)' => Moved(j)
      BY <1>k, <1>m, KeyFacts
    <2> QED
      BY <1>m, <2>1, <2>2, <2>3, <2>4, AgentMoves
  <1>s. ASSUME UNCHANGED <<order, rail>>, ledger \subseteq ledger'
        PROVE  Grounds(r)' /\ Taken(Redeem(r))' /\ Receipted(r)' /\ (k \in ledger => k \in ledger')
    BY <1>g, <1>s DEF Grounds, Receipted, Is, OrderIn, Taken
  <1>1. CASE JournalRefund(a)
    <2>1. CreateIntentIfAbsent(k, "payload") /\ "payload" \in Payloads
      BY <1>1, <1>r, <1>k DEF JournalRefund, Payloads
    <2>2. JournalTypeOK(Payloads)'
      BY <1>t, <2>1, JournalWrites
    <2>3. \A j \in Keys : row'[j] = row[j] \/ (RowOK(j)' /\ ~HasStatus(j, {"ABANDONED"})')
      BY <1>t, <2>1 DEF CreateIntentIfAbsent, JournalTypeOK, RowOK, HasStatus, Journaled
    <2>4. UNCHANGED <<queueVars, con, call, order, ledger, inflight, rail, sent, payQueueVars>>
      BY <1>1 DEF JournalRefund, orderVars
    <2>5. Moves(a) /\ agent'[a].pc = "credit" /\ agent'[a].req = r
      BY <1>1, <1>r, <1>t, <1>w, AgentGoes DEF JournalRefund
    <2>6. AgentOK(a)'
      BY <1>s, <2>4, <2>5 DEF AgentOK, Refunding, Paying
    <2> QED
      BY <1>m, <1>t, <2>2, <2>3, <2>4, <2>5, <2>6 DEF Moved, OrdersTypeOK
  <1>2. CASE CreditRefund(a)
    <2>1. /\ EngineCommits(k) \/ EngineTimesOut(k) \/ EngineRefuses(k)
          /\ UNCHANGED <<row, queueVars, con, call, order, rail, sent, payQueueVars>>
      BY <1>2, <1>r, <1>k DEF CreditRefund, reconcilerVars, queueVars
    <2>2. /\ ledger \subseteq ledger' /\ ledger' \subseteq Keys /\ inflight' \subseteq Keys
          /\ \A j \in Keys : j # k /\ Moved(j)' => Moved(j)
          /\ EngineCommits(k) => k \in ledger'
      BY <1>t, <2>1, EngineAnswers
    <2>3. PICK pc \in {"credited", "uncredited"} :
             AgentGoto(a, pc) /\ (pc = "credited" => EngineCommits(k))
      BY <1>2, <1>r, <1>k DEF CreditRefund
    <2>4. pc \in AgentStates
      BY <1>w
    <2>5. Moves(a) /\ agent'[a].pc = pc /\ agent'[a].req = r
      BY <1>r, <1>t, <2>3, <2>4, AgentGoes
    <2>6. AgentOK(a)'
      BY <1>k, <1>s, <2>1, <2>2, <2>3, <2>5 DEF AgentOK, Refunding, Paying
    <2>7. JournalTypeOK(Payloads)'
      BY <1>t, <2>1 DEF JournalTypeOK
    <2> QED
      BY <1>m, <2>1, <2>2, <2>5, <2>6, <2>7
  <1>3. ASSUME NEW status \in {"FAILED", "SUCCEEDED"}, MarkTerminal(k, status),
               status = "SUCCEEDED" => k \in ledger,
               UNCHANGED <<queueVars, con, orderVars, rail, sent, payQueueVars>>,
               Moves(a), AgentOK(a)'
        PROVE  IInv' /\ NothingUndone
    <2>1. Writes(k, {status}) /\ JournalTypeOK(Payloads)'
      BY <1>3, <1>t, RowAssumption, StatusWrites, JournalWrites
         DEF Statuses, OpenStatuses, FinalStatuses
    <2>2. \A j \in Keys : row'[j] = row[j] \/ RowOK(j)'
      BY <1>3, <2>1, RowWritten DEF IInv, orderVars
    <2>3. \A j \in Keys : row'[j] = row[j] \/ ~HasStatus(j, {"ABANDONED"})'
      BY <1>3, <2>1 DEF Writes, HasStatus, Journaled
    <2> QED
      BY <1>3, <1>m, <1>t, <2>1, <2>2, <2>3 DEF orderVars, Moved, OrdersTypeOK
  <1>4. CASE RecordUncredited(a)
    <2>1. Moves(a) /\ AgentOK(a)'
      BY <1>4, <1>r, <1>t, AfterRefundGoes DEF RecordUncredited
    <2> QED
      BY <1>3, <1>4, <1>r, <1>k, <2>1 DEF RecordUncredited
  <1>5. CASE RecordCredited(a)
    <2>1. k \in ledger
      BY <1>5, <1>r, <1>t, <1>k DEF RecordCredited, AgentAt, AgentOK
    <2>2. Moves(a) /\ agent'[a].pc = "mark" /\ agent'[a].req = r
      BY <1>5, <1>r, <1>t, <1>w, AgentGoes DEF RecordCredited
    <2>3. AgentOK(a)'
      BY <1>5, <1>k, <1>s, <2>1, <2>2 DEF RecordCredited, orderVars, AgentOK, Refunding, Paying
    <2> QED
      BY <1>3, <1>5, <1>r, <1>k, <2>1, <2>2, <2>3 DEF RecordCredited
  <1>6. CASE MarkRefunded(a)
    <2> DEFINE next == [order[Redeem(r)] EXCEPT !.refunded = TRUE]
    <2>1. Moves(a) /\ (agent'[a] = Free \/ (agent'[a].pc = "park" /\ agent'[a].req = r))
      BY <1>6, <1>r, <1>t, AfterRefundGoes DEF MarkRefunded
    <2>2. PICK i \in OrderKeys : i = Redeem(r)
      BY KeyFacts
    <2>3. order[i] \in Order /\ order[i].receipt /\ order[i].status # "REQUESTED"
      BY <1>g, <1>t, <2>2 DEF IInv, OInv, OrderOK, OrdersTypeOK, Taken, Receipted
    <2>4. /\ next \in Order /\ next.status = order[i].status /\ next.receipt
          /\ next.status # "REQUESTED" /\ next.uses = order[Redeem(r)].uses
      BY <2>2, <2>3 DEF Order
    <2>5. order' = [order EXCEPT ![Redeem(r)] = next]
      BY <1>6, <1>r DEF MarkRefunded
    <2>6. Refund(r) \in ledger
      BY <1>6, <1>r, <1>t DEF MarkRefunded, AgentAt, AgentOK
    <2>7. /\ ~Is(r, {"REQUESTED"}) /\ (Claimed(r) => next.status \in {"PROCESSING", "PAID"})
          /\ (Is(r, {"REJECTED"}) => next.status = "REJECTED")
          /\ (Is(r, {"PAID"}) => next.status = "PAID")
          /\ (next.status = "PAID" => rail[r] = "paid")
      <3>1. RedemptionOK(r)
        BY DEF IInv, PInv
      <3> QED
        BY <1>g, <2>2, <2>3, <2>4, <3>1 DEF Is, OrderIn, Claimed, RedemptionOK
    <2>8. agent'[a] = Free \/ (agent'[a].req = r /\ agent'[a].pc \notin Refunding \cup Paying)
      BY <2>1 DEF Refunding, Paying
    <2>9. UNCHANGED <<reconcilerVars, ledger, inflight, call, rail, sent, payQueueVars>>
      BY <1>6 DEF MarkRefunded
    <2> HIDE DEF next
    <2> QED
      BY <1>g, <2>1, <2>2, <2>4, <2>5, <2>6, <2>7, <2>8, <2>9, OrderMove
  <1> QED
    BY <1>1, <1>2, <1>4, <1>5, <1>6

-----------------------------------------------------------------------------
(* The invariant, and what it establishes.                                 *)

\* Nothing is taken, moved, sent or held at the start.
LEMMA InitSafe == Init => IInv
  <1> SUFFICES ASSUME Init
               PROVE  IInv
    OBVIOUS
  <1>1. OInv
    BY OrdersInitSafe DEF Init
  <1>2. Free \in Agent /\ Free.pc = "idle"
    BY DeliveriesAssumption DEF Free, Agent, AgentStates
  <1>3. TypeOK
    BY <1>1, <1>2 DEF Init, OInv, TypeOK, Payout!QueueInit, Payout!QueueTypeOK
  <1>4. \A r \in Redemptions : RedemptionOK(r)
    <2> SUFFICES ASSUME NEW r \in Redemptions
                 PROVE  RedemptionOK(r)
      OBVIOUS
    <2>1. rail[r] = "none" /\ r \notin sent /\ ledger = {} /\ inflight = {} /\ ~Taken(Redeem(r))
      BY KeyFacts DEF Init, OrdersInit, Taken
    <2> QED
      BY <2>1 DEF RedemptionOK, Moved, Is, OrderIn
  <1>5. \A a \in Agents : AgentOK(a)
    BY <1>2 DEF Init, AgentOK, Refunding, Paying
  <1> QED
    BY <1>1, <1>3, <1>4, <1>5 DEF IInv, PInv

\* The invariant is inductive, and no step takes back what an agent relies on.
LEMMA StepSafe == IInv /\ [Next]_vars => IInv' /\ NothingUndone
  <1> SUFFICES ASSUME IInv, [Next]_vars
               PROVE  IInv' /\ NothingUndone
    OBVIOUS
  <1>1. CASE OrdersStep /\ UNCHANGED payVars
    <2>1. OInv' /\ OrdersOnly
      BY <1>1, OrdersStepSafe DEF OrdersStep, IInv
    <2> QED
      BY <1>1, <2>1, OrdersKeepRedemptions DEF IInv
  <1>2. ASSUME NEW a \in Agents, AgentStep(a)
        PROVE  IInv' /\ NothingUndone
    BY <1>2, BrokerSafe, ReadSafe, RailSafe, DecideSafe, RefundSafe
       DEF AgentStep, OperatorStep, WorkerStep, RefundStep
  <1>3. ASSUME NEW r \in Redemptions, RailStep(r)
        PROVE  IInv' /\ NothingUndone
    BY <1>3, RailStepSafe
  <1>4. CASE UNCHANGED vars
    <2>1. OrdersOnly /\ OrdersTypeOK' /\ UNCHANGED payVars
      BY <1>4 DEF vars, payVars, payQueueVars, OrdersOnly, Moved, IInv, OInv, OrdersTypeOK,
                  ReconcilerTypeOK, JournalTypeOK, QueueTypeOK
    <2>2. OInv'
      BY <1>4, <2>1, AgentsKeepOrders DEF vars, IInv, queueVars, Moved
    <2> QED
      BY <2>1, <2>2, OrdersKeepRedemptions DEF IInv
  <1> QED
    BY <1>1, <1>2, <1>3, <1>4 DEF Next

\* The strengthened invariant holds of the redemptions.
THEOREM Invariance == Spec => []IInv
  BY InitSafe, StepSafe, PTL DEF Spec

\* Every variable keeps its type.
THEOREM TypeCorrect == Spec => []TypeOK
  <1>1. IInv => TypeOK
    BY DEF IInv, PInv
  <1> QED
    BY <1>1, Invariance, PTL

\* A journal row shown as SUCCEEDED has its movement in the engine's ledger,
\* whichever of the request, the reconciler or the refund wrote it.
THEOREM SettledRowsAreCommitted == Spec => []SettledIsCommitted
  <1>1. IInv => SettledIsCommitted
    BY DEF IInv, OInv, RowOK, SettledIsCommitted
  <1> QED
    BY <1>1, Invariance, PTL

\* An order row that names a ledger transaction names one that exists.
THEOREM ReceiptsAreCommitted == Spec => []ReceiptIsCommitted
  <1>1. IInv => ReceiptIsCommitted
    BY DEF IInv, OInv, OrderOK, ReceiptIsCommitted
  <1> QED
    BY <1>1, Invariance, PTL

\* An order shown as refused was not debited or credited, and will not be.
THEOREM RefusedOrdersAreNotMade == Spec => []RefusedIsNotMade
  <1>1. IInv => RefusedIsNotMade
    BY DEF IInv, OInv, OrderOK, RefusedIsNotMade, OrderIn
  <1> QED
    BY <1>1, Invariance, PTL

\* A player is credited once per grant period and once per claim attempt.
THEOREM CreditsAreDistinct == Spec => []OneCreditPerPeriod
  <1>1. ASSUME IInv, NEW g \in Calls, NEW h \in Calls, g # h, Moved(Grant(g)), Moved(Grant(h))
        PROVE  /\ Taken(Grant(g)) /\ Taken(Grant(h))
               /\ order[Grant(g)].uses \cap order[Grant(h)].uses = {}
    <2>1. PICK j \in OrderKeys, k \in OrderKeys : j = Grant(g) /\ k = Grant(h) /\ j # k
      BY <1>1, KeyFacts
    <2> QED
      BY <1>1, <2>1 DEF IInv, OInv, OrderOK
  <1>2. IInv => OneCreditPerPeriod
    BY <1>1 DEF OneCreditPerPeriod
  <1> QED
    BY <1>2, Invariance, PTL

\* No money leaves for the rail or goes back to the player before its debit.
THEOREM MoneyOutFollowsTheDebit == Spec => []MoneyOutFollowsDebit
  <1>1. ASSUME IInv, NEW r \in Redemptions,
               rail[r] # "none" \/ r \in sent \/ Moved(Refund(r))
        PROVE  Redeem(r) \in ledger
    <2>1. RedemptionOK(r)
      BY <1>1 DEF IInv, PInv
    <2>2. Claimed(r) => Is(r, {"UNDER_REVIEW", "APPROVED", "PROCESSING", "PAID"})
      BY DEF Claimed, Is, OrderIn
    <2>3. Receipted(r)
      BY <1>1, <2>1, <2>2, Recorded DEF RedemptionOK
    <2>4. PICK k \in OrderKeys : k = Redeem(r)
      BY KeyFacts
    <2> QED
      BY <1>1, <2>3, <2>4 DEF IInv, OInv, OrderOK, Receipted
  <1>2. IInv => MoneyOutFollowsDebit
    BY <1>1 DEF MoneyOutFollowsDebit
  <1> QED
    BY <1>2, Invariance, PTL

\* A redemption that is given back is not paid out by the rail, now or later.
THEOREM PaidExcludesTheRefund == Spec => []PaidExcludesRefund
  <1>1. ASSUME IInv, NEW r \in Redemptions, Moved(Refund(r))
        PROVE  /\ rail[r] \notin {"submitted", "paid"}
               /\ r \in sent => rail[r] \in {"refused", "failed"}
    <2>1. RedemptionOK(r) /\ Grounds(r)
      BY <1>1 DEF IInv, PInv, RedemptionOK
    <2>2. Is(r, {"REJECTED"}) => ~Claimed(r)
      BY DEF Claimed, Is, OrderIn
    <2> QED
      BY <2>1, <2>2 DEF RedemptionOK, Grounds
  <1>2. IInv => PaidExcludesRefund
    BY <1>1 DEF PaidExcludesRefund
  <1> QED
    BY <1>2, Invariance, PTL

\* No refund is replayed as the debit its journal row calls it: only open orders
\* that their request has let go of are ever driven.
THEOREM RefundsAreNotReplayed == Spec => []RefundIsNotReplayed
  <1>1. ASSUME IInv, NEW c \in Consumers, NEW r \in Redemptions,
               At(c, "call"), con[c].key = Refund(r)
        PROVE  FALSE
    <2>1. PICK k \in Keys : k = Refund(r) /\ k \notin OrderKeys
      BY KeyFacts
    <2>2. HasInHand(c, k)
      BY <1>1, <2>1 DEF At, HasInHand
    <2> QED
      BY <1>1, <2>1, <2>2 DEF IInv, OInv, Driven, Queued, HandedOver
  <1>2. IInv => RefundIsNotReplayed
    BY <1>1 DEF RefundIsNotReplayed
  <1> QED
    BY <1>2, Invariance, PTL

\* A redemption shown as PAID was paid by the rail, and one shown as refunded has
\* its refund in the ledger.
THEOREM OutcomesAreTrue == Spec => []OutcomeIsTrue
  <1>1. IInv => OutcomeIsTrue
    BY DEF IInv, PInv, RedemptionOK, OutcomeIsTrue
  <1> QED
    BY <1>1, Invariance, PTL

\* A redemption claimed for payout is never handed back to review.
THEOREM ClaimedRedemptionsStay == Spec => ClaimedNeverReturns
  <1>1. NothingUndone =>
           \A r \in Redemptions :
              Is(r, {"PROCESSING", "PAID"}) => Is(r, {"PROCESSING", "PAID"})'
    BY DEF NothingUndone, Claimed
  <1> QED
    BY <1>1, Invariance, StepSafe, PTL DEF Spec, ClaimedNeverReturns
-----------------------------------------------------------------------------
(* Money out implements its abstract specification: each step debits, pays *)
(* out, gives back or reports one redemption, or shows none of it.         *)

\* The shapes of a step, as the balance, the rail and the orders see it.
OneMovement == \E k : ledger' = ledger \cup {k}
OneAnswer == \E r \in Redemptions : \A q \in Redemptions : q # r => rail'[q] = rail[q]
OneOrder == \E k : \A j \in OrderKeys : j # k => order'[j] = order[j]

Shape ==
    \/ UNCHANGED <<ledger, rail, order>>
    \/ OneMovement /\ UNCHANGED <<rail, order>>
    \/ OneAnswer /\ UNCHANGED <<ledger, order>>
    \/ OneOrder /\ UNCHANGED <<ledger, rail>>

\* The engine commits one movement at a time.
LEMMA OneCommits ==
    ASSUME NEW k, EngineCommits(k) \/ EngineTimesOut(k) \/ EngineRefuses(k)
    PROVE  ledger' = ledger \/ OneMovement
  BY DEF EngineCommits, EngineTimesOut, EngineRefuses, OneMovement

\* A request, a replay, a resurrection or a sweep.
LEMMA OrdersShape ==
    ASSUME TypeOK, OrdersStep, UNCHANGED payVars
    PROVE  Shape
  <1> USE DEF payVars, orderVars, reconcilerVars
  <1>o. ASSUME NEW k, NEW next, order' = [order EXCEPT ![k] = next]
        PROVE  OneOrder
    BY <1>o DEF TypeOK, OrdersTypeOK, OneOrder
  <1>1. ASSUME NEW h \in Calls, CallStep(h)
        PROVE  Shape
    <2>1. CASE CallEngine(h)
      <3>1. ledger' = ledger \/ OneMovement
        BY <2>1, OneCommits DEF CallEngine
      <3> QED
        BY <2>1, <3>1 DEF CallEngine, Shape
    <2>2. CASE TakeRow(h)
      <3>1. order' = order \/ OneOrder
        BY <2>2, <1>o DEF TakeRow
      <3> QED
        BY <2>2, <3>1 DEF TakeRow, Shape
    <2>3. CASE Accept(h)
      <3>1. OneOrder
        BY <2>3 DEF Accept, TypeOK, OrdersTypeOK, OneOrder
      <3> QED
        BY <2>3, <3>1 DEF Accept, Shape
    <2>4. CASE Refuse(h)
      <3>1. OneOrder
        BY <2>4 DEF Refuse, SetOrder, TypeOK, OrdersTypeOK, OneOrder
      <3> QED
        BY <2>4, <3>1 DEF Refuse, Shape
    <2> QED
      BY <1>1, <2>1, <2>2, <2>3, <2>4
         DEF CallStep, HandlerStep, StartRedeem, StartClaim, Journal, RecordCommit,
             RecordFailedCall, PublishLost, CrashCall, Shape
  <1>2. ASSUME NEW c \in Consumers, ConsumerStep(c)
        PROVE  Shape
    <2>1. CASE Replayed(c)
      <3>1. ledger' = ledger \/ OneMovement
        BY <2>1, OneCommits DEF Replayed
      <3> QED
        BY <2>1, <3>1 DEF Replayed, Shape
    <2> QED
      BY <1>2, <2>1 DEF ConsumerStep, ClaimOrder, Shape
  <1>3. ASSUME NEW k \in Keys, LateCommit(k)
        PROVE  Shape
    BY <1>3, OneCommits DEF LateCommit, CommitsLate, Shape
  <1>4. ASSUME NEW k \in Keys, Replay(k) \/ Sweep(k)
        PROVE  Shape
    BY <1>4 DEF Replay, Sweep, Shape
  <1> QED
    BY <1>1, <1>2, <1>3, <1>4 DEF OrdersStep

\* An operator, a payout worker, or the rail on its own.
LEMMA AgentsShape ==
    ASSUME TypeOK, (\E a \in Agents : AgentOK(a) /\ AgentStep(a)) \/ \E r \in Redemptions : RailStep(r)
    PROVE  Shape
  <1> USE DEF orderVars
  <1>s. ASSUME NEW k, NEW status, SetOrder(k, status)
        PROVE  OneOrder
    BY <1>s DEF SetOrder, TypeOK, OrdersTypeOK, OneOrder
  <1>1. ASSUME NEW a \in Agents, AgentOK(a), AgentStep(a)
        PROVE  Shape
    <2>1. CASE CreditRefund(a)
      <3>1. ledger' = ledger \/ OneMovement
        BY <2>1, OneCommits DEF CreditRefund
      <3> QED
        BY <2>1, <3>1 DEF CreditRefund, Shape
    <2>2. CASE SendPayout(a)
      <3>1. agent[a].req \in Redemptions
        BY <1>1, <2>2 DEF SendPayout, AgentAt, AgentOK
      <3>2. OneAnswer
        BY <2>2, <3>1 DEF SendPayout, RailTakes, TypeOK, OneAnswer
      <3> QED
        BY <2>2, <3>2 DEF SendPayout, Shape
    <2>3. CASE \/ \E r \in Redemptions : Approve(a, r) \/ Reject(a, r)
               \/ UndoApproval(a) \/ ClaimPayout(a) \/ RecordPaid(a)
      <3>1. order' = order \/ OneOrder
        BY <1>s, <2>3 DEF Approve, Reject, Decide, UndoApproval, ClaimPayout, RecordPaid, CompareAndSet
      <3>2. UNCHANGED <<ledger, rail>>
        BY <2>3 DEF Approve, Reject, Decide, UndoApproval, ClaimPayout, RecordPaid
      <3> QED
        BY <3>1, <3>2 DEF Shape
    <2>4. CASE MarkRefunded(a)
      <3>1. OneOrder
        BY <2>4 DEF MarkRefunded, TypeOK, OrdersTypeOK, OneOrder
      <3> QED
        BY <2>4, <3>1 DEF MarkRefunded, Shape
    <2>5. CASE OperatorStep(a) /\ ~UndoApproval(a)
      BY <2>5 DEF OperatorStep, PublishApproval, FailToPublish, Shape
    <2>6. CASE WorkerStep(a) /\ ~ClaimPayout(a) /\ ~RecordPaid(a) /\ ~SendPayout(a)
      BY <2>6 DEF WorkerStep, DrainDuePayout, RepublishPayout, TakePayout, ThrowPayout, ReschedulePayout,
                  ParkPayout, AckPayout, ReadRedemption, AskRail, RailFails, Shape
    <2>7. CASE RefundStep(a) /\ ~CreditRefund(a) /\ ~MarkRefunded(a)
      BY <2>7 DEF RefundStep, LookUpDebit, JournalRefund, RecordUncredited, RecordCredited, Shape
    <2>8. CASE CrashAgent(a)
      BY <2>8 DEF CrashAgent, Shape
    <2> QED
      BY <1>1, <2>1, <2>2, <2>3, <2>4, <2>5, <2>6, <2>7, <2>8 DEF AgentStep
  <1>2. ASSUME NEW r \in Redemptions, RailStep(r)
        PROVE  Shape
    <2>1. OneAnswer
      BY <1>2 DEF RailStep, RailTakes, TypeOK, OneAnswer
    <2> QED
      BY <1>2, <2>1 DEF RailStep, Shape
  <1> QED
    BY <1>1, <1>2

\* At the start nothing is debited, paid, given back or reported.
LEMMA MoneyInit == Init => Money!Init
  BY KeyFacts DEF Init, OrdersInit, Money!Init, Is, OrderIn, Taken

\* What has been established of money out.
Sound == IInv /\ MoneyOutFollowsDebit /\ PaidExcludesRefund /\ OutcomeIsTrue

\* A step of the redemptions is a step of the promise, or shows nothing of it.
LEMMA MoneyStep == Sound /\ Sound' /\ [Next]_vars => [Money!Next]_(Money!moneyVars)
  <1> SUFFICES ASSUME Sound, Sound', [Next]_vars
               PROVE  Money!Next \/ UNCHANGED Money!moneyVars
    BY DEF Money!moneyVars
  <1> USE DEF Money!moneyVars
  <1>i. IInv
    BY DEF Sound
  <1>u. NothingUndone
    BY <1>i, StepSafe
  <1>s. Shape
    <2>1. CASE UNCHANGED vars
      BY <2>1 DEF vars, Shape
    <2>2. CASE OrdersStep /\ UNCHANGED payVars
      BY <1>i, <2>2, OrdersShape DEF IInv, PInv
    <2>3. CASE (\E a \in Agents : AgentStep(a)) \/ \E r \in Redemptions : RailStep(r)
      BY <1>i, <2>3, AgentsShape DEF IInv, PInv
    <2> QED
      BY <2>1, <2>2, <2>3 DEF Next
  <1>n. MoneyOutFollowsDebit' /\ PaidExcludesRefund' /\ OutcomeIsTrue'
    BY DEF Sound
  <1>1. CASE UNCHANGED <<ledger, rail, order>>
    BY <1>1 DEF Is, OrderIn, Taken
  <1>2. CASE OneMovement /\ UNCHANGED <<rail, order>>
    <2>1. PICK k : ledger' = ledger \cup {k}
      BY <1>2 DEF OneMovement
    <2>2. \A r \in Redemptions : Is(r, {"PAID"})' = Is(r, {"PAID"})
      BY <1>2 DEF Is, OrderIn, Taken
    <2>3. CASE k \in ledger
      BY <1>2, <2>1, <2>2, <2>3
    <2>4. ASSUME k \notin ledger, NEW r \in Redemptions, k = Redeem(r)
          PROVE  Money!Next
      <3>1. \A q \in Redemptions : /\ Redeem(q) \in ledger' <=> Redeem(q) \in ledger \/ q = r
                                   /\ Refund(q) \in ledger' <=> Refund(q) \in ledger
        BY <2>1, <2>4 DEF Redeem, Refund
      <3>2. Money!Debit(r)
        BY <1>2, <2>2, <2>4, <3>1 DEF Money!Debit
      <3> QED
        BY <3>2 DEF Money!Next
    <2>5. ASSUME k \notin ledger, NEW r \in Redemptions, k = Refund(r)
          PROVE  Money!Next
      <3>1. \A q \in Redemptions : /\ Redeem(q) \in ledger' <=> Redeem(q) \in ledger
                                   /\ Refund(q) \in ledger' <=> Refund(q) \in ledger \/ q = r
        BY <2>1, <2>5 DEF Redeem, Refund
      <3>2. Redeem(r) \in ledger /\ rail[r] # "paid"
        BY <1>2, <1>n, <3>1 DEF MoneyOutFollowsDebit, PaidExcludesRefund, Moved
      <3>3. Money!GiveBack(r)
        BY <1>2, <2>2, <2>5, <3>1, <3>2 DEF Money!GiveBack
      <3> QED
        BY <3>3 DEF Money!Next
    <2>6. CASE \A r \in Redemptions : k # Redeem(r) /\ k # Refund(r)
      BY <1>2, <2>1, <2>2, <2>6
    <2> QED
      BY <2>3, <2>4, <2>5, <2>6
  <1>3. CASE OneAnswer /\ UNCHANGED <<ledger, order>>
    <2>1. PICK r \in Redemptions : \A q \in Redemptions : q # r => rail'[q] = rail[q]
      BY <1>3 DEF OneAnswer
    <2>2. \A q \in Redemptions : Is(q, {"PAID"})' = Is(q, {"PAID"})
      BY <1>3 DEF Is, OrderIn, Taken
    <2>3. CASE rail[r] = "paid" \/ rail'[r] # "paid"
      <3>1. \A q \in Redemptions : rail'[q] = "paid" <=> rail[q] = "paid"
        BY <1>u, <2>1, <2>3 DEF NothingUndone
      <3> QED
        BY <1>3, <2>2, <3>1
    <2>4. CASE rail[r] # "paid" /\ rail'[r] = "paid"
      <3>1. Redeem(r) \in ledger /\ Refund(r) \notin ledger
        BY <1>3, <1>n, <2>4 DEF MoneyOutFollowsDebit, PaidExcludesRefund, Moved
      <3>2. \A q \in Redemptions : rail'[q] = "paid" <=> rail[q] = "paid" \/ q = r
        BY <2>1, <2>4
      <3>3. Money!PayOut(r)
        BY <1>3, <2>2, <2>4, <3>1, <3>2 DEF Money!PayOut
      <3> QED
        BY <3>3 DEF Money!Next
    <2> QED
      BY <2>3, <2>4
  <1>4. CASE OneOrder /\ UNCHANGED <<ledger, rail>>
    <2>1. PICK k : \A j \in OrderKeys : j # k => order'[j] = order[j]
      BY <1>4 DEF OneOrder
    <2>2. ASSUME NEW q \in Redemptions, Redeem(q) # k
          PROVE  Is(q, {"PAID"})' = Is(q, {"PAID"})
      BY <2>1, <2>2, KeyFacts DEF Is, OrderIn, Taken
    <2>3. CASE \A q \in Redemptions : Is(q, {"PAID"})' = Is(q, {"PAID"})
      BY <1>4, <2>3
    <2>4. ASSUME NEW r \in Redemptions, Is(r, {"PAID"})' # Is(r, {"PAID"})
          PROVE  Money!Next
      <3>1. ~Is(r, {"PAID"}) /\ Is(r, {"PAID"})'
        BY <1>u, <2>4 DEF NothingUndone, Is, OrderIn
      <3>2. rail[r] = "paid"
        BY <1>4, <1>n, <3>1 DEF OutcomeIsTrue
      <3>3. \A q \in Redemptions : q # r => Is(q, {"PAID"})' = Is(q, {"PAID"})
        BY <2>2, <2>4 DEF Redeem
      <3>4. \A q \in Redemptions : Is(q, {"PAID"})' <=> Is(q, {"PAID"}) \/ q = r
        BY <3>1, <3>3
      <3>5. Money!Report(r)
        BY <1>4, <3>1, <3>2, <3>4 DEF Money!Report
      <3> QED
        BY <3>5 DEF Money!Next
    <2> QED
      BY <2>3, <2>4
  <1> QED
    BY <1>s, <1>1, <1>2, <1>3, <1>4 DEF Shape

\* Redemptions implement debit, pay out or give back, report.
THEOREM ImplementsMoneyOut == Spec => MoneyOutSpec
  BY MoneyInit, MoneyStep, Invariance, MoneyOutFollowsTheDebit, PaidExcludesTheRefund, OutcomesAreTrue,
     PTL DEF Spec, Sound, MoneyOutSpec, Money!Spec

=============================================================================
