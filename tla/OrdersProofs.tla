---------------------------- MODULE OrdersProofs ----------------------------
(***************************************************************************)
(* Safety of the one-shot orders, step by step: what every step of a       *)
(* request, of the reconciler and of the engine keeps, for every set of    *)
(* orders and processes and every combination of faults.                   *)
(*                                                                         *)
(* The heart of the argument is a hand-over.  While a request holds its    *)
(* order nobody else drives it, so the request knows what became of the    *)
(* movement; the reconciler drives an order only after its request has let *)
(* go of it, still REQUESTED, and nobody takes it back.                    *)
(***************************************************************************)
EXTENDS Orders, ReconcilerProofs

\* Request h works on order k, between the insert of its row and its answer.
Holding == CallStates \ {"idle", "over", "insert"}
Holds(h, k) == call[h].pc \in Holding /\ call[h].key = k

\* Order k is open and no request works on it: the reconciler may drive it.
HandedOver(k) ==
    /\ k \in OrderKeys
    /\ OrderIn(k, {"REQUESTED"})
    /\ \A h \in Calls : ~Holds(h, k)

\* The reconciler works on k, or may get to.
Queued(k) ==
    \/ k \in schedule
    \/ InStream(k)
    \/ \E c \in Consumers : HasInHand(c, k)
Driven(k) == Queued(k) \/ HasStatus(k, {"ABANDONED"})

\* What the row of order k says of its movement, and of the other rows.
OrderOK(k) ==
    /\ Moved(k) => Taken(k)
    /\ Taken(k) =>
          /\ order[k].receipt => k \in ledger
          /\ order[k].status = "REQUESTED" => ~order[k].receipt
          /\ order[k].status \notin {"REQUESTED", "REJECTED", "FAILED"} => order[k].receipt
          /\ order[k].status \in {"REJECTED", "FAILED"} /\ ~order[k].receipt => ~Moved(k)
          /\ \A r \in Redemptions : k = Redeem(r) => <<"order", r>> \in order[k].uses
          /\ \A j \in OrderKeys : j # k /\ Taken(j) => order[j].uses \cap order[k].uses = {}

\* What request h knows of the order it works on.
CallOK(h) ==
    /\ call[h].pc \in {"idle", "insert"} => ~Taken(Grant(h))
    /\ call[h].pc \notin {"idle", "over"} =>
          /\ call[h].key \in OrderKeys
          /\ \A g \in Calls : call[h].key = Grant(g) => g = h
    /\ call[h].pc = "insert" =>
          \A r \in Redemptions : call[h].key = Redeem(r) => <<"order", r>> \in call[h].uses
    /\ call[h].pc \in Holding =>
          /\ OrderIn(call[h].key, {"REQUESTED"})
          /\ \A g \in Calls : g # h => ~Holds(g, call[h].key)
    /\ call[h].pc \in {"journal", "call", "refused", "refuse"} => ~Moved(call[h].key)
    /\ call[h].pc \in {"done", "accept"} => call[h].key \in ledger

ConsumerOK(c) ==
    /\ HandsOK(c)
    /\ con[c].pc = "succeed" => con[c].key \in ledger

RowOK(k) == HasStatus(k, {"SUCCEEDED"}) => k \in ledger

OInv ==
    /\ OrdersTypeOK
    /\ \A k \in OrderKeys : OrderOK(k)
    /\ \A h \in Calls : CallOK(h)
    /\ \A c \in Consumers : ConsumerOK(c)
    /\ \A k \in Keys : RowOK(k) /\ (Driven(k) => HandedOver(k))

\* What the agents who decide, pay out and refund see of a step: movements are
\* never taken back, no refund is made or sent, and only an order that was open,
\* or is new, changes.
Advances(k) ==
    /\ ~Taken(k) \/ OrderIn(k, {"REQUESTED"})
    /\ OrderIn(k, {"REQUESTED", "UNDER_REVIEW", "REJECTED", "GRANTED", "FAILED"})'
    /\ order'[k].refunded => Taken(k) /\ order[k].refunded

OrdersOnly ==
    /\ ledger \subseteq ledger'
    /\ \A r \in Redemptions : Moved(Refund(r))' => Moved(Refund(r))
    /\ \A k \in OrderKeys : order'[k] = order[k] \/ Advances(k)

-----------------------------------------------------------------------------
(* Keys.                                                                   *)

\* A key is a redemption, a grant or a refund, and says of which.
LEMMA KeyFacts ==
    /\ OrderKeys \subseteq Keys
    /\ \A r \in Redemptions : Redeem(r) \in OrderKeys /\ Refund(r) \in Keys \ OrderKeys
    /\ \A h \in Calls : Grant(h) \in OrderKeys
    /\ \A k \in OrderKeys :
          \/ k[1] = "redeem" /\ \E r \in Redemptions : k = Redeem(r)
          \/ k[1] = "grant" /\ \E h \in Calls : k = Grant(h)
    /\ \A k \in Keys \ OrderKeys : \E r \in Redemptions : k = Refund(r)
    /\ \A q, r \in Redemptions : Redeem(q) = Redeem(r) \/ Refund(q) = Refund(r) => q = r
    /\ \A g, h \in Calls : Grant(g) = Grant(h) => g = h
    /\ \A r \in Redemptions, h \in Calls : Redeem(r) # Grant(h)
  BY KeysAssumption DEF OrderKeys, Redeem, Refund, Grant

-----------------------------------------------------------------------------
(* What a step leaves alone.                                               *)

\* The invariant of the next state, from the parts a step may have touched.
LEMMA Rebuild ==
    ASSUME OInv, OrdersTypeOK', ledger \subseteq ledger',
           \A k \in OrderKeys : OrderOK(k)',
           \A h \in Calls : CallOK(h)',
           \A c \in Consumers : con'[c] = con[c] \/ ConsumerOK(c)',
           \A k \in Keys : row'[k] = row[k] \/ RowOK(k)',
           \A k \in Keys : Driven(k)' => HandedOver(k)'
    PROVE  OInv'
  <1>1. \A c \in Consumers : ConsumerOK(c)'
    BY DEF OInv, ConsumerOK, HandsOK
  <1>2. \A k \in Keys : RowOK(k)'
    BY DEF OInv, RowOK, HasStatus, Journaled
  <1> QED
    BY <1>1, <1>2 DEF OInv

\* A request that holds order k touches no other order, and nobody else k: what
\* the others know stays true.
LEMMA HolderStep ==
    ASSUME OInv, NEW h \in Calls, NEW k \in OrderKeys, Holds(h, k),
           OrdersTypeOK', ledger \subseteq ledger', con' = con,
           \A g \in Calls : g # h => call'[g] = call[g],
           call'[h].pc = "over" \/ (call'[h].pc \in Holding /\ call'[h].key = k),
           \A j \in OrderKeys : j # k => order'[j] = order[j],
           Taken(k)', order'[k].uses = order[k].uses,
           \A j \in Keys : j # k /\ Moved(j)' => Moved(j),
           \A j \in Keys : row'[j] = row[j] \/ RowOK(j)',
           \A j \in Keys : Driven(j)' => Driven(j) \/ HandedOver(j)',
           OrderOK(k)', CallOK(h)'
    PROVE  OInv'
  <1>t. CallOK(h) /\ Taken(k) /\ k \in Keys
    BY KeyFacts DEF OInv, Holds, CallOK, OrderIn
  <1>1. ASSUME NEW j \in OrderKeys, j # k
        PROVE  OrderOK(j)'
    <2>1. OrderOK(j) /\ order'[j] = order[j] /\ j \in Keys
      BY <1>1, KeyFacts DEF OInv
    <2>2. Moved(j)' => Moved(j)
      BY <1>1, <2>1
    <2>3. \A i \in OrderKeys : Taken(i)' => Taken(i) /\ order'[i].uses = order[i].uses
      BY <1>t DEF Taken
    <2> QED
      BY <2>1, <2>2, <2>3 DEF OrderOK, Taken
  <1>2. ASSUME NEW g \in Calls, g # h
        PROVE  CallOK(g)'
    <2>1. CallOK(g) /\ call'[g] = call[g]
      BY <1>2 DEF OInv
    <2>2. Grant(g) # k
      BY <1>2, <1>t, KeyFacts DEF CallOK, Holding, Holds
    <2>3. Taken(Grant(g))' => Taken(Grant(g))
      BY <2>2, KeyFacts DEF Taken
    <2>4. \A f \in Calls, j \in OrderKeys : Holds(f, j)' => Holds(f, j)
      BY DEF Holds, Holding, CallStates
    <2>5. ASSUME call[g].pc \in Holding
          PROVE  CallOK(g)'
      <3>1. PICK j \in OrderKeys \ {k} : call[g].key = j
        BY <1>2, <1>t, <2>1, <2>5 DEF CallOK, Holds, Holding
      <3>2. order'[j] = order[j] /\ (Moved(j)' => Moved(j))
        BY KeyFacts
      <3> QED
        BY <2>1, <2>3, <2>4, <2>5, <3>1, <3>2 DEF CallOK, OrderIn, Taken, Holding
    <2>6. call[g].pc \in {"journal", "call", "refused", "refuse", "done", "accept"} => call[g].pc \in Holding
      BY DEF Holding, CallStates
    <2> QED
      BY <2>1, <2>3, <2>5, <2>6 DEF CallOK
  <1>3. \A j \in Keys : Driven(j) => HandedOver(j)'
    <2> SUFFICES ASSUME NEW j \in Keys, Driven(j)
                 PROVE  HandedOver(j)'
      OBVIOUS
    <2>1. HandedOver(j)
      BY DEF OInv
    <2>2. j # k
      BY <2>1 DEF HandedOver
    <2>3. \A f \in Calls : Holds(f, j)' => Holds(f, j)
      BY <2>2 DEF Holds, Holding, CallStates
    <2> QED
      BY <2>1, <2>2, <2>3 DEF HandedOver, OrderIn, Taken
  <1> QED
    BY <1>1, <1>2, <1>3, Rebuild

\* A request that holds nothing, before and after, disturbs nobody.
LEMMA OutsideStep ==
    ASSUME OInv, NEW h \in Calls, OrdersTypeOK', CallOK(h)',
           call[h].pc \notin Holding, call'[h].pc \notin Holding,
           \A g \in Calls : g # h => call'[g] = call[g],
           UNCHANGED <<reconcilerVars, order, ledger, inflight>>
    PROVE  OInv' /\ OrdersOnly
  <1> USE DEF reconcilerVars
  <1>1. \A g \in Calls, k \in OrderKeys : Holds(g, k)' => Holds(g, k)
    BY DEF Holds
  <1>2. ASSUME NEW g \in Calls, g # h
        PROVE  CallOK(g)'
    <2>1. CallOK(g) /\ call'[g] = call[g]
      BY <1>2 DEF OInv
    <2> QED
      BY <2>1 DEF CallOK, OrderIn, Taken, Moved, Holds
  <1>3. \A k \in OrderKeys : OrderOK(k)'
    BY DEF OInv, OrderOK, Taken, Moved
  <1>4. \A k \in Keys : Driven(k)' => HandedOver(k)'
    <2> SUFFICES ASSUME NEW k \in Keys, Driven(k)'
                 PROVE  HandedOver(k)'
      OBVIOUS
    <2>1. Driven(k)
      BY DEF Driven, Queued, InStream, HasInHand, HasStatus, Journaled
    <2> QED
      BY <1>1, <2>1 DEF OInv, HandedOver, OrderIn, Taken
  <1>5. OInv'
    BY <1>2, <1>3, <1>4, Rebuild
  <1> QED
    BY <1>5 DEF OrdersOnly, Moved

-----------------------------------------------------------------------------
(* Every step of a request.                                                *)

\* A request that moves on, rests or starts keeps its type.
LEMMA CallMoves ==
    ASSUME call \in [Calls -> Call], NEW h \in Calls,
           \/ \E pc \in CallStates : CallGoto(h, pc)
           \/ CallRest(h)
           \/ \E k \in OrderKeys, uses \in SUBSET Unique : CallStart(h, k, uses)
    PROVE  call' \in [Calls -> Call] /\ \A g \in Calls : g # h => call'[g] = call[g]
  BY DEF CallGoto, CallRest, CallStart, NoCall, Call, CallStates

\* A request that starts, or is turned away by what it looks up.
LEMMA StartSafe ==
    ASSUME OInv, NEW h \in Calls,
           \/ \E r \in Redemptions : StartRedeem(h, r)
           \/ \E p \in Periods, a \in Attempts : StartClaim(h, p, a)
    PROVE  OInv' /\ OrdersOnly
  <1> USE DEF reconcilerVars
  <1>t. OrdersTypeOK /\ call \in [Calls -> Call] /\ CallOK(h) /\ call[h].pc = "idle"
    BY DEF OInv, OrdersTypeOK, StartRedeem, StartClaim, CallAt
  <1>1. \/ CallRest(h)
        \/ \E k \in OrderKeys, uses \in SUBSET Unique :
              /\ CallStart(h, k, uses)
              /\ \A g \in Calls : k = Grant(g) => g = h
              /\ \A r \in Redemptions : k = Redeem(r) => <<"order", r>> \in uses
    <2>1. CASE \E r \in Redemptions : StartRedeem(h, r)
      <3>1. PICK r \in Redemptions : StartRedeem(h, r)
        BY <2>1
      <3>2. {<<"order", r>>} \in SUBSET Unique
        BY DEF Unique
      <3>3. \A q \in Redemptions : Redeem(r) = Redeem(q) => <<"order", q>> \in {<<"order", r>>}
        BY KeyFacts
      <3> QED
        BY <3>1, <3>2, <3>3, KeyFacts DEF StartRedeem
    <2>2. CASE \E p \in Periods, a \in Attempts : StartClaim(h, p, a)
      <3>1. PICK p \in Periods, a \in Attempts : StartClaim(h, p, a)
        BY <2>2
      <3>2. {<<"period", p>>, <<"attempt", a>>} \in SUBSET Unique
        BY DEF Unique
      <3> QED
        BY <3>1, <3>2, KeyFacts DEF StartClaim
    <2> QED
      BY <2>1, <2>2
  <1>2. call' \in [Calls -> Call] /\ \A g \in Calls : g # h => call'[g] = call[g]
    BY <1>t, <1>1, CallMoves
  <1>3. UNCHANGED <<reconcilerVars, order, ledger, inflight>>
    BY DEF StartRedeem, StartClaim
  <1>4. OrdersTypeOK'
    BY <1>t, <1>2, <1>3 DEF OrdersTypeOK, ReconcilerTypeOK, JournalTypeOK, QueueTypeOK
  <1>5. CallOK(h)' /\ call'[h].pc \notin Holding /\ call[h].pc \notin Holding
    <2>1. Holding \cap {"idle", "over", "insert"} = {} /\ ~Taken(Grant(h))'
      BY <1>t, <1>3 DEF Holding, CallOK, Taken
    <2>2. CASE CallRest(h)
      BY <1>t, <2>1, <2>2 DEF CallRest, CallOK, NoCall
    <2>3. CASE \E k \in OrderKeys, uses \in SUBSET Unique :
                  /\ CallStart(h, k, uses)
                  /\ \A g \in Calls : k = Grant(g) => g = h
                  /\ \A r \in Redemptions : k = Redeem(r) => <<"order", r>> \in uses
      BY <1>t, <2>1, <2>3 DEF CallStart, CallOK
    <2> QED
      BY <1>1, <2>2, <2>3
  <1> QED
    BY <1>2, <1>3, <1>4, <1>5, OutsideStep

\* The insert takes an order nobody has, nobody holds and nobody drives.
LEMMA TakeSafe ==
    ASSUME OInv, NEW h \in Calls, TakeRow(h)
    PROVE  OInv' /\ OrdersOnly
  <1> USE DEF reconcilerVars
  <1>t. OrdersTypeOK /\ call \in [Calls -> Call] /\ CallOK(h) /\ call[h].pc = "insert"
    BY DEF OInv, OrdersTypeOK, TakeRow, CallAt
  <1>u. UNCHANGED <<reconcilerVars, ledger, inflight>>
    BY DEF TakeRow
  <1>h. "insert" \notin Holding /\ "over" \notin Holding /\ "journal" \in Holding
    BY DEF Holding, CallStates
  <1>1. CASE Occupied(call[h].uses)
    <2>1. CallRest(h) /\ order' = order
      BY <1>1 DEF TakeRow
    <2>2. call' \in [Calls -> Call] /\ \A g \in Calls : g # h => call'[g] = call[g]
      BY <1>t, <2>1, CallMoves
    <2>3. call'[h] = [NoCall EXCEPT !.pc = "over"]
      BY <1>t, <2>1 DEF CallRest
    <2>4. CallOK(h)' /\ call'[h].pc \notin Holding
      BY <1>h, <2>3 DEF CallOK, NoCall
    <2>5. OrdersTypeOK'
      BY <1>t, <1>u, <2>1, <2>2 DEF OrdersTypeOK, ReconcilerTypeOK, JournalTypeOK, QueueTypeOK
    <2> QED
      BY <1>t, <1>h, <1>u, <2>1, <2>2, <2>4, <2>5, OutsideStep
  <1>2. CASE ~Occupied(call[h].uses)
    <2> DEFINE fresh == NewOrder(call[h].uses)
    <2>k. PICK k \in OrderKeys : k = call[h].key
      BY <1>t DEF CallOK
    <2>1. order' = [order EXCEPT ![k] = fresh] /\ CallGoto(h, "journal")
      BY <1>2, <2>k DEF TakeRow
    <2>2. ~Taken(k) /\ ~Moved(k) /\ k \in Keys
      <3>1. ASSUME NEW r \in Redemptions, k = Redeem(r), Taken(k)
            PROVE  FALSE
        <4>1. <<"order", r>> \in order[k].uses
          BY <3>1 DEF OInv, OrderOK
        <4>2. <<"order", r>> \in call[h].uses
          BY <1>t, <2>k, <3>1 DEF CallOK
        <4> QED
          BY <1>2, <3>1, <4>1, <4>2 DEF Occupied
      <3>2. ASSUME NEW g \in Calls, k = Grant(g)
            PROVE  ~Taken(k)
        BY <1>t, <2>k, <3>2 DEF CallOK
      <3>3. ~Taken(k)
        BY <3>1, <3>2, KeyFacts
      <3> QED
        BY <3>3, KeyFacts DEF OInv, OrderOK
    <2>3. fresh \in Order /\ fresh # None
      <3>1. call[h].uses \in SUBSET Unique
        BY <1>t DEF Call
      <3>2. fresh \in Order
        BY <3>1 DEF NewOrder, Order, OrderStatuses
      <3> QED
        BY <3>2, OrderAssumption
    <2>4. /\ order' \in [OrderKeys -> Order \cup {None}]
          /\ order'[k] = fresh
          /\ \A j \in OrderKeys : j # k => order'[j] = order[j]
      BY <1>t, <2>1, <2>3 DEF OrdersTypeOK
    <2>5. call' \in [Calls -> Call] /\ \A g \in Calls : g # h => call'[g] = call[g]
      BY <1>t, <2>1, CallMoves DEF CallStates
    <2>6. call'[h].pc = "journal" /\ call'[h].key = k
      BY <1>t, <2>k, <2>1 DEF CallGoto, Call
    <2>7. OrdersTypeOK'
      BY <1>t, <1>u, <2>4, <2>5 DEF OrdersTypeOK, ReconcilerTypeOK, JournalTypeOK, QueueTypeOK
    <2>8. OrderOK(k)'
      <3>1. ASSUME NEW j \in OrderKeys, j # k, Taken(j)'
            PROVE  order'[j].uses \cap order'[k].uses = {}
        <4>1. Taken(j) /\ order'[j] = order[j]
          BY <2>4, <3>1 DEF Taken
        <4> QED
          BY <1>2, <2>4, <4>1 DEF Occupied, NewOrder
      <3>2. \A r \in Redemptions : k = Redeem(r) => <<"order", r>> \in call[h].uses
        BY <1>t, <2>k DEF CallOK
      <3> QED
        BY <1>u, <2>2, <2>4, <3>1, <3>2 DEF OrderOK, NewOrder, Moved
    <2>9. ASSUME NEW j \in OrderKeys, j # k
          PROVE  OrderOK(j)'
      <3>1. OrderOK(j) /\ order'[j] = order[j]
        BY <2>4, <2>9 DEF OInv
      <3>2. ASSUME NEW i \in OrderKeys, i # j, Taken(i)', Taken(j)
            PROVE  order'[i].uses \cap order[j].uses = {}
        BY <1>2, <2>4, <3>1, <3>2 DEF OrderOK, Taken, Occupied, NewOrder
      <3> QED
        BY <1>u, <3>1, <3>2 DEF OrderOK, Taken, Moved
    <2>10. \A g \in Calls, j \in OrderKeys : Holds(g, j)' => Holds(g, j) \/ (g = h /\ j = k)
      BY <2>5, <2>6 DEF Holds
    <2>11. \A g \in Calls : ~Holds(g, k)
      BY <2>2 DEF OInv, CallOK, Holds, OrderIn
    <2>12. CallOK(h)'
      <3>1. \A g \in Calls : g # h => ~Holds(g, k)'
        BY <2>10, <2>11
      <3>2. \A g \in Calls : k = Grant(g) => g = h
        BY <1>t, <2>k DEF CallOK
      <3>3. ~Moved(k)'
        BY <1>u, <2>2 DEF Moved
      <3> QED
        BY <1>h, <2>3, <2>4, <2>6, <3>1, <3>2, <3>3 DEF CallOK, OrderIn, Taken, NewOrder, Holds
    <2>13. ASSUME NEW g \in Calls, g # h
           PROVE  CallOK(g)'
      <3>1. CallOK(g) /\ call'[g] = call[g]
        BY <2>5, <2>13 DEF OInv
      <3>2. Grant(g) # k
        BY <1>t, <2>k, <2>13 DEF CallOK
      <3>3. Taken(Grant(g))' => Taken(Grant(g))
        BY <2>4, <3>2, KeyFacts DEF Taken
      <3>4. ASSUME call[g].pc \in Holding
            PROVE  CallOK(g)'
        <4>1. PICK j \in OrderKeys : call[g].key = j /\ Holds(g, j)
          BY <3>1, <3>4 DEF CallOK, Holds, Holding
        <4>2. j # k
          BY <2>11, <4>1
        <4> QED
          BY <1>u, <2>4, <2>10, <3>1, <3>3, <3>4, <4>1, <4>2 DEF CallOK, OrderIn, Taken, Moved, Holding
      <3>5. call[g].pc \in {"journal", "call", "refused", "refuse", "done", "accept"} => call[g].pc \in Holding
        BY DEF Holding, CallStates
      <3> QED
        BY <3>1, <3>3, <3>4, <3>5 DEF CallOK
    <2>14. ASSUME NEW j \in Keys, Driven(j)'
           PROVE  HandedOver(j)'
      <3>1. Driven(j)
        BY <1>u, <2>14 DEF Driven, Queued, InStream, HasInHand, HasStatus, Journaled
      <3>2. HandedOver(j) /\ j # k
        BY <2>2, <3>1 DEF OInv, HandedOver, OrderIn
      <3> QED
        BY <2>4, <2>10, <3>2 DEF HandedOver, OrderIn, Taken
    <2>15. OInv'
      BY <1>u, <2>7, <2>8, <2>9, <2>12, <2>13, <2>14, Rebuild
    <2> QED
      BY <1>u, <2>2, <2>3, <2>4, <2>15 DEF OrdersOnly, Advances, Moved, OrderIn, Taken, NewOrder
  <1> QED
    BY <1>1, <1>2

\* A statement against row k that abandons nothing drives nothing.
LEMMA RowWritten ==
    ASSUME OInv, ledger \subseteq ledger', NEW k \in Keys, NEW statuses, Writes(k, statuses),
           "SUCCEEDED" \in statuses => k \in ledger'
    PROVE  /\ \A j \in Keys : row'[j] = row[j] \/ RowOK(j)'
           /\ "ABANDONED" \notin statuses /\ UNCHANGED <<queueVars, con>>
                 => \A j \in Keys : Driven(j)' => Driven(j)
  <1>1. \A j \in Keys : row'[j] = row[j] \/ RowOK(j)'
    BY DEF OInv, Writes, RowOK, HasStatus, Journaled
  <1>2. ASSUME "ABANDONED" \notin statuses, UNCHANGED <<queueVars, con>>,
               NEW j \in Keys, Driven(j)'
        PROVE  Driven(j)
    <2>1. HasStatus(j, {"ABANDONED"})' => HasStatus(j, {"ABANDONED"})
      BY <1>2 DEF Writes, HasStatus, Journaled
    <2> QED
      BY <1>2, <2>1 DEF Driven, Queued, InStream, HasInHand, queueVars
  <1> QED
    BY <1>1, <1>2

\* An answer of the engine to a request for k.
LEMMA EngineAnswers ==
    ASSUME OrdersTypeOK, NEW k \in Keys,
           EngineCommits(k) \/ EngineTimesOut(k) \/ EngineRefuses(k)
    PROVE  /\ ledger \subseteq ledger' /\ ledger' \subseteq Keys /\ inflight' \subseteq Keys
           /\ \A j \in Keys : j # k /\ Moved(j)' => Moved(j)
           /\ EngineCommits(k) => k \in ledger'
           /\ EngineRefuses(k) /\ ~Moved(k) => ~Moved(k)'
  BY DEF OrdersTypeOK, EngineCommits, EngineTimesOut, EngineRefuses, Moved

\* What a request knows after a step of its own.
LEMMA HolderKnows ==
    ASSUME OInv, NEW h \in Calls, NEW k \in OrderKeys, Holds(h, k),
           \/ CallRest(h)
           \/ \E pc \in Holding :
                 /\ CallGoto(h, pc)
                 /\ OrderIn(k, {"REQUESTED"})'
                 /\ pc \in {"journal", "call", "refused", "refuse"} => ~Moved(k)'
                 /\ pc \in {"done", "accept"} => k \in ledger'
    PROVE  /\ CallOK(h)' /\ call' \in [Calls -> Call]
           /\ \A g \in Calls : g # h => call'[g] = call[g]
           /\ call'[h].pc = "over" \/ (call'[h].pc \in Holding /\ call'[h].key = k)
  <1>t. call \in [Calls -> Call] /\ CallOK(h) /\ Holding \subseteq CallStates
    BY DEF OInv, OrdersTypeOK, Holding
  <1>1. CASE CallRest(h)
    <2>1. call'[h].pc = "over" /\ "over" \notin Holding
      BY <1>t, <1>1 DEF CallRest, NoCall, Holding
    <2> QED
      BY <1>t, <1>1, <2>1, CallMoves DEF CallOK
  <1>2. ASSUME NEW pc \in Holding, CallGoto(h, pc), OrderIn(k, {"REQUESTED"})',
               pc \in {"journal", "call", "refused", "refuse"} => ~Moved(k)',
               pc \in {"done", "accept"} => k \in ledger'
        PROVE  /\ CallOK(h)' /\ call' \in [Calls -> Call]
               /\ \A g \in Calls : g # h => call'[g] = call[g]
               /\ call'[h].pc \in Holding /\ call'[h].key = k
    <2>1. call'[h].pc = pc /\ call'[h].key = k /\ pc \notin {"idle", "over", "insert"}
      BY <1>t, <1>2 DEF CallGoto, Call, Holds, Holding
    <2>2. call' \in [Calls -> Call] /\ \A g \in Calls : g # h => call'[g] = call[g]
      BY <1>t, <1>2, CallMoves
    <2>3. \A g \in Calls : (g # h => ~Holds(g, k)') /\ (k = Grant(g) => g = h)
      BY <1>t, <2>2 DEF CallOK, Holds, Holding
    <2> QED
      BY <1>2, <2>1, <2>2, <2>3 DEF CallOK, Holds
  <1> QED
    BY <1>1, <1>2

\* A request journals its order, calls the engine once, records the answer and
\* settles its row, or dies anywhere in between.
LEMMA HandlerSafe ==
    ASSUME OInv, NEW h \in Calls, call[h].pc \in Holding,
           HandlerStep(h) \/ CrashCall(h)
    PROVE  OInv' /\ OrdersOnly
  <1> USE DEF reconcilerVars, queueVars
  <1>t. /\ OrdersTypeOK /\ CallOK(h) /\ JournalTypeOK(Payloads) /\ QueueTypeOK
        /\ order \in [OrderKeys -> Order \cup {None}]
    BY DEF OInv, OrdersTypeOK, ReconcilerTypeOK
  <1>k. PICK k \in OrderKeys : k = call[h].key /\ Holds(h, k) /\ OrderIn(k, {"REQUESTED"})
    BY <1>t DEF CallOK, Holds, Holding
  <1>s. k \in Keys /\ OrderOK(k) /\ Taken(k) /\ order[k] \in Order /\ ~order[k].receipt
    BY <1>t, <1>k, KeyFacts DEF OInv, OrderOK, OrderIn, Taken
  <1>r. \A r \in Redemptions : Refund(r) \in Keys /\ Refund(r) # k
    BY KeyFacts
  \* An open row says nothing of its movement but that it is taken.
  <1>o. ASSUME order' = order, ledger \subseteq ledger'
        PROVE  OrderOK(k)' /\ Taken(k)' /\ OrderIn(k, {"REQUESTED"})'
    BY <1>k, <1>s, <1>o DEF OrderOK, OrderIn, Taken
  <1>1. CASE Journal(h)
    <2>1. /\ CreateIntentIfAbsent(k, "payload") /\ "payload" \in Payloads /\ CallGoto(h, "call")
          /\ UNCHANGED <<queueVars, con, order, ledger, inflight>> /\ ~Moved(k)
      BY <1>1, <1>t, <1>k DEF Journal, Payloads, CallAt, CallOK
    <2>2. JournalTypeOK(Payloads)' /\ Writes(k, {"PENDING"})
      BY <1>t, <1>s, <2>1, JournalWrites, CreateWrites, RowAssumption
    <2>3. "call" \in Holding /\ ~Moved(k)' /\ OrderOK(k)' /\ Taken(k)' /\ OrderIn(k, {"REQUESTED"})'
      BY <1>o, <2>1 DEF Moved, Holding, CallStates
    <2>4. OrdersTypeOK'
      BY <1>t, <1>k, <2>1, <2>2, <2>3, HolderKnows DEF OrdersTypeOK, ReconcilerTypeOK, QueueTypeOK
    <2>5. /\ \A j \in Keys : row'[j] = row[j] \/ RowOK(j)'
          /\ \A j \in Keys : Driven(j)' => Driven(j)
      BY <1>s, <2>1, <2>2, RowWritten
    <2> QED
      BY <1>k, <2>1, <2>3, <2>4, <2>5, HolderKnows, HolderStep DEF OrdersOnly, Moved
  <1>2. CASE CallEngine(h)
    <2>1. /\ UNCHANGED <<row, queueVars, con, order>> /\ ~Moved(k)
          /\ EngineCommits(k) \/ EngineTimesOut(k) \/ EngineRefuses(k)
      BY <1>2, <1>t, <1>k DEF CallEngine, CallAt, CallOK
    <2>2. /\ ledger \subseteq ledger' /\ ledger' \subseteq Keys /\ inflight' \subseteq Keys
          /\ \A j \in Keys : j # k /\ Moved(j)' => Moved(j)
          /\ EngineCommits(k) => k \in ledger'
          /\ EngineRefuses(k) => ~Moved(k)'
      BY <1>t, <1>s, <2>1, EngineAnswers
    <2>3. PICK pc \in {"done", "lost", "refused"} :
                 /\ CallGoto(h, pc)
                 /\ pc = "done" => k \in ledger'
                 /\ pc = "refused" => ~Moved(k)'
      BY <1>2, <1>k, <2>2 DEF CallEngine
    <2>4. pc \in Holding /\ OrderOK(k)' /\ Taken(k)' /\ OrderIn(k, {"REQUESTED"})'
      BY <1>o, <2>1, <2>2 DEF Holding, CallStates
    <2>5. OrdersTypeOK'
      BY <1>t, <1>k, <2>1, <2>2, <2>3, <2>4, HolderKnows
         DEF OrdersTypeOK, ReconcilerTypeOK, JournalTypeOK, QueueTypeOK
    <2>6. \A j \in Keys : Driven(j)' => Driven(j)
      BY <2>1 DEF Driven, Queued, InStream, HasInHand, HasStatus, Journaled
    <2>7. OInv'
      BY <1>k, <2>1, <2>2, <2>3, <2>4, <2>5, <2>6, HolderKnows, HolderStep
    <2> QED
      BY <1>r, <2>1, <2>2, <2>7 DEF OrdersOnly
  <1>3. CASE RecordCommit(h)
    <2>1. /\ MarkTerminal(k, "SUCCEEDED") /\ CallGoto(h, "accept") /\ k \in ledger
          /\ UNCHANGED <<queueVars, con, order, ledger, inflight>>
      BY <1>3, <1>t, <1>k DEF RecordCommit, CallAt, CallOK
    <2>2. "SUCCEEDED" \in Statuses
      BY DEF Statuses, FinalStatuses
    <2>3. JournalTypeOK(Payloads)' /\ Writes(k, {"SUCCEEDED"})
      BY <1>t, <1>s, <2>1, <2>2, JournalWrites, StatusWrites, RowAssumption
    <2>4. "accept" \in Holding /\ OrderOK(k)' /\ Taken(k)' /\ OrderIn(k, {"REQUESTED"})'
      BY <1>o, <2>1 DEF Holding, CallStates
    <2>5. OrdersTypeOK'
      BY <1>t, <1>k, <2>1, <2>3, <2>4, HolderKnows DEF OrdersTypeOK, ReconcilerTypeOK, QueueTypeOK
    <2>6. /\ \A j \in Keys : row'[j] = row[j] \/ RowOK(j)'
          /\ \A j \in Keys : Driven(j)' => Driven(j)
      BY <1>s, <2>1, <2>3, RowWritten
    <2> QED
      BY <1>k, <2>1, <2>4, <2>5, <2>6, HolderKnows, HolderStep DEF OrdersOnly, Moved
  <1>4. CASE RecordFailedCall(h)
    <2>1. /\ MarkTerminal(k, "FAILED") /\ "FAILED" \in Statuses
          /\ UNCHANGED <<queueVars, con, order, ledger, inflight>>
      BY <1>4, <1>k DEF RecordFailedCall, Statuses, OpenStatuses
    <2>2. PICK pc \in {"publish", "refuse"} : CallGoto(h, pc) /\ (pc = "refuse" => ~Moved(k)')
      BY <1>4, <1>t, <1>k, <2>1 DEF RecordFailedCall, CallAt, CallOK, Moved
    <2>3. JournalTypeOK(Payloads)' /\ Writes(k, {"FAILED"})
      BY <1>t, <1>s, <2>1, JournalWrites, StatusWrites, RowAssumption
    <2>4. pc \in Holding /\ OrderOK(k)' /\ Taken(k)' /\ OrderIn(k, {"REQUESTED"})'
      BY <1>o, <2>1 DEF Holding, CallStates
    <2>5. OrdersTypeOK'
      BY <1>t, <1>k, <2>1, <2>2, <2>3, <2>4, HolderKnows DEF OrdersTypeOK, ReconcilerTypeOK, QueueTypeOK
    <2>6. /\ \A j \in Keys : row'[j] = row[j] \/ RowOK(j)'
          /\ \A j \in Keys : Driven(j)' => Driven(j)
      BY <1>s, <2>1, <2>3, RowWritten
    <2> QED
      BY <1>k, <2>1, <2>2, <2>4, <2>5, <2>6, HolderKnows, HolderStep DEF OrdersOnly, Moved
  <1>5. CASE Accept(h) \/ Refuse(h)
    <2>1. /\ CallRest(h) /\ UNCHANGED <<row, queueVars, con, ledger, inflight>>
          /\ call[h].pc \in {"accept", "refuse"}
      BY <1>5 DEF Accept, Refuse, CallAt
    <2>2. PICK row2 \in Order :
                 /\ order' = [order EXCEPT ![k] = row2]
                 /\ row2.uses = order[k].uses /\ row2.refunded = order[k].refunded
                 /\ \/ row2.status \in {"UNDER_REVIEW", "GRANTED"} /\ row2.receipt /\ k \in ledger
                    \/ row2.status \in {"REJECTED", "FAILED"} /\ ~row2.receipt /\ ~Moved(k)
      <3>1. CASE Accept(h)
        <4> DEFINE status == IF k[1] = "redeem" THEN "UNDER_REVIEW" ELSE "GRANTED"
                   row2 == [order[k] EXCEPT !.status = status, !.receipt = TRUE]
        <4>1. row2 \in Order /\ row2.uses = order[k].uses /\ row2.refunded = order[k].refunded
              /\ row2.status = status /\ row2.receipt
          BY <1>s DEF Order, OrderStatuses
        <4>2. order' = [order EXCEPT ![k] = row2] /\ k \in ledger
          BY <3>1, <1>t, <1>k DEF Accept, CallAt, CallOK
        <4> QED
          BY <4>1, <4>2
      <3>2. CASE Refuse(h)
        <4> DEFINE status == IF k[1] = "redeem" THEN "REJECTED" ELSE "FAILED"
                   row2 == [order[k] EXCEPT !.status = status]
        <4>1. row2 \in Order /\ row2.uses = order[k].uses /\ row2.refunded = order[k].refunded
              /\ row2.status = status /\ ~row2.receipt
          BY <1>s DEF Order, OrderStatuses
        <4>2. order' = [order EXCEPT ![k] = row2] /\ ~Moved(k)
          BY <3>2, <1>t, <1>k DEF Refuse, SetOrder, CallAt, CallOK
        <4> QED
          BY <4>1, <4>2
      <3> QED
        BY <1>5, <3>1, <3>2
    <2>3. row2 # None
      BY OrderAssumption
    <2>4. /\ order' \in [OrderKeys -> Order \cup {None}] /\ order'[k] = row2
          /\ \A j \in OrderKeys : j # k => order'[j] = order[j]
      BY <1>t, <2>2
    <2>5. OrderOK(k)' /\ Taken(k)'
      <3>1. \A j \in OrderKeys : j # k /\ Taken(j)' => order'[j].uses \cap order'[k].uses = {}
        BY <1>s, <2>2, <2>4 DEF OrderOK, Taken
      <3>2. \A r \in Redemptions : k = Redeem(r) => <<"order", r>> \in order'[k].uses
        BY <1>s, <2>2, <2>4 DEF OrderOK
      <3> QED
        BY <2>1, <2>2, <2>3, <2>4, <3>1, <3>2 DEF OrderOK, Taken, Moved
    <2>6. OrdersTypeOK'
      BY <1>t, <1>k, <2>1, <2>4, HolderKnows
         DEF OrdersTypeOK, ReconcilerTypeOK, JournalTypeOK, QueueTypeOK
    <2>7. \A j \in Keys : Driven(j)' => Driven(j)
      BY <2>1 DEF Driven, Queued, InStream, HasInHand, HasStatus, Journaled
    <2>8. OInv'
      BY <1>k, <2>1, <2>2, <2>4, <2>5, <2>6, <2>7, HolderKnows, HolderStep DEF Moved
    <2>9. Advances(k)
      BY <1>k, <1>s, <2>2, <2>3, <2>4 DEF Advances, OrderIn, Taken
    <2> QED
      BY <2>1, <2>4, <2>8, <2>9 DEF OrdersOnly, Moved
  <1>6. CASE PublishLost(h) \/ CrashCall(h)
    <2>1. CallRest(h) /\ UNCHANGED <<row, con, order, ledger, inflight>>
      BY <1>6 DEF PublishLost, CrashCall
    <2>2. schedule' = schedule /\ dlq' = dlq
          /\ \/ entries' = entries
             \/ \E m \in Messages : entries' = [entries EXCEPT ![m] = [key |-> k, count |-> 0]]
      BY <1>6, <1>k DEF PublishLost, CrashCall, BestEffort, Publish, AddEntry
    <2>3. QueueTypeOK'
      BY <1>t, <1>s, <2>2, DeliveriesAssumption DEF QueueTypeOK, Entry
    <2>4. OrderOK(k)' /\ Taken(k)' /\ OrderIn(k, {"REQUESTED"})'
      BY <1>o, <2>1
    <2>5. /\ CallOK(h)' /\ call' \in [Calls -> Call]
          /\ \A g \in Calls : g # h => call'[g] = call[g]
          /\ call'[h].pc = "over"
      <3>1. call'[h].pc = "over"
        BY <1>t, <2>1 DEF CallRest, NoCall, OrdersTypeOK
      <3> QED
        BY <1>k, <2>1, <3>1, HolderKnows
    <2>6. OrdersTypeOK'
      BY <1>t, <2>1, <2>3, <2>5 DEF OrdersTypeOK, ReconcilerTypeOK, JournalTypeOK
    <2>7. HandedOver(k)'
      <3>1. \A g \in Calls : ~Holds(g, k)'
        BY <1>t, <1>k, <2>5 DEF CallOK, Holds, Holding
      <3> QED
        BY <2>4, <3>1 DEF HandedOver
    <2>8. \A j \in Keys : Driven(j)' => Driven(j) \/ j = k
      <3>1. \A j \in Keys : InStream(j)' => InStream(j) \/ j = k
        BY <1>t, <2>2 DEF InStream, QueueTypeOK
      <3> QED
        BY <2>1, <2>2, <3>1 DEF Driven, Queued, HasInHand, HasStatus, Journaled
    <2>9. OInv'
      BY <1>k, <2>1, <2>4, <2>5, <2>6, <2>7, <2>8, HolderStep DEF Moved
    <2> QED
      BY <2>1, <2>9 DEF OrdersOnly, Moved
  <1> QED
    <2>1. call[h].pc # "insert"
      BY DEF Holding
    <2> QED
      BY <1>1, <1>2, <1>3, <1>4, <1>5, <1>6, <2>1 DEF HandlerStep, TakeRow, CallAt

\* Every step of a request.
LEMMA CallSafe ==
    ASSUME OInv, NEW h \in Calls, CallStep(h)
    PROVE  OInv' /\ OrdersOnly
  <1>1. CASE call[h].pc \in Holding /\ (HandlerStep(h) \/ CrashCall(h))
    BY <1>1, HandlerSafe
  <1>2. CASE call[h].pc \notin Holding /\ CrashCall(h)
    <2>1. CallRest(h) /\ UNCHANGED <<reconcilerVars, order, ledger, inflight>>
      BY <1>2 DEF CrashCall
    <2>2. OrdersTypeOK /\ call \in [Calls -> Call]
      BY DEF OInv, OrdersTypeOK
    <2>3. /\ call' \in [Calls -> Call] /\ \A g \in Calls : g # h => call'[g] = call[g]
          /\ call'[h].pc = "over" /\ "over" \notin Holding
      BY <2>1, <2>2, CallMoves DEF CallRest, NoCall, Holding
    <2>4. OrdersTypeOK' /\ CallOK(h)'
      BY <2>1, <2>2, <2>3
         DEF reconcilerVars, OrdersTypeOK, ReconcilerTypeOK, JournalTypeOK, QueueTypeOK, CallOK
    <2> QED
      BY <1>2, <2>1, <2>3, <2>4, OutsideStep
  <1>3. CASE call[h].pc \notin Holding /\ HandlerStep(h)
    <2>1. TakeRow(h)
      BY <1>3 DEF HandlerStep, Journal, CallEngine, RecordCommit, RecordFailedCall, Accept, Refuse,
                  PublishLost, CallAt, Holding, CallStates
    <2> QED
      BY <2>1, TakeSafe
  <1> QED
    BY <1>1, <1>2, <1>3, StartSafe DEF CallStep

-----------------------------------------------------------------------------
(* The reconciler, the engine, the operator and the sweep.                 *)

\* The listener passes on the keys it is given and finds no others.
LEMMA ListenerDrives ==
    ASSUME ReconcilerTypeOK(Payloads), NEW c \in Consumers, HandsOK(c), ListenerStep(c, FALSE),
           NEW k \in Keys, Queued(k)'
    PROVE  Queued(k)
  <1>t. con \in [Consumers -> Consumer] /\ con[c] \in Consumer /\ QueueTypeOK
    BY DEF ReconcilerTypeOK
  <1> USE DEF Queued
  <1>1. ASSUME NEW j \in Keys, DrainDue(c, j)
        PROVE  Queued(k)
    <2>1. /\ j \in schedule /\ entries' = entries /\ schedule' \subseteq schedule
          /\ \E m \in Messages : con' = [con EXCEPT ![c] = [pc |-> "drained", key |-> j, msg |-> m,
                                                            tries |-> 0, seen |-> 0]]
      BY <1>1 DEF DrainDue, Unschedule
    <2>2. \A d \in Consumers : HasInHand(d, k)' => HasInHand(d, k) \/ k = j
      BY <1>t, <2>1 DEF HasInHand
    <2> QED
      BY <2>1, <2>2 DEF InStream
  <1>2. CASE Republish(c)
    <2>1. /\ HasInHand(c, con[c].key) /\ con[c].msg \in Messages /\ schedule' = schedule
          /\ entries' = [entries EXCEPT ![con[c].msg] = [key |-> con[c].key, count |-> 0]]
          /\ con' = [con EXCEPT ![c] = Resting]
      BY <1>2 DEF Republish, AddEntry, Rest, At, HasInHand, HandsOK
    <2>2. \A d \in Consumers : HasInHand(d, k)' => HasInHand(d, k)
      BY <1>t, <2>1 DEF HasInHand, Resting
    <2>3. InStream(k)' => InStream(k) \/ k = con[c].key
      BY <1>t, <2>1 DEF InStream, QueueTypeOK
    <2> QED
      BY <2>1, <2>2, <2>3
  <1>3. ASSUME NEW m \in Messages, Pull(c, m) \/ Reclaim(c, m)
        PROVE  Queued(k)
    <2>1. /\ entries[m] # None /\ schedule' = schedule
          /\ \E count : entries' = [entries EXCEPT ![m].count = count]
          /\ \E count : con' = [con EXCEPT ![c] = [pc |-> "claim", key |-> entries[m].key, msg |-> m,
                                                   tries |-> 0, seen |-> count]]
      BY <1>3 DEF Pull, Reclaim, Read, Redeliver, Handed
    <2>2. entries[m] \in Entry
      BY <1>t, <2>1 DEF QueueTypeOK
    <2>3. /\ \A n \in Messages : n # m => entries'[n] = entries[n]
          /\ entries'[m].key = entries[m].key
      BY <1>t, <2>1, <2>2 DEF QueueTypeOK, Entry
    <2>4. InStream(k)' => InStream(k)
      BY <2>1, <2>3 DEF InStream
    <2>5. \A d \in Consumers : HasInHand(d, k)' => HasInHand(d, k) \/ k = entries[m].key
      BY <1>t, <2>1 DEF HasInHand
    <2> QED
      BY <2>1, <2>4, <2>5 DEF InStream
  <1>4. CASE \/ SkipRow(c, FALSE) \/ RecordSuccess(c) \/ RecordFailure(c) \/ RecordAbandon(c)
             \/ Reschedule(c) \/ DeadLetter(c) \/ Acknowledge(c) \/ Throw(c) \/ CrashConsumer(c)
    <2>1. /\ con[c].pc # "idle"
          /\ Rest(c) \/ \E pc \in {"ack", "park", "retry"} : Goto(c, pc)
      BY <1>4 DEF SkipRow, RecordSuccess, RecordFailure, RecordAbandon, Reschedule, DeadLetter,
                  Acknowledge, Throw, CrashConsumer, At
    <2>2. \A d \in Consumers : HasInHand(d, k)' => HasInHand(d, k)
      BY <1>t, <2>1 DEF HasInHand, Rest, Goto, Resting, Consumer
    <2>3. schedule' \subseteq schedule \cup {con[c].key}
      BY <1>4 DEF SkipRow, RecordSuccess, RecordFailure, RecordAbandon, Reschedule, DeadLetter,
                  Acknowledge, Throw, CrashConsumer, Schedule, ParkInDlq, Ack, queueVars
    <2>4. entries' = entries \/ entries' = [entries EXCEPT ![con[c].msg] = None]
      BY <1>4 DEF SkipRow, RecordSuccess, RecordFailure, RecordAbandon, Reschedule, DeadLetter,
                  Acknowledge, Throw, CrashConsumer, Schedule, ParkInDlq, Ack, queueVars
    <2>5. InStream(k)' => InStream(k)
      BY <1>t, <2>4 DEF InStream, QueueTypeOK
    <2>6. HasInHand(c, con[c].key)
      BY <2>1 DEF HasInHand
    <2> QED
      BY <2>2, <2>3, <2>5, <2>6
  <1> QED
    BY <1>1, <1>2, <1>3, <1>4 DEF ListenerStep

\* While nobody's order, request or movement changes, the invariant rests on the
\* journal and the broker alone.
LEMMA JournalStep ==
    ASSUME OInv, OrdersTypeOK', UNCHANGED <<order, call>>, ledger \subseteq ledger',
           \A k \in Keys : Moved(k)' /\ ~Moved(k) => HandedOver(k),
           \A c \in Consumers : con'[c] = con[c] \/ ConsumerOK(c)',
           \A k \in Keys : row'[k] = row[k] \/ RowOK(k)',
           \A k \in Keys : Driven(k)' => Driven(k)
    PROVE  OInv' /\ OrdersOnly
  <1>1. ASSUME NEW k \in OrderKeys
        PROVE  OrderOK(k)'
    <2>1. OrderOK(k) /\ (Moved(k)' => Moved(k) \/ HandedOver(k))
      BY KeyFacts DEF OInv
    <2> QED
      BY <2>1 DEF OrderOK, HandedOver, OrderIn, Taken
  <1>2. ASSUME NEW h \in Calls
        PROVE  CallOK(h)'
    <2>1. CallOK(h) /\ call'[h] = call[h]
      BY DEF OInv
    <2>2. CASE call[h].pc \in Holding
      <3>1. PICK k \in OrderKeys : k = call[h].key /\ Holds(h, k)
        BY <2>1, <2>2 DEF CallOK, Holds, Holding
      <3>2. Moved(k)' => Moved(k)
        BY <3>1, KeyFacts DEF HandedOver
      <3> QED
        BY <2>1, <2>2, <3>1, <3>2 DEF CallOK, OrderIn, Taken, Holds
    <2>3. call[h].pc \in {"journal", "call", "refused", "refuse", "done", "accept"} => call[h].pc \in Holding
      BY DEF Holding, CallStates
    <2> QED
      BY <2>1, <2>2, <2>3 DEF CallOK, Taken
  <1>3. \A k \in Keys : Driven(k) => HandedOver(k)'
    BY DEF OInv, HandedOver, OrderIn, Taken, Holds
  <1>4. OInv'
    BY <1>1, <1>2, <1>3, Rebuild
  <1>5. \A r \in Redemptions : Refund(r) \in Keys /\ ~HandedOver(Refund(r))
    BY KeyFacts DEF HandedOver
  <1> QED
    BY <1>4, <1>5 DEF OrdersOnly

\* The listener writes nothing but the disposition its consumer came with.
LEMMA ListenSafe ==
    ASSUME OInv, NEW c \in Consumers, ListenerStep(c, FALSE), UNCHANGED orderVars
    PROVE  OInv' /\ OrdersOnly
  <1> USE DEF orderVars
  <1>t. OrdersTypeOK /\ ReconcilerTypeOK(Payloads) /\ ConsumerOK(c)
    BY DEF OInv, OrdersTypeOK
  <1>1. ReconcilerTypeOK(Payloads)' /\ Listens(c)
    BY <1>t, ListenerShape, RowAssumption DEF ConsumerOK
  <1>2. OrdersTypeOK'
    BY <1>t, <1>1 DEF OrdersTypeOK
  <1>3. ConsumerOK(c)'
    BY <1>1 DEF Listens, ConsumerOK, Working
  <1>4. \/ row' = row
        \/ \E status \in Statuses :
              /\ Writes(con[c].key, {status})
              /\ HasInHand(c, con[c].key) /\ con[c].key \in Keys
              /\ status = "SUCCEEDED" => con[c].key \in ledger
    BY <1>t, <1>1 DEF Listens, Disposes, At, ConsumerOK, HandsOK, HasInHand
  <1>5. \A k \in Keys : row'[k] = row[k] \/ RowOK(k)'
    BY <1>4, RowWritten
  <1>6. ASSUME NEW k \in Keys, Driven(k)'
        PROVE  Driven(k)
    <2>1. Queued(k)' => Queued(k)
      BY <1>t, ListenerDrives DEF ConsumerOK
    <2>2. HasStatus(k, {"ABANDONED"})' => HasStatus(k, {"ABANDONED"}) \/ HasInHand(c, k)
      BY <1>4 DEF Writes, HasStatus, Journaled
    <2> QED
      BY <1>6, <2>1, <2>2 DEF Driven, Queued
  <1> QED
    BY <1>1, <1>2, <1>3, <1>5, <1>6, JournalStep DEF Listens, Moved

\* A consumer claims what it was handed, and replays it.
LEMMA ReplaySafe ==
    ASSUME OInv, NEW c \in Consumers, ClaimOrder(c) \/ Replayed(c)
    PROVE  OInv' /\ OrdersOnly
  <1> USE DEF orderVars, queueVars
  <1>t. /\ OrdersTypeOK /\ JournalTypeOK(Payloads) /\ QueueTypeOK /\ ConsumerOK(c)
        /\ con \in [Consumers -> Consumer] /\ con[c] \in Consumer
    BY DEF OInv, OrdersTypeOK, ReconcilerTypeOK
  <1>b. con[c].pc \in {"claim", "call"}
    BY DEF ClaimOrder, ClaimRow, Replayed, At
  <1>k. PICK k \in Keys : k = con[c].key /\ con[c].msg \in Messages
    BY <1>t, <1>b DEF ConsumerOK, HandsOK
  <1>h. Driven(k) /\ HandedOver(k)
    <2>1. HasInHand(c, k)
      BY <1>b, <1>k DEF HasInHand
    <2> QED
      BY <2>1 DEF Driven, Queued, OInv
  <1>d. ASSUME UNCHANGED <<schedule, entries>>, \A e \in Consumers : e # c => con'[e] = con[e],
               con'[c].key = k,
               \A j \in Keys : HasStatus(j, {"ABANDONED"})' => HasStatus(j, {"ABANDONED"})
        PROVE  \A j \in Keys : Driven(j)' => Driven(j)
    <2>1. \A j \in Keys, e \in Consumers : HasInHand(e, j)' => HasInHand(e, j) \/ j = k
      BY <1>d DEF HasInHand
    <2> QED
      BY <1>d, <1>h, <2>1 DEF Driven, Queued, InStream
  <1>1. CASE ClaimOrder(c)
    <2>1. Claim(k) /\ UNCHANGED <<queueVars, orderVars>>
      BY <1>1, <1>k DEF ClaimOrder, ClaimRow
    <2>2. Writes(k, {row[k].status}) /\ Journaled(k) /\ row[k].attempts + 1 \in 1..MaxAttempts
      BY <1>t, <2>1, ClaimWrites, RowAssumption
    <2>3. JournalTypeOK(Payloads)'
      BY <1>t, <2>1, JournalWrites
    <2>4. con' = [con EXCEPT ![c].pc = "call", ![c].tries = row[k].attempts + 1]
      BY <1>1, <1>k DEF ClaimOrder, ClaimRow
    <2>5. /\ con' \in [Consumers -> Consumer] /\ \A d \in Consumers : d # c => con'[d] = con[d]
          /\ con'[c].pc = "call" /\ con'[c].key = k /\ con'[c].msg = con[c].msg
      <3>1. row[k].attempts + 1 \in 0..MaxAttempts
        BY <2>2, AttemptsAssumption
      <3>2. "call" \in ConsumerStates
        BY DEF ConsumerStates, Working
      <3> QED
        BY <1>t, <1>k, <2>4, <3>1, <3>2 DEF Consumer
    <2>6. OrdersTypeOK'
      BY <1>t, <2>1, <2>3, <2>5 DEF OrdersTypeOK, ReconcilerTypeOK, QueueTypeOK
    <2>7. ConsumerOK(c)'
      BY <1>k, <2>5 DEF ConsumerOK, HandsOK
    <2>8. \A j \in Keys : row'[j] = row[j] \/ RowOK(j)'
      BY <2>1, <2>2, RowWritten DEF OInv, RowOK, HasStatus
    <2>9. \A j \in Keys : HasStatus(j, {"ABANDONED"})' => HasStatus(j, {"ABANDONED"})
      BY <2>2 DEF Writes, HasStatus, Journaled
    <2>10. \A j \in Keys : Driven(j)' => Driven(j)
      BY <1>d, <2>1, <2>5, <2>9
    <2> QED
      BY <2>1, <2>5, <2>6, <2>7, <2>8, <2>10, JournalStep DEF Moved
  <1>2. CASE Replayed(c)
    <2>1. /\ UNCHANGED <<row, queueVars, order, call>>
          /\ EngineCommits(k) \/ EngineTimesOut(k) \/ EngineRefuses(k)
      BY <1>2, <1>k DEF Replayed
    <2>2. /\ ledger \subseteq ledger' /\ ledger' \subseteq Keys /\ inflight' \subseteq Keys
          /\ \A j \in Keys : j # k /\ Moved(j)' => Moved(j)
          /\ EngineCommits(k) => k \in ledger'
      BY <1>t, <2>1, EngineAnswers
    <2>3. PICK pc \in {"succeed", "fail", "abandon"} : Goto(c, pc) /\ (pc = "succeed" => k \in ledger')
      BY <1>2, <1>k, <2>2 DEF Replayed
    <2>4. pc \in ConsumerStates
      BY DEF ConsumerStates, Working
    <2>5. /\ con' \in [Consumers -> Consumer] /\ \A d \in Consumers : d # c => con'[d] = con[d]
          /\ con'[c].pc = pc /\ con'[c].key = k /\ con'[c].msg = con[c].msg
      BY <1>t, <1>k, <2>3, <2>4 DEF Goto, Consumer
    <2>6. OrdersTypeOK'
      BY <1>t, <2>1, <2>2, <2>5 DEF OrdersTypeOK, ReconcilerTypeOK, JournalTypeOK, QueueTypeOK
    <2>7. ConsumerOK(c)'
      BY <1>k, <2>3, <2>5 DEF ConsumerOK, HandsOK
    <2>8. \A j \in Keys : Driven(j)' => Driven(j)
      BY <1>d, <2>1, <2>5 DEF HasStatus, Journaled
    <2> QED
      BY <1>h, <2>1, <2>2, <2>5, <2>6, <2>7, <2>8, JournalStep
  <1> QED
    BY <1>1, <1>2

\* The engine answers late, an operator replays, the sweep deletes.
LEMMA KeySafe ==
    ASSUME OInv, NEW k \in Keys, LateCommit(k) \/ Replay(k) \/ Sweep(k)
    PROVE  OInv' /\ OrdersOnly
  <1> USE DEF reconcilerVars, queueVars, orderVars
  <1>t. OrdersTypeOK /\ JournalTypeOK(Payloads) /\ QueueTypeOK
    BY DEF OInv, OrdersTypeOK, ReconcilerTypeOK
  <1>1. CASE LateCommit(k)
    <2>1. /\ UNCHANGED <<reconcilerVars, order, call>> /\ ledger \subseteq ledger'
          /\ ledger' \subseteq Keys /\ inflight' \subseteq Keys
          /\ \A j \in Keys : Moved(j)' => Moved(j)
      BY <1>1, <1>t DEF LateCommit, CommitsLate, EngineCommits, Moved, OrdersTypeOK
    <2>2. OrdersTypeOK'
      BY <1>t, <2>1 DEF OrdersTypeOK, ReconcilerTypeOK, JournalTypeOK, QueueTypeOK
    <2>3. \A j \in Keys : Driven(j)' => Driven(j)
      BY <2>1 DEF Driven, Queued, InStream, HasInHand, HasStatus, Journaled
    <2> QED
      BY <2>1, <2>2, <2>3, JournalStep
  <1>2. CASE Replay(k)
    <2>1. Resurrect(k) /\ UNCHANGED <<con, orderVars>> /\ Driven(k)
      BY <1>2 DEF Replay, Resurrect, Driven
    <2>2. JournalTypeOK(Payloads)' /\ Writes(k, {"PENDING", "ABANDONED"})
      BY <1>t, <2>1, JournalWrites, ReplayWrites, RowAssumption
    <2>3. schedule' = schedule /\ dlq' = dlq
          /\ \/ entries' = entries
             \/ \E m \in Messages : entries' = [entries EXCEPT ![m] = [key |-> k, count |-> 0]]
      BY <1>2 DEF Replay, Publish, AddEntry
    <2>4. QueueTypeOK'
      BY <1>t, <2>3, DeliveriesAssumption DEF QueueTypeOK, Entry
    <2>5. OrdersTypeOK'
      BY <1>t, <2>1, <2>2, <2>4 DEF OrdersTypeOK, ReconcilerTypeOK
    <2>6. \A j \in Keys : row'[j] = row[j] \/ RowOK(j)'
      BY <2>1, <2>2, RowWritten
    <2>7. \A j \in Keys : Driven(j)' => Driven(j)
      <3>1. \A j \in Keys : InStream(j)' => InStream(j) \/ j = k
        BY <1>t, <2>3 DEF InStream, QueueTypeOK
      <3>2. \A j \in Keys : HasStatus(j, {"ABANDONED"})' => HasStatus(j, {"ABANDONED"}) \/ j = k
        BY <2>2 DEF Writes, HasStatus, Journaled
      <3> QED
        BY <2>1, <2>3, <3>1, <3>2 DEF Driven, Queued, HasInHand
    <2> QED
      BY <2>1, <2>5, <2>6, <2>7, JournalStep DEF Moved
  <1>3. CASE Sweep(k)
    <2>1. DeleteSettled(k) /\ UNCHANGED <<queueVars, con, orderVars>>
      BY <1>3 DEF Sweep
    <2>2. JournalTypeOK(Payloads)'
      BY <1>t, <2>1, JournalWrites
    <2>3. OrdersTypeOK'
      BY <1>t, <2>1, <2>2 DEF OrdersTypeOK, ReconcilerTypeOK, QueueTypeOK
    <2>4. \A j \in Keys : row'[j] = row[j] \/ row'[j] = None
      BY <1>t, <2>1 DEF DeleteSettled, JournalTypeOK
    <2>5. \A j \in Keys : Driven(j)' => Driven(j)
      BY <2>1, <2>4 DEF Driven, Queued, InStream, HasInHand, HasStatus, Journaled
    <2> QED
      BY <2>1, <2>3, <2>4, <2>5, JournalStep DEF Moved, RowOK, HasStatus, Journaled
  <1> QED
    BY <1>1, <1>2, <1>3

\* Nothing is taken, journaled, committed or held at the start.
LEMMA OrdersInitSafe ==
    ASSUME OrdersInit
    PROVE  OInv
  <1> USE DEF OrdersInit, ReconcilerInit, JournalInit, QueueInit
  <1>1. OrdersTypeOK
    BY AttemptsAssumption, DeliveriesAssumption
       DEF OrdersTypeOK, ReconcilerTypeOK, JournalTypeOK, QueueTypeOK, Consumer, ConsumerStates,
           Resting, Call, CallStates, NoCall
  <1>2. \A k \in OrderKeys : OrderOK(k)
    BY DEF OrderOK, Taken, Moved
  <1>3. \A h \in Calls : CallOK(h)
    BY KeyFacts DEF CallOK, NoCall, Taken, Holding
  <1>4. \A c \in Consumers : ConsumerOK(c)
    BY DEF ConsumerOK, HandsOK, Resting
  <1>5. \A k \in Keys : RowOK(k) /\ ~Driven(k)
    BY DEF RowOK, HasStatus, Journaled, Driven, Queued, InStream, HasInHand, Resting
  <1> QED
    BY <1>1, <1>2, <1>3, <1>4, <1>5 DEF OInv

\* Every step on the orders' side.
LEMMA OrdersStepSafe ==
    ASSUME OInv,
           \/ \E h \in Calls : CallStep(h)
           \/ \E c \in Consumers : ConsumerStep(c)
           \/ \E k \in Keys : LateCommit(k) \/ Replay(k) \/ Sweep(k)
    PROVE  OInv' /\ OrdersOnly
  BY CallSafe, ListenSafe, ReplaySafe, KeySafe DEF ConsumerStep

=============================================================================
