----------------------------- MODULE TrueEngine -----------------------------
(***************************************************************************)
(* Zone 1, the ledger service behind the gateway (external).  It commits a *)
(* movement at most once per key and answers a repeat from the receipt of  *)
(* the first; it may refuse; and a request the gateway timed out on may    *)
(* commit at any later time.                                               *)
(***************************************************************************)
EXTENDS Intents

VARIABLES
    ledger,     \* keys of the movements the engine has committed
    inflight    \* keys whose request was sent and timed out: may commit yet

\* The movement of key k is made, or may be: its request is on its way.
Moved(k) == k \in ledger \cup inflight

EngineCommits(k) ==
    /\ ledger' = ledger \cup {k}
    /\ inflight' = inflight \ {k}

EngineTimesOut(k) ==
    /\ inflight' = IF k \in ledger THEN inflight ELSE inflight \cup {k}
    /\ UNCHANGED ledger

EngineRefuses(k) ==
    /\ k \notin ledger
    /\ UNCHANGED <<ledger, inflight>>

CommitsLate(k) ==
    /\ k \in inflight
    /\ EngineCommits(k)

=============================================================================
