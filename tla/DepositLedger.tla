--------------------------- MODULE DepositLedger ---------------------------
(***************************************************************************)
(* What the deposit saga promises, with no mention of the journal's rows,  *)
(* the broker, the handlers or the consumers: an attempt is paid for, then *)
(* credited once, and shown as settled only when it has been credited.     *)
(***************************************************************************)
CONSTANT Attempts

VARIABLES
    paid,      \* attempts with a captured payment
    credited,  \* attempts whose coins are in the ledger
    settled    \* attempts the gateway reports as settled

ledgerVars == <<paid, credited, settled>>

Init == paid = {} /\ credited = {} /\ settled = {}

Pay(a) ==
    /\ a \notin paid
    /\ paid' = paid \cup {a}
    /\ UNCHANGED <<credited, settled>>

Credit(a) ==
    /\ a \in paid \ credited
    /\ credited' = credited \cup {a}
    /\ UNCHANGED <<paid, settled>>

Settle(a) ==
    /\ a \in credited \ settled
    /\ settled' = settled \cup {a}
    /\ UNCHANGED <<paid, credited>>

\* A settled attempt may drop out of the journal again: its row is deleted
\* after the retention age, and a stale writer may reopen it.
Reopen(a) ==
    /\ a \in settled
    /\ settled' = settled \ {a}
    /\ UNCHANGED <<paid, credited>>

Next == \E a \in Attempts : Pay(a) \/ Credit(a) \/ Settle(a) \/ Reopen(a)

Spec == Init /\ [][Next]_ledgerVars

=============================================================================
