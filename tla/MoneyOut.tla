------------------------------ MODULE MoneyOut ------------------------------
(***************************************************************************)
(* What money out promises, with no mention of rows, streams, operators or *)
(* workers: a redemption is debited, then either paid out by the rail or   *)
(* given back, each at most once and never both, and it is shown as paid   *)
(* only when it has been.  None of it is ever taken back.                  *)
(***************************************************************************)
CONSTANT Redemptions

VARIABLES
    debited,   \* redemptions taken off the player's balance
    paid,      \* redemptions the rail has paid out
    returned,  \* redemptions credited back to the player
    reported   \* redemptions the gateway shows as PAID

moneyVars == <<debited, paid, returned, reported>>

Init == debited = {} /\ paid = {} /\ returned = {} /\ reported = {}

Debit(r) ==
    /\ r \notin debited
    /\ debited' = debited \cup {r}
    /\ UNCHANGED <<paid, returned, reported>>

PayOut(r) ==
    /\ r \in debited \ (paid \cup returned)
    /\ paid' = paid \cup {r}
    /\ UNCHANGED <<debited, returned, reported>>

GiveBack(r) ==
    /\ r \in debited \ (paid \cup returned)
    /\ returned' = returned \cup {r}
    /\ UNCHANGED <<debited, paid, reported>>

Report(r) ==
    /\ r \in paid \ reported
    /\ reported' = reported \cup {r}
    /\ UNCHANGED <<debited, paid, returned>>

Next == \E r \in Redemptions : Debit(r) \/ PayOut(r) \/ GiveBack(r) \/ Report(r)

Spec == Init /\ [][Next]_moneyVars

=============================================================================
