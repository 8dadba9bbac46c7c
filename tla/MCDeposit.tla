----------------------------- MODULE MCDeposit -----------------------------
(***************************************************************************)
(* Symmetry and bounds for the model-checking runs of the deposit saga:    *)
(* accounts, processes and stream entries are interchangeable, and the     *)
(* bounds below limit how much goes on at once.                            *)
(***************************************************************************)
EXTENDS Deposit, TLC

Symmetry ==
    Permutations(Players) \cup Permutations(Requests) \cup
    Permutations(Consumers) \cup Permutations(Messages)

Purchasing == {r \in Requests : req[r].pc # "idle"}
Settlers   == {h \in Hooks : hook[h].pc # "idle"} \cup {c \in Consumers : ~At(c, "idle")}

\* A bound of the run: two processes at work at a time.
TwoAtATime == Cardinality(Purchasing \cup Settlers) <= 2

\* A bound of the run: while two accounts contest an attempt, one webhook or
\* consumer at work at a time and one claim of the row.
Contest ==
    \E k \in Keys : \E p, q \in Players : p # q /\ psp[<<p, k>>] # "none" /\ psp[<<q, k>>] # "none"

OneRaceAtATime ==
    Contest => /\ Cardinality(Settlers) <= 1
               /\ \A k \in Keys : Journaled(k) => row[k].attempts <= 1

=============================================================================
