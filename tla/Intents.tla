------------------------------ MODULE Intents ------------------------------
(***************************************************************************)
(* The names the components of the gateway share: an intent is named by    *)
(* its operator_transaction_id, the key on which the journal, the broker   *)
(* and the True Engine all de-duplicate.                                   *)
(***************************************************************************)
CONSTANTS
    Keys,   \* operator_transaction_ids
    None    \* an absent row, message, key ...

ASSUME NoneAssumption == None \notin Keys

=============================================================================
