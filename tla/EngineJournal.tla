--------------------------- MODULE EngineJournal ---------------------------
(***************************************************************************)
(* The intent journal: table engine_request_log of the financial gateway.  *)
(* One row per operator_transaction_id (a key) says which money movement   *)
(* was intended and how far it got; it never holds a balance.  The module  *)
(* gives one operator per statement the code issues against the table.     *)
(* Each statement is one database transaction, hence one step; what makes  *)
(* the journal hard is that the handlers and the consumers of the          *)
(* reconcile queue run these statements in any order.                      *)
(*                                                                         *)
(* Two kinds of writes exist.  MarkTerminal re-reads the status under a    *)
(* row lock and refuses to leave a final status.  Overwrite updates the    *)
(* row by id whatever its status is.                                       *)
(***************************************************************************)
EXTENDS Naturals, Intents

CONSTANT MaxAttempts   \* RECONCILE_MAX_ATTEMPTS: claims an intent may consume

ASSUME AttemptsAssumption == MaxAttempts \in Nat \ {0}

VARIABLE row      \* row[k]: the journal row of key k, or None

\* EngineRequestStatus; a row is still actionable in the first two.
OpenStatuses  == {"PENDING", "FAILED"}
FinalStatuses == {"SUCCEEDED", "COMPENSATED", "ABANDONED"}
Statuses      == OpenStatuses \cup FinalStatuses

\* A row whose request payload is drawn from bodies.
RowOf(bodies) == [status : Statuses, attempts : 0..MaxAttempts, body : bodies]

JournalTypeOK(bodies) == row \in [Keys -> RowOf(bodies) \cup {None}]

JournalInit == row = [k \in Keys |-> None]

Journaled(k) == row[k] # None

HasStatus(k, statuses) == Journaled(k) /\ row[k].status \in statuses

-----------------------------------------------------------------------------
\* Mutant: a claim with an off-by-one budget.
MutClaimableOneMore(k) ==
    /\ HasStatus(k, OpenStatuses)
    /\ row[k].attempts <= MaxAttempts

-----------------------------------------------------------------------------
\* createIntentIfAbsent: INSERT ... ON CONFLICT DO NOTHING.
CreateIntentIfAbsent(k, body) ==
    row' = IF Journaled(k)
             THEN row
             ELSE [row EXCEPT ![k] = [status |-> "PENDING", attempts |-> 0, body |-> body]]

\* markIntentTerminal: a no-op on a final row.  It throws when the row is
\* missing; callers here hold a key they have journaled.
MarkTerminal(k, status) ==
    /\ Journaled(k)
    /\ row' = IF row[k].status \in FinalStatuses
                THEN row
                ELSE [row EXCEPT ![k].status = status]

\* setStatus, markFailed and the PSP failure path: UPDATE ... WHERE id.
Overwrite(k, status) ==
    /\ Journaled(k)
    /\ row' = [row EXCEPT ![k].status = status]

\* claimEngineRequest's filter: the rows one more attempt may be spent on.
Claimable(k) ==
    /\ HasStatus(k, OpenStatuses)
    /\ row[k].attempts < MaxAttempts

\* claimEngineRequest: the attempt is spent in the transaction that claims.
Claim(k) ==
    /\ Claimable(k)
    /\ row' = [row EXCEPT ![k].attempts = @ + 1]

\* Admin replay: ABANDONED -> PENDING with a fresh budget ...
Resurrect(k) ==
    /\ HasStatus(k, {"ABANDONED"})
    /\ row' = [row EXCEPT ![k] = [status |-> "PENDING", attempts |-> 0, body |-> @.body]]

\* ... and its undo when the event cannot be published.
UndoResurrect(k) ==
    row' = IF HasStatus(k, {"PENDING"})
             THEN [row EXCEPT ![k].status = "ABANDONED"]
             ELSE row

\* sweepExpiredOutboxRows deletes a settled row past its retention age.
DeleteSettled(k) ==
    /\ HasStatus(k, {"SUCCEEDED"})
    /\ row' = [row EXCEPT ![k] = None]

=============================================================================
