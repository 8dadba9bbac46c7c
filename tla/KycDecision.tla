---------------------------- MODULE KycDecision ----------------------------
(***************************************************************************)
(* Identity verification: document uploads open cases, and the provider's  *)
(* webhooks decide them.                                                   *)
(*                                                                         *)
(* Every event is claimed by an insert before anything is applied; the     *)
(* decision is then compared with the case as it was READ, written with    *)
(* the player's status in one transaction, relayed to the True Engine if   *)
(* it approves, and the event's outcome is narrowed at the end.  The       *)
(* provider redelivers, delivers out of order, and delivers two events of  *)
(* one case to two processes.                                              *)
(***************************************************************************)
EXTENDS Naturals

CONSTANTS
    None,
    Users,
    Cases, Owner,           \* Owner[c]: the player the provider opened case c for
    Events,                 \* provider event ids, and what each one says:
    About, Subject,         \*   its case and the player it names, or None
    Verdict, DecidedAt,     \*   the case status, and when it was decided, or None
    Times,                  \* the times a clock may show, none of them 0
    Handlers                \* deliveries, each handled once

VARIABLES
    verification,  \* verification[c]: the row of case c, or None
    kycStatus,     \* kycStatus[u]: the status on the user row
    outcome,       \* outcome[e]: the webhook event row, or None
    engineKyc,     \* the True Engine's own time of the last approval of u, 0 if none
    handler        \* handler[h]: delivery h

vars == <<verification, kycStatus, outcome, engineKyc, handler>>

\* decidedAt: 0 while the case is undecided.
Undecided == [status |-> "PENDING", decidedAt |-> 0]
NoHandler == [pc |-> "idle", event |-> None, decidedAt |-> 0, result |-> None]

Init ==
    /\ verification = [c \in Cases |-> None]
    /\ kycStatus = [u \in Users |-> "PENDING"]
    /\ outcome = [e \in Events |-> None]
    /\ engineKyc = [u \in Users |-> 0]
    /\ handler = [h \in Handlers |-> NoHandler]

HandlerAt(h, pc) == handler[h].pc = pc
EventOf(h) == handler[h].event
CaseOf(h) == About[EventOf(h)]
HandlerGoto(h, pc) == handler' = [handler EXCEPT ![h].pc = pc]
FinishWith(h, result) == handler' = [handler EXCEPT ![h].pc = "finish", ![h].result = result]
HandlerRest(h) == handler' = [handler EXCEPT ![h] = [NoHandler EXCEPT !.pc = "over"]]

-----------------------------------------------------------------------------
\* The provider (external) has decided case c when some event of it says so.
Decided(c) == \E e \in Events : About[e] = c /\ Verdict[e] # "PENDING"

\* requestDocumentUpload: a player who is not verified opens a case, which the
\* row mirrors once.  The provider keeps one open case per player.
OpenCase(c) ==
    /\ kycStatus[Owner[c]] # "VERIFIED"
    /\ verification[c] = None
    /\ \A d \in Cases : Owner[d] = Owner[c] /\ verification[d] # None => Decided(d)
    /\ verification' = [verification EXCEPT ![c] = Undecided]
    /\ UNCHANGED <<kycStatus, outcome, engineKyc, handler>>

\* The barrier: the second delivery of an event meets its row and is absorbed.
ClaimEvent(h, e) ==
    /\ HandlerAt(h, "idle")
    /\ IF outcome[e] = None
         THEN /\ outcome' = [outcome EXCEPT ![e] = "received"]
              /\ handler' = [handler EXCEPT ![h] = [NoHandler EXCEPT !.pc = "read", !.event = e]]
         ELSE HandlerRest(h) /\ UNCHANGED outcome
    /\ UNCHANGED <<verification, kycStatus, engineKyc>>

\* An event that carries no time is decided when it is handled: at any time, the
\* gateway's clock being none of the provider's.
TimesOf(e) == IF DecidedAt[e] = None THEN Times ELSE {DecidedAt[e]}

\* An event that names no player is taken to be about the owner of its case.
MayName(e, u) == Subject[e] \in {None, u}

\* Why the case as it stands now gives the event, decided at t, nothing to apply.
Declined(e, t) ==
    LET kase == verification[About[e]]
    IN  IF kase = None THEN "unknown_case"
        ELSE IF ~MayName(e, Owner[About[e]]) THEN "subject_mismatch"
        ELSE IF Verdict[e] = "PENDING" THEN "non_terminal"
        ELSE IF t <= kase.decidedAt THEN "stale_superseded"
        ELSE None

ReadCase(h) ==
    /\ HandlerAt(h, "read")
    /\ \E t \in TimesOf(EventOf(h)) :
          LET why == Declined(EventOf(h), t)
          IN  IF why = None
                THEN handler' = [handler EXCEPT ![h].pc = "apply", ![h].decidedAt = t]
                ELSE FinishWith(h, why)
    /\ UNCHANGED <<verification, kycStatus, outcome, engineKyc>>

\* One transaction writes the case and its owner; neither write is conditional.
ApplyDecision(h) ==
    LET e == EventOf(h)
        approved == Verdict[e] = "APPROVED"
    IN  /\ HandlerAt(h, "apply")
        /\ verification' = [verification EXCEPT
              ![CaseOf(h)] = [status |-> Verdict[e], decidedAt |-> handler[h].decidedAt]]
        /\ kycStatus' = [kycStatus EXCEPT
              ![Owner[CaseOf(h)]] = IF approved THEN "VERIFIED" ELSE "REJECTED"]
        /\ IF approved THEN HandlerGoto(h, "relay") ELSE FinishWith(h, "rejected")
        /\ UNCHANGED <<outcome, engineKyc>>

\* The engine (external) keeps the newest approval it was told of.
EngineHears(h) ==
    LET u == Owner[CaseOf(h)]
        decidedAt == handler[h].decidedAt
    IN  engineKyc' = [engineKyc EXCEPT ![u] = IF @ < decidedAt THEN decidedAt ELSE @]

\* A dispatch that fails, heard or not, throws: the event stays "received".
RelayApproval(h) ==
    /\ HandlerAt(h, "relay")
    /\ \/ EngineHears(h) /\ FinishWith(h, "approved")
       \/ (EngineHears(h) \/ UNCHANGED engineKyc) /\ HandlerRest(h)
    /\ UNCHANGED <<verification, kycStatus, outcome>>

Finish(h) ==
    /\ HandlerAt(h, "finish")
    /\ outcome' = [outcome EXCEPT ![EventOf(h)] = handler[h].result]
    /\ HandlerRest(h)
    /\ UNCHANGED <<verification, kycStatus, engineKyc>>

\* The process dies, or a query throws, once the event is claimed.
Crash(h) ==
    /\ handler[h].pc \in {"read", "apply", "relay", "finish"}
    /\ HandlerRest(h)
    /\ UNCHANGED <<verification, kycStatus, outcome, engineKyc>>

Next ==
    \/ \E c \in Cases : OpenCase(c)
    \/ \E h \in Handlers :
          \/ \E e \in Events : ClaimEvent(h, e)
          \/ ReadCase(h)
          \/ ApplyDecision(h)
          \/ RelayApproval(h)
          \/ Finish(h)
          \/ Crash(h)

Spec == Init /\ [][Next]_vars

-----------------------------------------------------------------------------
\* An old decision that lands after a newer one "must never downgrade a player
\* already resolved by that newer decision": the case of every dated decision that
\* was applied to the end shows that decision or a newer one.
NewestDecisionStands ==
    \A e \in Events :
        outcome[e] \in {"approved", "rejected"} /\ DecidedAt[e] # None
            => verification[About[e]].decidedAt >= DecidedAt[e]

\* Only the provider's approval of a case opened for the player, which names nobody
\* else, verifies a player.
VerifiedWasApproved ==
    \A u \in Users :
        kycStatus[u] = "VERIFIED"
            => \E e \in Events : /\ Verdict[e] = "APPROVED" /\ outcome[e] # None
                                /\ Owner[About[e]] = u /\ MayName(e, u)

\* The engine knows the owner approved as of the event's time, or of a later one.
Heard(e) == \E t \in TimesOf(e) : engineKyc[Owner[About[e]]] >= t

\* An event on record as approved has reached the True Engine, under its own time
\* or the one it was handled at.
ApprovalIsHeard == \A e \in Events : outcome[e] = "approved" => Heard(e)

=============================================================================
