----------------------------- MODULE KycProofs ------------------------------
(***************************************************************************)
(* What holds of identity verification for every set of players, cases,    *)
(* events and deliveries: who may be verified, and who has heard of it.    *)
(* Only the order of decisions is not kept (NewestDecisionStands).         *)
(***************************************************************************)
EXTENDS KycDecision, TLAPS

Why == {"unknown_case", "subject_mismatch", "non_terminal", "stale_superseded"}
Outcomes == {"received", "approved", "rejected"} \cup Why
HandlerStates == {"idle", "over", "read", "apply", "relay", "finish"}
Handler == [pc : HandlerStates, event : Events \cup {None}, decidedAt : Nat,
            result : Outcomes \cup {None}]

\* The provider's cases and events: each case has an owner, each event a case and
\* perhaps a time.  Whom it names and what it says may be anything.
Provider ==
    /\ None \notin Outcomes
    /\ Owner \in [Cases -> Users]
    /\ About \in [Events -> Cases]
    /\ Times \subseteq Nat
    /\ DecidedAt \in [Events -> Times \cup {None}]

TypeOK ==
    /\ kycStatus \in [Users -> {"PENDING", "VERIFIED", "REJECTED"}]
    /\ outcome \in [Events -> Outcomes \cup {None}]
    /\ engineKyc \in [Users -> Nat]
    /\ handler \in [Handlers -> Handler]

\* The event says that a case of u is approved, and names nobody else.
Approves(e, u) == Verdict[e] = "APPROVED" /\ Owner[About[e]] = u /\ MayName(e, u)

\* What delivery h may rely on.
HandlerOK(h) ==
    /\ handler[h].pc \in {"read", "apply", "relay", "finish"}
          => EventOf(h) \in Events /\ outcome[EventOf(h)] # None
    /\ HandlerAt(h, "apply") => MayName(EventOf(h), Owner[CaseOf(h)])
    /\ handler[h].pc \in {"apply", "relay"} => handler[h].decidedAt \in TimesOf(EventOf(h))
    /\ HandlerAt(h, "finish")
          => /\ handler[h].result # None
             /\ handler[h].result = "approved" => Heard(EventOf(h))

KInv ==
    /\ TypeOK
    /\ \A h \in Handlers : HandlerOK(h)
    /\ VerifiedWasApproved
    /\ ApprovalIsHeard

-----------------------------------------------------------------------------
\* The times of an event are numbers.
LEMMA TimesAreNumbers ==
    ASSUME Provider, NEW e \in Events
    PROVE  TimesOf(e) \subseteq Nat
  BY DEF Provider, TimesOf

\* The invariant of the next state: deliveries other than h rely on what no step
\* takes back.
LEMMA Rebuild ==
    ASSUME Provider, KInv, TypeOK', NEW h \in Handlers, HandlerOK(h)',
           \A g \in Handlers : g # h => handler'[g] = handler[g],
           \A e \in Events : outcome[e] # None => outcome'[e] # None,
           \A e \in Events : outcome'[e] = "approved"
                                => outcome[e] = "approved" \/ Heard(e)',
           \A u \in Users : engineKyc'[u] >= engineKyc[u],
           \A u \in Users : kycStatus'[u] = "VERIFIED"
                               => \/ kycStatus[u] = "VERIFIED"
                                  \/ \E e \in Events : Approves(e, u) /\ outcome[e] # None
    PROVE  KInv'
  <1>1. \A e \in Events : Owner[About[e]] \in Users /\ TimesOf(e) \subseteq Nat
    BY TimesAreNumbers DEF Provider
  <1>2. ASSUME NEW e \in Events, Heard(e)
        PROVE  Heard(e)'
    <2> DEFINE u == Owner[About[e]]
    <2>1. PICK t \in TimesOf(e) : engineKyc[u] >= t
      BY <1>2 DEF Heard
    <2>2. engineKyc[u] \in Nat /\ engineKyc'[u] \in Nat /\ t \in Nat
      BY <1>1 DEF KInv, TypeOK
    <2>3. engineKyc'[u] >= t
      BY <1>1, <2>1, <2>2
    <2> QED
      BY <2>3 DEF Heard, TimesOf
  <1>3. ASSUME NEW g \in Handlers, g # h
        PROVE  HandlerOK(g)'
    <2>1. HandlerOK(g) /\ handler'[g] = handler[g]
      BY <1>3 DEF KInv
    <2> QED
      BY <1>2, <2>1 DEF HandlerOK, HandlerAt, EventOf, CaseOf, MayName, TimesOf
  <1>4. VerifiedWasApproved'
    BY DEF KInv, VerifiedWasApproved, Approves
  <1>5. ApprovalIsHeard'
    BY <1>2 DEF KInv, ApprovalIsHeard
  <1> QED
    BY <1>3, <1>4, <1>5 DEF KInv

\* Nobody is verified at the start.
LEMMA InitSafe == ASSUME Provider, Init PROVE KInv
  BY DEF Provider, Init, KInv, TypeOK, Handler, HandlerStates, NoHandler, HandlerOK, HandlerAt,
         VerifiedWasApproved, ApprovalIsHeard, Outcomes

\* Opening a case concerns no delivery.
LEMMA OpenSafe ==
    ASSUME KInv, UNCHANGED <<kycStatus, outcome, engineKyc, handler>>
    PROVE  KInv'
  BY DEF KInv, TypeOK, HandlerOK, HandlerAt, EventOf, CaseOf, MayName, TimesOf, Heard,
         VerifiedWasApproved, ApprovalIsHeard

\* A delivery claims its event, reads, applies, relays, records or dies.
LEMMA DeliverySafe ==
    ASSUME Provider, KInv, NEW h \in Handlers,
           \/ \E e \in Events : ClaimEvent(h, e)
           \/ ReadCase(h) \/ ApplyDecision(h) \/ RelayApproval(h) \/ Finish(h) \/ Crash(h)
    PROVE  KInv'
  <1>t. /\ TypeOK /\ HandlerOK(h) /\ handler[h] \in Handler
        /\ None \notin Outcomes
    BY DEF KInv, TypeOK, Provider
  <1>g1. HandlerRest(h) => /\ handler' \in [Handlers -> Handler] /\ handler'[h].pc = "over"
                           /\ \A g \in Handlers : g # h => handler'[g] = handler[g]
    BY <1>t DEF HandlerRest, TypeOK, Handler, HandlerStates, NoHandler
  <1>g2. ASSUME NEW pc \in HandlerStates, HandlerGoto(h, pc)
         PROVE  /\ handler' \in [Handlers -> Handler] /\ handler'[h].pc = pc
                /\ handler'[h].event = EventOf(h)
                /\ handler'[h].decidedAt = handler[h].decidedAt
                /\ \A g \in Handlers : g # h => handler'[g] = handler[g]
    <2> DEFINE next == [handler[h] EXCEPT !.pc = pc]
    <2>1. /\ next \in Handler /\ next.pc = pc
          /\ next.event = EventOf(h) /\ next.decidedAt = handler[h].decidedAt
      BY <1>t DEF Handler, EventOf
    <2>2. handler' = [handler EXCEPT ![h] = next]
      BY <1>g2 DEF HandlerGoto
    <2> HIDE DEF next
    <2> QED
      BY <1>t, <2>1, <2>2 DEF TypeOK
  <1>g3. ASSUME NEW result \in Outcomes, FinishWith(h, result)
         PROVE  /\ handler' \in [Handlers -> Handler]
                /\ handler'[h].pc = "finish" /\ handler'[h].result = result
                /\ handler'[h].event = EventOf(h)
                /\ \A g \in Handlers : g # h => handler'[g] = handler[g]
    <2> DEFINE next == [handler[h] EXCEPT !.pc = "finish", !.result = result]
    <2>1. /\ next \in Handler /\ next.pc = "finish" /\ next.result = result
          /\ next.event = EventOf(h)
      BY <1>t DEF Handler, HandlerStates, EventOf
    <2>2. handler' = [handler EXCEPT ![h] = next]
      BY <1>t, <1>g3 DEF FinishWith, TypeOK
    <2> HIDE DEF next
    <2> QED
      BY <1>t, <2>1, <2>2 DEF TypeOK
  <1>o. handler'[h].pc \in {"idle", "over"} => HandlerOK(h)'
    BY DEF HandlerOK, HandlerAt
  <1>n. \A n \in Nat : n >= n
    OBVIOUS
  <1>e. \A u \in Users : engineKyc[u] >= engineKyc[u]
    BY <1>t, <1>n DEF TypeOK
  <1>1. ASSUME NEW e \in Events, ClaimEvent(h, e)
        PROVE  KInv'
    <2>1. CASE outcome[e] = None
      <3>1. /\ outcome' = [outcome EXCEPT ![e] = "received"] /\ UNCHANGED <<kycStatus, engineKyc>>
            /\ handler' = [handler EXCEPT ![h] = [NoHandler EXCEPT !.pc = "read", !.event = e]]
        BY <1>1, <2>1 DEF ClaimEvent
      <3>2. /\ [NoHandler EXCEPT !.pc = "read", !.event = e] \in Handler
            /\ [NoHandler EXCEPT !.pc = "read", !.event = e].pc = "read"
            /\ [NoHandler EXCEPT !.pc = "read", !.event = e].event = e
        BY DEF NoHandler, Handler, HandlerStates
      <3>3. TypeOK' /\ outcome'[e] = "received" /\ "received" \in Outcomes
        BY <1>t, <3>1, <3>2 DEF TypeOK, Outcomes
      <3>4. HandlerOK(h)'
        BY <1>t, <3>1, <3>2, <3>3 DEF HandlerOK, HandlerAt, EventOf, TypeOK
      <3>5. \A g \in Handlers : g # h => handler'[g] = handler[g]
        BY <1>t, <3>1 DEF TypeOK
      <3>6. /\ \A d \in Events : outcome[d] # None => outcome'[d] # None
            /\ \A d \in Events : outcome'[d] = "approved" => outcome[d] = "approved"
        BY <1>t, <3>1, <3>3 DEF TypeOK
      <3> QED
        BY <1>e, <3>1, <3>3, <3>4, <3>5, <3>6, Rebuild
    <2>2. CASE outcome[e] # None
      <3>1. HandlerRest(h) /\ UNCHANGED <<kycStatus, engineKyc, outcome>>
        BY <1>1, <2>2 DEF ClaimEvent
      <3>2. TypeOK'
        BY <1>g1, <1>t, <3>1 DEF TypeOK
      <3> QED
        BY <1>e, <1>g1, <1>o, <3>1, <3>2, Rebuild
    <2> QED
      BY <2>1, <2>2
  <1>2. CASE ReadCase(h)
    <2>1. EventOf(h) \in Events /\ outcome[EventOf(h)] # None
      BY <1>2, <1>t DEF ReadCase, HandlerAt, HandlerOK
    <2>2. UNCHANGED <<kycStatus, engineKyc, outcome>>
      BY <1>2 DEF ReadCase
    <2>3. ASSUME NEW t \in TimesOf(EventOf(h)), Declined(EventOf(h), t) = None,
                 handler' = [handler EXCEPT ![h].pc = "apply", ![h].decidedAt = t]
          PROVE  KInv'
      <3>1. MayName(EventOf(h), Owner[CaseOf(h)])
        BY <1>t, <2>3 DEF Declined, CaseOf, Outcomes, Why
      <3>2. t \in Nat
        BY <2>1, TimesAreNumbers
      <3>3. /\ handler' \in [Handlers -> Handler] /\ handler'[h].pc = "apply"
            /\ handler'[h].event = EventOf(h) /\ handler'[h].decidedAt = t
            /\ \A g \in Handlers : g # h => handler'[g] = handler[g]
        BY <1>t, <2>3, <3>2 DEF TypeOK, Handler, HandlerStates, EventOf
      <3>4. TypeOK'
        BY <1>t, <2>2, <3>3 DEF TypeOK
      <3>5. HandlerOK(h)'
        BY <2>1, <2>2, <3>1, <3>3 DEF HandlerOK, HandlerAt, EventOf, CaseOf, MayName, TimesOf
      <3> QED
        BY <1>e, <2>2, <3>3, <3>4, <3>5, Rebuild
    <2>4. CASE \E why \in Why : FinishWith(h, why)
      <3>1. PICK why \in Why : FinishWith(h, why)
        BY <2>4
      <3>2. why \in Outcomes /\ why # "approved"
        BY DEF Outcomes, Why
      <3>3. TypeOK' /\ handler'[h].pc = "finish" /\ handler'[h].result = why
            /\ handler'[h].event = EventOf(h)
        BY <1>g3, <1>t, <2>2, <3>1, <3>2 DEF TypeOK
      <3>4. HandlerOK(h)'
        BY <1>t, <2>1, <2>2, <3>2, <3>3 DEF HandlerOK, HandlerAt, EventOf, CaseOf
      <3> QED
        BY <1>e, <1>g3, <2>2, <3>1, <3>2, <3>3, <3>4, Rebuild
    <2>5. PICK t \in TimesOf(EventOf(h)) :
             \/ /\ Declined(EventOf(h), t) = None
                /\ handler' = [handler EXCEPT ![h].pc = "apply", ![h].decidedAt = t]
             \/ \E why \in Why : FinishWith(h, why)
      BY <1>2 DEF ReadCase, Declined, Why
    <2> QED
      BY <2>3, <2>4, <2>5
  <1>3. CASE ApplyDecision(h)
    <2> DEFINE e == EventOf(h)
    <2>1. /\ e \in Events /\ outcome[e] # None /\ MayName(e, Owner[About[e]])
          /\ handler[h].decidedAt \in TimesOf(e)
          /\ Owner[About[e]] \in Users
      BY <1>3, <1>t DEF ApplyDecision, HandlerAt, HandlerOK, CaseOf, Provider
    <2>2. UNCHANGED <<outcome, engineKyc>>
      BY <1>3 DEF ApplyDecision
    <2>3. kycStatus' = [kycStatus EXCEPT ![Owner[About[e]]] =
                           IF Verdict[e] = "APPROVED" THEN "VERIFIED" ELSE "REJECTED"]
      BY <1>3 DEF ApplyDecision, CaseOf
    <2>4. kycStatus' \in [Users -> {"PENDING", "VERIFIED", "REJECTED"}]
      BY <1>t, <2>3 DEF TypeOK
    <2>5. ASSUME NEW u \in Users, kycStatus'[u] = "VERIFIED"
          PROVE  kycStatus[u] = "VERIFIED" \/ \E d \in Events : Approves(d, u) /\ outcome[d] # None
      <3>1. CASE u # Owner[About[e]]
        BY <1>t, <2>3, <2>5, <3>1 DEF TypeOK
      <3>2. CASE u = Owner[About[e]]
        <4>1. Verdict[e] = "APPROVED"
          BY <1>t, <2>1, <2>3, <2>5, <3>2 DEF TypeOK
        <4> QED
          BY <2>1, <3>2, <4>1 DEF Approves
      <3> QED
        BY <3>1, <3>2
    <2>6. PICK pc \in {"relay", "finish"} :
             HandlerGoto(h, "relay") \/ FinishWith(h, "rejected")
      BY <1>3 DEF ApplyDecision
    <2>7. /\ handler' \in [Handlers -> Handler] /\ handler'[h].event = e
          /\ \A g \in Handlers : g # h => handler'[g] = handler[g]
          /\ \/ handler'[h].pc = "relay" /\ handler'[h].decidedAt = handler[h].decidedAt
             \/ handler'[h].pc = "finish" /\ handler'[h].result = "rejected"
      BY <1>g2, <1>g3, <2>6 DEF HandlerStates, Outcomes
    <2>8. TypeOK' /\ HandlerOK(h)'
      BY <1>t, <2>1, <2>2, <2>4, <2>7 DEF TypeOK, HandlerOK, HandlerAt, EventOf, CaseOf, Outcomes, TimesOf
    <2> QED
      BY <1>e, <2>2, <2>5, <2>7, <2>8, Rebuild
  <1>4. CASE RelayApproval(h)
    <2>1. PICK e \in Events : /\ e = EventOf(h) /\ outcome[e] # None
                              /\ Owner[About[e]] \in Users
                              /\ handler[h].decidedAt \in TimesOf(e)
      BY <1>4, <1>t DEF RelayApproval, HandlerAt, HandlerOK, Provider
    <2>2. UNCHANGED <<outcome, kycStatus>>
      BY <1>4 DEF RelayApproval
    <2>3. EngineHears(h) => /\ engineKyc' \in [Users -> Nat]
                            /\ \A u \in Users : engineKyc'[u] >= engineKyc[u]
                            /\ Heard(e)'
      <3>1. handler[h].decidedAt \in Nat
        BY <1>t DEF Handler
      <3>2. EngineHears(h) => /\ engineKyc' \in [Users -> Nat]
                              /\ \A u \in Users : engineKyc'[u] >= engineKyc[u]
                              /\ engineKyc'[Owner[About[e]]] >= handler[h].decidedAt
        BY <1>t, <2>1, <3>1 DEF EngineHears, CaseOf, TypeOK
      <3> QED
        BY <2>1, <3>2 DEF Heard, TimesOf
    <2>4. CASE EngineHears(h) /\ FinishWith(h, "approved")
      <3>1. /\ handler' \in [Handlers -> Handler] /\ handler'[h].event = e
            /\ handler'[h].pc = "finish" /\ handler'[h].result = "approved"
            /\ \A g \in Handlers : g # h => handler'[g] = handler[g]
        BY <1>g3, <2>1, <2>4 DEF Outcomes
      <3>2. TypeOK' /\ HandlerOK(h)'
        BY <1>t, <2>1, <2>2, <2>3, <2>4, <3>1
           DEF TypeOK, HandlerOK, HandlerAt, EventOf, CaseOf, Outcomes, Heard, TimesOf
      <3> QED
        BY <2>2, <2>3, <2>4, <3>1, <3>2, Rebuild
    <2>5. CASE (EngineHears(h) \/ UNCHANGED engineKyc) /\ HandlerRest(h)
      <3>1. engineKyc' \in [Users -> Nat] /\ \A u \in Users : engineKyc'[u] >= engineKyc[u]
        BY <1>e, <1>t, <2>3, <2>5 DEF TypeOK
      <3>2. TypeOK' /\ HandlerOK(h)'
        BY <1>g1, <1>o, <1>t, <2>2, <2>5, <3>1 DEF TypeOK
      <3> QED
        BY <1>g1, <2>2, <2>5, <3>1, <3>2, Rebuild
    <2> QED
      BY <1>4, <2>4, <2>5 DEF RelayApproval
  <1>5. CASE Finish(h)
    <2> DEFINE e == EventOf(h)
    <2>1. /\ e \in Events /\ handler[h].result # None
          /\ handler[h].result = "approved" => Heard(e)
      BY <1>5, <1>t DEF Finish, HandlerAt, HandlerOK, CaseOf
    <2>2. /\ outcome' = [outcome EXCEPT ![e] = handler[h].result] /\ HandlerRest(h)
          /\ UNCHANGED <<kycStatus, engineKyc>>
      BY <1>5 DEF Finish
    <2>3. handler[h].result \in Outcomes
      BY <1>t, <2>1 DEF Handler
    <2>4. TypeOK' /\ HandlerOK(h)'
      BY <1>g1, <1>o, <1>t, <2>2, <2>3 DEF TypeOK
    <2>5. /\ \A d \in Events : outcome[d] # None => outcome'[d] # None
          /\ \A d \in Events : outcome'[d] = "approved"
                                  => outcome[d] = "approved" \/ Heard(d)'
      BY <1>t, <2>1, <2>2 DEF TypeOK, Heard, TimesOf
    <2> QED
      BY <1>e, <1>g1, <2>2, <2>4, <2>5, Rebuild
  <1>6. CASE Crash(h)
    <2>1. HandlerRest(h) /\ UNCHANGED <<kycStatus, engineKyc, outcome>>
      BY <1>6 DEF Crash
    <2>2. TypeOK'
      BY <1>g1, <1>t, <2>1 DEF TypeOK
    <2> QED
      BY <1>e, <1>g1, <1>o, <2>1, <2>2, Rebuild
  <1> QED
    BY <1>1, <1>2, <1>3, <1>4, <1>5, <1>6

\* The invariant is inductive.
LEMMA StepSafe == ASSUME Provider, KInv, [Next]_vars PROVE KInv'
  BY OpenSafe, DeliverySafe DEF Next, OpenCase, vars

\* The invariant holds of every provider's cases and events.
THEOREM Invariance == ASSUME Provider PROVE Spec => []KInv
  <1>1. Init => KInv
    BY InitSafe
  <1>2. KInv /\ [Next]_vars => KInv'
    BY StepSafe
  <1> QED
    BY <1>1, <1>2, PTL DEF Spec

\* A player is verified only by an approval, on record, of a case opened for them,
\* and never by one that names somebody else, however deliveries interleave, crash
\* or arrive out of order.  An approval that names nobody counts, as in the code.
THEOREM VerifiedPlayersWereApproved == ASSUME Provider PROVE Spec => []VerifiedWasApproved
  <1>1. KInv => VerifiedWasApproved
    BY DEF KInv
  <1> QED
    BY <1>1, Invariance, PTL

\* An event shown as approved has reached the True Engine: the outcome is never
\* recorded ahead of the relay.
THEOREM ApprovalsAreHeard == ASSUME Provider PROVE Spec => []ApprovalIsHeard
  <1>1. KInv => ApprovalIsHeard
    BY DEF KInv
  <1> QED
    BY <1>1, Invariance, PTL

=============================================================================
