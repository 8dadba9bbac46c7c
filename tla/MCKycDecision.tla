--------------------------- MODULE MCKycDecision ---------------------------
(***************************************************************************)
(* Two players and three cases: an approval that a later decision takes    *)
(* back, an update without a decision, an event that names the wrong       *)
(* player, and one that names nobody and carries no time.                  *)
(***************************************************************************)
EXTENDS KycDecision

MCUsers == {"ann", "bob"}
MCCases == {"first", "second", "other"}
MCOwner == [c \in MCCases |-> IF c = "other" THEN "bob" ELSE "ann"]

MCEvents == {"approve", "revoke", "update", "misnamed", "bare"}
MCAbout == [e \in MCEvents |-> IF e \in {"misnamed", "bare"} THEN "other" ELSE "first"]
MCSubject == [e \in MCEvents |-> IF e = "bare" THEN None ELSE "ann"]
MCVerdict == [e \in MCEvents |-> CASE e = "revoke" -> "REJECTED"
                                   [] e = "update" -> "PENDING"
                                   [] OTHER -> "APPROVED"]
MCDecidedAt == [e \in MCEvents |-> CASE e = "revoke" -> 2
                                     [] e = "bare" -> None
                                     [] OTHER -> 1]

=============================================================================
