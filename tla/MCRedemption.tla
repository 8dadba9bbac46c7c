---------------------------- MODULE MCRedemption ----------------------------
(***************************************************************************)
(* Keys and symmetry for the model-checking runs of redemptions and of the *)
(* promotional claims that share their protocol and their reconciler.      *)
(***************************************************************************)
EXTENDS Redemption, TLC

MoneyKeys == OrderKeys \cup ({"refund"} \X Redemptions)

Symmetry == Permutations(Workers) \cup Permutations(Calls)

\* Bound: the calls of one behaviour are all of the redemption or all claims,
\* which share the protocol and the reconciler but no row.
OneKindOfOrder ==
    LET begun == {k \in OrderKeys : Taken(k) \/ \E h \in Calls : call[h].key = k}
    IN  begun \subseteq {"redeem"} \X Redemptions \/ begun \subseteq {"grant"} \X Calls

\* Bound: the client's requests have begun when the review does.
RequestsBeforeReview ==
    (\E r \in Redemptions : Taken(Redeem(r)) /\ ~Is(r, {"REQUESTED"}))
        => \A h \in Calls : ~CallAt(h, {"idle"})

=============================================================================
