\* Two requests, of one redemption or of the claims of one player, an operator
\* and two payout workers; every process may crash and the broker fail.
CONSTANTS
    None = None
    Keys <- MoneyKeys
    Redemptions = {r1}
    Periods = {p1, p2}
    Attempts = {a1, a2}
    Calls = {h1, h2}
    MaxAttempts = 2
    Messages = {m1}
    MaxDeliveries = 2
    Consumers = {c1}
    Operators = {o1}
    Workers = {w1, w2}
    PayMessages = {n1}
    Faults = {"crash", "broker", "infra"}
SYMMETRY Symmetry
SPECIFICATION Spec
CONSTRAINTS OneKindOfOrder RequestsBeforeReview
INVARIANTS TypeOK SettledIsCommitted ReceiptIsCommitted RefusedIsNotMade OneCreditPerPeriod
    MoneyOutFollowsDebit PaidExcludesRefund
    RefundIsNotReplayed OutcomeIsTrue
PROPERTIES ClaimedNeverReturns MoneyOutSpec
CHECK_DEADLOCK FALSE
