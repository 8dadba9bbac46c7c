\* One request, nothing fails but the engine's answer: the promise that the
\* reconciler resolves a redemption whose debit got no answer.
CONSTANTS
    None = None
    Keys <- MoneyKeys
    Redemptions = {r1}
    Periods = {}
    Attempts = {}
    Calls = {h1}
    MaxAttempts = 1
    Messages = {m1}
    MaxDeliveries = 1
    Consumers = {c1}
    Operators = {o1}
    Workers = {w1}
    PayMessages = {n1}
    Faults = {}
SPECIFICATION FairSpec
PROPERTIES DebitReachesReview
CHECK_DEADLOCK FALSE
