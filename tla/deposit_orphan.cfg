\* Two accounts present one attempt; both are given a secret, one a row.
CONSTANTS
    None = None
    Keys = {k1}
    Players = {p1, p2}
    Prices = {x1}
    MaxAttempts = 1
    Messages = {m1}
    MaxDeliveries = 1
    Consumers = {c1}
    Requests = {r1, r2}
    Hooks = {h1}
    Faults = {}
SPECIFICATION Spec
INVARIANT CaptureHasARow
CHECK_DEADLOCK FALSE
