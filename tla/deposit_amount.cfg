\* One attempt, retried with another package.
CONSTANTS
    None = None
    Keys = {k1}
    Players = {p1}
    Prices = {x1, x2}
    MaxAttempts = 2
    Messages = {m1}
    MaxDeliveries = 1
    Consumers = {c1}
    Requests = {r1}
    Hooks = {h1}
    Faults = {}
SPECIFICATION Spec
PROPERTY CreditMatchesCharge
CHECK_DEADLOCK FALSE
