CONSTANTS
    None = None
    Keys = {k1}
    Players = {p1}
    Prices = {x1}
    MaxAttempts = 2
    Messages = {m1}
    MaxDeliveries = 1
    Consumers = {c1, c2}
    Requests = {r1}
    Hooks = {h1}
    Faults = {}
SPECIFICATION FairSpec
INVARIANT NoSilentDrop
PROPERTY CaptureIsResolved
CHECK_DEADLOCK FALSE
