\* The broker refuses the backstop and every webhook is lost.
CONSTANTS
    None = None
    Keys = {k1}
    Players = {p1}
    Prices = {x1}
    MaxAttempts = 2
    Messages = {m1}
    MaxDeliveries = 1
    Consumers = {c1}
    Requests = {r1}
    Hooks = {h1}
    Faults = {"broker"}
SPECIFICATION Spec
INVARIANT NoSilentDrop
CHECK_DEADLOCK FALSE
