\* One spin whose answers are lost, and the reconciler.
CONSTANTS
    None = None
    Keys <- SpinKeys
    Rounds = {r1}
    Winning = {r1}
    MaxAttempts = 1
    Messages = {m1}
    MaxDeliveries = 1
    Consumers = {c1}
    Calls = {h1}
    Faults = {}
SYMMETRY Symmetry
SPECIFICATION Spec
INVARIANTS VoidIsUndebited
CHECK_DEADLOCK FALSE
