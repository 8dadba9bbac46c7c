\* A slow reconciler and its peer on the bet of one spin; nothing else fails.
CONSTANTS
    None = None
    Keys <- SpinKeys
    Rounds = {r1}
    Winning = {}
    MaxAttempts = 2
    Messages = {m1}
    MaxDeliveries = 1
    Consumers = {c1, c2}
    Calls = {h1}
    Faults = {}
SPECIFICATION FairSpec
PROPERTY DeferralEnds
CHECK_DEADLOCK FALSE
