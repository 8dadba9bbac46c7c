\* One delivery of a spin and two reconcilers without faults, either
\* of them slow enough for its message to be reclaimed: what a failed win waits
\* for happens.  The engine still refuses, times out and commits late.
CONSTANTS
    None = None
    Keys <- SpinKeys
    Rounds = {r1}
    Winning = {r1}
    MaxAttempts = 2
    Messages = {m1}
    MaxDeliveries = 1
    Consumers = {c1, c2}
    Calls = {h1}
    Faults = {}
SPECIFICATION FairSpec
INVARIANT NoWinDropped
PROPERTY WinIsResolved
CHECK_DEADLOCK FALSE
