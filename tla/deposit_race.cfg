\* Two accounts present one purchase attempt, or one account retries it, while
\* two consumers, one of which may be slow, a webhook and an operator settle it.
CONSTANTS
    None = None
    Keys = {k1}
    Players = {p1, p2}
    Prices = {x1}
    MaxAttempts = 2
    Messages = {m1}
    MaxDeliveries = 1
    Consumers = {c1, c2}
    Requests = {r1, r2}
    Hooks = {h1}
    Faults = {"crash", "infra", "broker", "decline"}
SYMMETRY Symmetry
SPECIFICATION Spec
CONSTRAINTS TwoAtATime OneRaceAtATime
INVARIANTS TypeOK FailedMeansPaid SettledIsCredited SoleCaptureHasItsRow
PROPERTIES CreditsOnOwnCapture LedgerSpec
CHECK_DEADLOCK FALSE
