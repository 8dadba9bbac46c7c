\* Two deliveries of one round (a spin, its redelivery or its rollback) and two
\* reconcilers; every process may crash and the handlers' broker calls fail.
CONSTANTS
    None = None
    Keys <- SpinKeys
    Rounds = {r1}
    Winning = {r1}
    MaxAttempts = 1
    Messages = {m1}
    MaxDeliveries = 1
    Consumers = {c1, c2}
    Calls = {h1, h2}
    Faults = {"crash", "broker", "infra"}
SYMMETRY Symmetry
SPECIFICATION Spec
INVARIANTS TypeOK SettledIsCommitted MovesFollowDebit CompensatedIsReversed
CHECK_DEADLOCK FALSE
