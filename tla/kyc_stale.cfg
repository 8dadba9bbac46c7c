\* Two deliveries of one case's decisions, at the same time.
CONSTANTS
    None = None
    Users <- MCUsers
    Cases <- MCCases
    Owner <- MCOwner
    Events <- MCEvents
    About <- MCAbout
    Subject <- MCSubject
    Verdict <- MCVerdict
    DecidedAt <- MCDecidedAt
    Times = {1, 2, 3}
    Handlers = {h1, h2}
SPECIFICATION Spec
INVARIANTS NewestDecisionStands
CHECK_DEADLOCK FALSE
