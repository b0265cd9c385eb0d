\* Tickets and groups of the automation: two attempts per webhook call.
CONSTANTS
    t1 = t1
    t2 = t2
    g1 = g1
    g2 = g2
    g3 = g3
    d1 = d1
    d2 = d2
    h1 = h1
    h2 = h2
    h3 = h3
    None = None
    Ticket = {t1, t2}
    Group = {g1, g2, g3}
    Delivery = {d1, d2}
    Request = {h1, h2, h3}
    MaxAttempts = 2
    DbMayFail = TRUE
    MayRestart = TRUE

SPECIFICATION AutomationSpec
SYMMETRY Symmetry
CONSTRAINT SecondTicketIsRare

INVARIANTS
    AcknowledgedIsWhole
    CreationsAreShared
