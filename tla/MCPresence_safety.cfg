CONSTANTS
    ann = ann
    bob = bob
    a = a
    b1 = b1
    b2 = b2
    y1 = y1
    x1 = x1
    x2 = x2
    User = {ann, bob}
    Founder = ann
    Conversation = {g}
    Page = {a, b1, b2}
    PageUser <- PageUserOf
    Watcher = {a}
    Socket = {y1, x1, x2}
    PageOf <- SocketPage
    None = None
    Limit = 2
    MaxOnTheWay = 0
    DbMayFail = TRUE
    MayRestart = TRUE

SPECIFICATION FairSpec

INVARIANTS
    PresenceIsCurrent
PROPERTIES
    AbsenceIsSeen
