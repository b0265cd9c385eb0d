CONSTANTS
    Ticket = {one, two}
    Me = Me
    Other = {bob}
    Nobody = Nobody
    Field = {status}
    Value = {x, y}
    Refresh = {r1}
    MaxChanges = 2
    Conversation = {one, two}
    Word = {x, y}
    NoWord = NoWord
    MaxSends = 2
    Chat = {one, two}
    MaxGets = 3
    MaxVersion = 2
    ann = ann
    bob = bob
    Reader = {ann, bob}
    Request = {p1, p2}
    Post = {m1}
    Click = {k1, k2, k3}
    Title = {x, y}
    NoBookmark = NoBookmark
    DbMayFail = TRUE
    MayRestart = TRUE
    MayReset = TRUE
    Entry = {e1, e2, e3}
    System = {e3}
    Decision = {e1}
    Action = {e2}
    MaxTime = 3
    MaxMarks = 1
    PageLimit = 1
    RecentLimit = 2
    AnalyzedLimit = 2
    MomentLimit = 1
SPECIFICATION MCSpec
SYMMETRY PartSymmetry
VIEW PartView
CONSTRAINTS
    BobOnlyDeletes
    OneKindOfReading
    LocatedWhileConnected
INVARIANTS
    SupportPageIsSound
    ComposerSentHomeOnce
    ChatPageIsCurrent
    KeptIsStored
    
