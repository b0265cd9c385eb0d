CONSTANTS
  User = {ann, bob}
  Watcher = {bob}
  Invitation = {i1, i2}
  Conversation = {c1, c2}
  Handler = {h1, h2}
  MaxRefreshes = 2
  None = None
  DbMayFail = TRUE
  MayRestart = TRUE
SPECIFICATION Spec
SYMMETRY Symmetry
INVARIANTS
  AcceptedAreContacts
  AnswersAreKept
  OneLinkPerPair
  PageIsCurrent
CONSTRAINT MissedPageIsQuiet
