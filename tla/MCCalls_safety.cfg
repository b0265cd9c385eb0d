CONSTANTS
  ann = ann
  bob = bob
  eve = eve
  c1 = c1
  c2 = c2
  User <- TwoUsers
  Call <- Calls12
  Caller <- MutualCaller
  Recipient <- MutualRecipient
  Socket = {s1, s2}
  MaxStarting = 2
  DbMayFail = TRUE
  MayRestart = TRUE
SPECIFICATION Spec
INVARIANTS
  GraceTimerSound
  RingingIsTimed
  LiveRecordHasSession
PROPERTIES
  OutcomeIsFinal
  NoCallVanishes
SYMMETRY SocketSymmetry
