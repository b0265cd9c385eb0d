CONSTANTS
  ada = ada
  kim = kim
  mia = mia
  rob = rob
  m1 = m1
  m2 = m2
  User = {ada, kim, mia, rob}
  Reporter = {rob}
  Editor = {mia}
  Admin = {ada, kim}
  Reviewer = {ada}
  Message = {m1, m2}
  Sender <- SenderOf
  Report = {r1}
  Audit = {x1, x2}
  Handler = {h1, h2}
  MaxWarnings = 1
  None = None
  DbMayFail = TRUE
  MayRestart = TRUE
SPECIFICATION Spec
SYMMETRY Symmetry
INVARIANTS
  EvidenceIsKept
  DecisionIsCarriedOut
  SuspensionIsEnforced
CONSTRAINT OtherMessageStays
