CONSTANTS
  ann = ann
  bob = bob
  p1 = p1
  p2 = p2
  q = q
  k1 = k1
  k2 = k2
  hi = hi
  oh = oh
  User = {ann, bob}
  Attempt <- TwoSends
  From <- TwoSender
  Key <- TwoKeys
  Body <- TwoTexts
  Upload = {q}
  Wording = {hi, oh}
  Empty = Empty
  Marker = {m1, m2}
  Changer = {e1}
  MaxTime = 2
  DbMayFail = FALSE
  MayRestart = FALSE
SPECIFICATION Spec
SYMMETRY SlotSymmetry
INVARIANTS
  MemoryIsStored
