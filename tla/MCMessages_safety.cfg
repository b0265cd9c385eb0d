CONSTANTS
  ann = ann
  bob = bob
  p1 = p1
  p2 = p2
  q = q
  k1 = k1
  k2 = k2
  hi = hi
  oh = oh
  User = {ann, bob}
  Attempt <- Repeats
  From <- RepeatSender
  Key <- RepeatKeys
  Body <- RepeatTexts
  Upload = {}
  Wording = {hi, oh}
  Empty = Empty
  Marker = {m1}
  Changer = {e1}
  MaxTime = 1
  DbMayFail = TRUE
  MayRestart = TRUE
SPECIFICATION FairSpec
INVARIANTS
  SentOnce
  DeliveredIsStored
  AnsweredIsDelivered
  
PROPERTIES
  AttemptIsAnswered
