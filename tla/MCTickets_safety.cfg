CONSTANTS
  Ticket = {t1}
  Admin = {a1, a2}
  Nobody = Nobody
  Requester = Requester
  Detail = {low, high}
  Request = {r1, r2}
  MaxVersion = 3
  DbMayFail = TRUE
  MayRestart = TRUE
  MayClear = TRUE
SPECIFICATION FairSpec
INVARIANTS
  CacheIsCoherent
  ActivitiesAreCoherent
  TrailExplainsTicket
PROPERTIES
  ImplementsLedger
  ReadersCatchUp
