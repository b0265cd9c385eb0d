CONSTANTS
  eve = eve
  User = {ann, bob, eve}
  Creator = ann
  GlobalAdmin = {ann}
  Watcher = {bob}
  Handler = {r1, r2}
  Nobody = Nobody
  DbMayFail = TRUE
  MayRestart = TRUE
SPECIFICATION Spec
SYMMETRY RequestSymmetry
INVARIANTS
  RoomsArePrivate
  RolesAreStored
  GroupHasOneOwner
CONSTRAINTS
  LossIsQuiet
  EveIsBystander
