SPECIFICATION Spec
CONSTANTS
  NoName = NoName
  c1 = c1
  c2 = c2
  a = a
  b = b
  Users = {"u", "v"}
  Names = {a, b}
  BadNames = {}
  Conns = {c1, c2}
  InitUsers <- TwoUsers
  InitFolders <- Wide
  InitFiles <- NoRows
  InitFolderPerms <- Wider
  InitFilePerms <- NoPerms
  Commands <- ShareCommands
  Logins <- OwnerAndGuest
  DbMayFail = FALSE
  DiskMayFail = FALSE
  MayCrash = TRUE
  MaxFolders = 6
  MaxFiles = 2
  MaxUsers = 2
INVARIANTS TypeOK ConfinedToShare RootsStay
PROPERTIES SharedWritesConfined ViewerNeverWrites RightsKept
