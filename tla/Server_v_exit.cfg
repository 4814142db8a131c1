SPECIFICATION Spec
CONSTANTS
  NoName = NoName
  c1 = c1
  c2 = c2
  a = a
  b = b
  Users = {"u", "v"}
  Names = {a, b}
  BadNames = {}
  Conns = {c1, c2}
  InitUsers <- TwoUsers
  InitFolders <- Tree
  InitFiles <- NoRows
  InitFolderPerms <- Mixed
  InitFilePerms <- NoPerms
  Commands <- OpenCommands
  Logins <- OwnerAndGuest
  DbMayFail = FALSE
  DiskMayFail = FALSE
  MayCrash = FALSE
  MaxFolders = 5
  MaxFiles = 2
  MaxUsers = 2
INVARIANTS HomeOutsideShares
