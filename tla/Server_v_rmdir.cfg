SPECIFICATION Spec
CONSTANTS
  NoName = NoName
  c1 = c1
  c2 = c2
  a = a
  b = b
  Users = {"u", "v"}
  Names = {a}
  BadNames = {}
  Conns = {c1, c2}
  InitUsers <- TwoUsers
  InitFolders <- Flat
  InitFiles <- NoRows
  InitFolderPerms <- NoPerms
  InitFilePerms <- NoPerms
  Commands <- RmdirCommands
  Logins <- OwnerTwice
  DbMayFail = FALSE
  DiskMayFail = FALSE
  MayCrash = FALSE
  MaxFolders = 5
  MaxFiles = 2
  MaxUsers = 2
PROPERTIES RemovedEmpty
