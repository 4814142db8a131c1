SPECIFICATION Spec
CONSTANTS
  NoName = NoName
  c1 = c1
  c2 = c2
  a = a
  b = b
  Users = {"u", "v", "w"}
  Names = {a}
  BadNames = {}
  Conns = {c1, c2}
  InitUsers <- TwoUsers
  InitFolders <- Flat
  InitFiles <- OneFile
  InitFolderPerms <- NoPerms
  InitFilePerms <- FileShared
  Commands <- SharingCommands
  Logins <- OwnerAndGuest
  DbMayFail = FALSE
  DiskMayFail = FALSE
  MayCrash = FALSE
  MaxFolders = 5
  MaxFiles = 2
  MaxUsers = 3
INVARIANTS UsersGetRoots DownloadHasBlob
PROPERTIES RightsKept RequestsAdvance
