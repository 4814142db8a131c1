SPECIFICATION FairSpec
CONSTANTS
  NoName = NoName
  c1 = c1
  c2 = c2
  a = a
  b = b
  Users = {"u", "v"}
  Names = {a, b}
  BadNames = {}
  Conns = {c1, c2}
  InitUsers <- TwoUsers
  InitFolders <- Flat
  InitFiles <- OneShared
  InitFolderPerms <- Editor
  InitFilePerms <- NoPerms
  Commands <- FileCommands
  Logins <- OwnerAndGuest
  DbMayFail = TRUE
  DiskMayFail = FALSE
  MayCrash = FALSE
  MaxFolders = 5
  MaxFiles = 2
  MaxUsers = 2
INVARIANTS RowsHaveBlobs DownloadHasBlob NoOrphanBlob
PROPERTIES RightsKept RequestsAnswered
