CONSTANTS
    Names = {"a"}
    Ids = {1}
    Sizes = {0, 5}
    MaxDepth = 1
    MaxEntries = 1
    ClientBuf = 4
    ServerBuf = 2
    IntMod = 12
    SizeMod = 16
    DbMayFail = FALSE
    DiskMayFail = FALSE
    LocalMayFail = FALSE
    LinkMayFail = FALSE
SPECIFICATION FairSpec
CHECK_DEADLOCK FALSE
PROPERTY FileAclReturns
