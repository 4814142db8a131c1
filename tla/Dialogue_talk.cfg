CONSTANTS
    Names = {"a"}
    Ids = {1}
    Sizes = {0, 5, 7}
    MaxDepth = 2
    MaxEntries = 1
    ClientBuf = 4
    ServerBuf = 2
    IntMod = 12
    SizeMod = 16
    DbMayFail = TRUE
    DiskMayFail = TRUE
    LocalMayFail = TRUE
    LinkMayFail = TRUE
SPECIFICATION FairSpec
CHECK_DEADLOCK FALSE
INVARIANTS TypeOK Framed AnswersRead PromptTold UploadWhole NeverBothWait
PROPERTIES Returns CalledOnce CommandsAdvance
