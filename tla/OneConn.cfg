CONSTANTS
    InitSize = 1
    Chunk = 2
    Bytes = {1, 2}
    MaxLen = 4
    MaxSlice = 3
    PageSize = 2
    Values = 9
    MaxUnread = 8
    BlobBuf = 2
    BlobSize = 3
    BlobSlice = 4
    BlobBytes = {0, 1}
    Names = {"f"}
    MaxScopes = 3
    MaxWrites = 2
    Queries = {"q1", "q2"}
    Stmts = {s1, s2}
    NoStmt = NoStmt
    Params = {"v"}
    MaxFrames = 2
    MaxTries = 1
    WordBits = 2
    MaxParams = 4
    Unknown = 99
SPECIFICATION OneConnSpec
INVARIANTS
    LikeReference
    NoPanic
    LikeAQueue
    BlobLikeSlice
    StmtsAgree
    BindErrorsSurface
    StepsOnlyBound
PROPERTIES
    ReadsToTheEnd
    ScopeIsAtomic
    InterruptRestored
    HelpersReset
CHECK_DEADLOCK FALSE
