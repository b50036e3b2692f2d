SPECIFICATION ServicesSpec
CONSTANTS
    t1 = t1
    ToolCall = {t1}
    ProjectRow = {"P1", "P2"}
    Owned = {"P1"}
    Board = {"B1", "B2", "B3"}
    Column = {"C1", "C2"}
    Task = {"T1"}
    Tag = {"G1", "G2"}
    Colleague = {"U1"}
    Later = {"B2"}
    MaxChanges = 1
    Nothing = Nothing
    Parent <- MCParent
    FirstColumn <- MCFirstColumn
    Tokens <- MCTokens

    Account = {"e1","e2","e3"}
    Number = {"n1","n2"}
    RowId = {1,2,3,4}
    Caller = {1,2}
    NoErp = NoErp
    FirstRows <- MCFirstRows

    Person = {1,2,3}
    Tabel = {"n1","n2","n3"}
    Op = {1,2}
    MaxErp = 1
    FirstStaff <- MCFirstStaff

    Token = {"t1","t2","x"}
    Broken = {"x"}
    Identity = {"u1","u2"}
    Http = {1}
    MaxTokens = 2
    Sent <- MCSent
    OwnerOf <- MCOwnerOf

    Item = {1,2,3}
    ColumnId = {1,2}
    Batch = 2
    Attr <- MCAttr
    LaneOf <- MCLaneOf
    Parents <- MCParents
    Query <- MCQuery

    None = None
    Proc = {p1, p2}
    User = {"ann", "bob"}
    Admin = {"ann", "bob"}
    TaskId = {"t1"}
    Project = {"pr1", "pr2"}
    Row = {1, 2}
    MaxRequests = 4
    Owner <- MCOwner
    Requests <- MCKinds

INVARIANTS
    ScopesHold
    ChangesWereConfirmed
    TagsStayInTheirProject
    TouchedWasReadable
    AgreeingDeliveriesSucceed
    FreeNumberWasFree
    OnlyVerifiedToken
    ListsAreComplete
    BannedUnassigned
PROPERTIES
    LinksAreConfirmed
    LastAdminStays
    OnlyActiveMembers
CHECK_DEADLOCK FALSE
