SPECIFICATION Spec
CONSTANTS
    Place = {"B1","B2","B3","C1","C2","C3","D1","D2","D3"}
    Prj = "P"
    Req = {1,2}
    MaxPool = 2
    Home <- MCHome
    FirstOrder <- MCFirstOrder
    Lists <- MCLists

    Usr = {"u","v"}
    Proj = {"A","B","N"}
    Existing = {"A","B"}
    Ask = {1,2}
    MaxRow = 7
    Creator <- MCCreator
    PrefixOf <- MCPrefixOf
    FirstMember <- MCFirstMember

    Reader = {1,2}
    Snapshot <- MCSnapshot
    KnownFirst <- MCKnownFirst
    Window = 2
    MaxClock = 6

    Work = {"w1", "w2"}
    ProjectOf <- MCProjectOf
    Homes = {"p", "q"}
    Limit = 2
    MaxEntries = 4
    MaxTurns = 1

    Object = {"o1", "o2"}
    Client = {1, 2}
    MaxFiles = 2
    MaxPuts = 3
    Issue = {1,2,3,4,5}
    Above <- MCAbove
    StatusOf <- MCStatusOf
    Statuses = 2
    FirstColumns = 1
    FirstNumbers = {2}
    FirstCounter = 1
    MaxTasks = 7

    Lane = {"K1", "K2"}
    Card = {1, 2, 3, 4, 5}
    Mover = {1, 2}
    AskedPlaces = {0, 1}
    Roles = {"responsible", "other"}
    MaxMoves = 2
    MaxRules = 1
    FirstCards <- MCFirstCards
    FirstRules <- MCFirstRules
INVARIANTS
    UndisturbedOrder
    LastReorderHolds
    AnsweredIsDone
    DistinctOrders
    ClosedWindowIsComplete
    ReadingIsComplete
    AttachedFilesHaveRows
    ImportIsAccountedFor
PROPERTIES
    PlacedAsAsked
    RulesHold
    EveryRequestEnds
CHECK_DEADLOCK FALSE
