\* A subtask is created while its parent is being deleted.
SPECIFICATION Spec
CONSTANTS
    None = None
    p1 = p1  p2 = p2
    t1 = t1  t2 = t2  t3 = t3
    c1 = c1  c2 = c2  c3 = c3
    b1 = b1  b2 = b2  b3 = b3
    pr1 = pr1  pr2 = pr2
    Proc = {p1, p2}
    TaskId = {t1, t2}
    Column = {c1, c2}
    Board = {b1}
    Project = {pr1}
    BoardOf <- OneBoardBoardOf
    ProjectOf <- OneBoardProjectOf
    Legacy = {t1}
    LegacyNumber = {1}
    Requests = {"subtask", "delete"}
    MaxRequests = 3
    MaxNumber = 4
CHECK_DEADLOCK FALSE
INVARIANTS
    NoOrphanSubtask
