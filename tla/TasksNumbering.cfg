\* Requests that keep a hierarchy whole, on a project with two boards beside another
\* project: relocations take subtasks along and numbers stay unique.
SPECIFICATION Spec
CONSTANTS
    None = None
    p1 = p1  p2 = p2
    t1 = t1  t2 = t2  t3 = t3
    c1 = c1  c2 = c2  c3 = c3
    b1 = b1  b2 = b2  b3 = b3
    pr1 = pr1  pr2 = pr2
    Proc = {p1, p2}
    TaskId = {t1, t2, t3}
    Column = {c1, c2, c3}
    Board = {b1, b2, b3}
    Project = {pr1, pr2}
    BoardOf <- ThreeBoardsBoardOf
    ProjectOf <- ThreeBoardsProjectOf
    Legacy = {t1, t2}
    LegacyNumber = {1, 2}
    Requests = {"create", "attach", "detach", "move", "delete", "archiveBoard"}
    MaxRequests = 4
    MaxNumber = 6
CHECK_DEADLOCK FALSE
SYMMETRY Processes
INVARIANTS
    UniqueNumbers
    OneBoardHierarchy
    NumberingInv
PROPERTIES
    MoveTakesActiveSubtasks
