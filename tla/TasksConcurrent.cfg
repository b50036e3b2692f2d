\* Every request of two processes over two projects: locks, numbers, parents.
SPECIFICATION Spec
CONSTANTS
    None = None
    p1 = p1  p2 = p2
    t1 = t1  t2 = t2  t3 = t3
    c1 = c1  c2 = c2  c3 = c3
    b1 = b1  b2 = b2  b3 = b3
    pr1 = pr1  pr2 = pr2
    Proc = {p1, p2}
    TaskId = {t1, t2, t3}
    Column = {c1, c2}
    Board = {b1, b2}
    Project = {pr1, pr2}
    BoardOf <- TwoProjectsBoardOf
    ProjectOf <- TwoProjectsProjectOf
    Legacy = {t1}
    LegacyNumber = {1, 2}
    Requests <- AllRequests
    MaxRequests = 5
    MaxNumber = 5
CHECK_DEADLOCK FALSE
SYMMETRY Processes
INVARIANTS
    ParentsAcyclic
    TasksInv
PROPERTIES
    NumbersGivenOnce
    PlacementUnderLock
