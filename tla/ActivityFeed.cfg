\* Two writers whose events may commit out of order, a reader with pages of one entry.
SPECIFICATION Spec
CONSTANTS
    None = None
    t1 = t1  t2 = t2  pr1 = pr1  pr2 = pr2  w1 = w1  w2 = w2
    Writer = {w1, w2}
    TaskId = {t1, t2}
    Project = {pr1, pr2}
    User = {ann}
    Home <- OneProject
    Limit = 1
    MaxEvent = 3
CHECK_DEADLOCK FALSE
SYMMETRY WritersAndTasks
VIEW Unmarked
INVARIANTS
    NothingMissed
PROPERTIES
    EventsReachTheInvolved
    AnswersHideWithdrawn
