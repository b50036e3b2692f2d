\* A socket with a poll, a broadcast and a join under way.
SPECIFICATION FairSpec
CONSTANTS
    None = None
    JoinBoard = JoinBoard
    k1 = k1  s1 = s1  ann = ann  bob = bob
    Socket = {k1}
    Session = {s1}
    User = {ann, bob}
    Node = {n1}
    Event = {e1}
    SessionOf <- OneSession
    FirstOwner <- Owner
CHECK_DEADLOCK FALSE
INVARIANTS
    NothingAfterLoss
    RefusalsAreRight
PROPERTIES
    LostSessionsEnd
