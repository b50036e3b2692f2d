\* A poll or a broadcast finds a socket whose token is not saved yet.
SPECIFICATION Spec
CONSTANTS
    None = None
    JoinBoard = JoinBoard
    k1 = k1  s1 = s1  ann = ann  bob = bob
    Socket = {k1}
    Session = {s1}
    User = {ann, bob}
    Node = {n1}
    Event = {e1}
    SessionOf <- OneSession
    FirstOwner <- Owner
CHECK_DEADLOCK FALSE
INVARIANTS
    RevocationIsReal
