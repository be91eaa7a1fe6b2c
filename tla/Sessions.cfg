SPECIFICATION FairSpec
CONSTANTS
    Clients = {c1, c2}
    Backlog = 1
    MaxConns = 3
INVARIANTS
    TypeOK
    ZombiesNoticed
PROPERTIES
    ClientsServed
    ChildrenReaped
\* With MaxConns connections made and every client ended nothing is left to do.
CHECK_DEADLOCK FALSE
