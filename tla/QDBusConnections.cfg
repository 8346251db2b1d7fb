SPECIFICATION Spec
CONSTANTS
    Handle = {h1, h2, h3}
    Private = {p1, p2, p3}
    Name = {n1, n2}
    Bus = {session, system}
    NoPriv = NoPriv
    NoBus = NoBus
SYMMETRY Interchangeable
INVARIANTS
    TypeOK
    RefsCount
    CallbacksAlive
    SoleConnectionWorks
    OneListener
CHECK_DEADLOCK FALSE
