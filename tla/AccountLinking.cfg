\* One request at a time; any of them may stop halfway.
CONSTANTS
    Person = {e1, e2}
    Case = {c1, c2}
    Unit = {u1}
    Property = {p1}
    Handler = {h1}
    Lock = {"DISABLED"}
    Tokens = 1
    Faults = 1
SPECIFICATION Spec
SYMMETRY Symmetry
INVARIANTS
    TypeOK
    WaitingIsAttached
    AgentAlone
    QueuedOnce
