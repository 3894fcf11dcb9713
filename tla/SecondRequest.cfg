\* A payment that is late, or paid beside a direct request.
SPECIFICATION Spec
CONSTANTS
    Case = {c1}
    Linked = {c1}
    Self = {s1}
    Handler = {h1}
    Payments = 2
    Requests = 2
    Work = 5
INVARIANTS OneRequestPerCase
\* The bound on requests lets it stop.
CHECK_DEADLOCK FALSE
