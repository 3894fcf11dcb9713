\* Two handlers that interleave, one case whose renter has accepted the link, and one
\* renter who buys the own score.
SPECIFICATION Spec
CONSTANTS
    Case = {c1}
    Linked = {c1}
    Self = {s1}
    Handler = {h1, h2}
    Payments = 2
    Requests = 2
    Work = 7
SYMMETRY HandlerSymmetry
INVARIANTS TypeOK NothingUnpaid PaidIsServed CreditedOnce
PROPERTIES SucceededIsFinal
\* The bound on requests lets it stop.
CHECK_DEADLOCK FALSE
