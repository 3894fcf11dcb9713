\* Two handlers in flight, and renters who answer the link.
SPECIFICATION Spec
CONSTANTS
    a1 = a1  a2 = a2  ann = ann  bob = bob
    Case = {a1, a2}
    Unit = {u1}
    NoUnit = NoUnit
    Renter = {ann, bob}
    RenterOf <- TwoRenters
    Landlord = {l1}
    NoLandlord = NoLandlord
    Note = {}
    NoNote = NoNote
    Item = {}
    Vacant = Vacant
    Unnamed = Unnamed
    Handler = {h1, h2}
    NoHandler = NoHandler
    Responding = {a1, a2}
    Entered = {Vacant, Unnamed}
    MaxDecisions = 2
    MaxEdits = 0
PROPERTIES NoLateWithdrawal
\* The bounds on decisions and edits let it stop.
CHECK_DEADLOCK FALSE
