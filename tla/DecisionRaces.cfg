\* Two applications by two renters, two units, two handlers that interleave, an edit, and
\* one renter who answers the link.
SPECIFICATION Spec
CONSTANTS
    a1 = a1  a2 = a2  ann = ann  bob = bob
    Case = {a1, a2}
    Unit = {u1, u2}
    NoUnit = NoUnit
    Renter = {ann, bob}
    RenterOf <- TwoRenters
    Landlord = {l1}
    NoLandlord = NoLandlord
    Note = {}
    NoNote = NoNote
    Item = {history, letter}
    Vacant = Vacant
    Unnamed = Unnamed
    Handler = {h1, h2}
    NoHandler = NoHandler
    Responding = {a1}
    Entered = {Vacant, Unnamed}
    MaxDecisions = 2
    MaxEdits = 1
SYMMETRY Symmetry
INVARIANTS TypeOK OneAnswerPerRequest OccupiedUnitOccupiesHouse OneTenantInTurn
PROPERTIES DialogKept LinkInOrder
\* The bounds on decisions and edits let it stop.
CHECK_DEADLOCK FALSE
