\* Two administrators' requests at once, one renter.
SPECIFICATION Spec
CONSTANTS
    Admin = {a1, a2}
    EditedRule <- MCEditedRule
    EditedCategory <- MCEditedCategory
    OverriddenItem = {"UTILITY_PAID_ON_TIME"}
    NewPoints <- MCNewPoints
    NewMax <- MCNewMax
    Facts <- MCFacts
    Overrides = 2
SYMMETRY AdminSymmetry
CONSTRAINT Unskewed
INVARIANTS TypeOK ConfiguredFits ScoreIsTotal OneOverridePerTarget
