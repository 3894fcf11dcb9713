\* Two requests at once; a day stands for two months, the grace period for sixty days.
SPECIFICATION Spec
CONSTANTS
    Handler = {h1, h2}
    Work = 3
    RecordedRule = {"GOVERNMENT_ID_VERIFIED", "UTILITY_MISSED"}
    PaymentType = {"RENT", "UTILITY"}
    Grace = 1
    Due = {0}
    Period = 1
    Cycles = {1}
    LastDay = 2
    Rows = 2
    Recommendation = {"RECOMMEND", "NEUTRAL"}
    Rating = {"EXCELLENT", "POOR"}
    References = 2
SYMMETRY HandlerSymmetry
\* Requests are bounded by Work, and none has to be made; one in flight can always fail.
CHECK_DEADLOCK FALSE
CONSTRAINT Unskewed
INVARIANTS TypeOK OneEventPerFamily
PROPERTIES SyncFollowsRecord VerdictHasEvent ReviewStands
