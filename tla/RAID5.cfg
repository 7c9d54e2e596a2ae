CONSTANTS
    DataDisks = 2
    StripeSize = 2
    Short = {0, 1, 4, 5}
    Long = {15}
    Data <- ShortAndLong
    NoDisk = NoDisk
SPECIFICATION Spec
INVARIANTS TypeOK SurvivesOneFailure
