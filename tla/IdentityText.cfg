SPECIFICATION Spec
CONSTANTS
    Alphabet <- Spelling
    Specs <- CloseSpecs
INVARIANTS
    RoundTrips
    RetargetIsAMove
CHECK_DEADLOCK FALSE
