SPECIFICATION Spec
CONSTANTS
    Pairs <- SomePairs
    Options <- SomeOptions
    Names = {"_id", "x", "y"}
    Depth = 2
    DecimalPlaces = 2
    FloatDigits = 2
INVARIANTS TypeOK  SamePasses 
CHECK_DEADLOCK FALSE
