SPECIFICATION AnySpec
CONSTANTS
    Marks = {"/", "!", "*", "[", "]", "|", "@", "'", "="}
    Numbers = {"1"}
    OtherNumbers = {"0"}
    Names = {"a"}
    MaxFilters = 2
    MaxLength = 4
INVARIANTS
    Parsed
    Complete
    StaysInText
PROPERTIES
    Ends
\* The parser stops when it has read its command.
CHECK_DEADLOCK FALSE
