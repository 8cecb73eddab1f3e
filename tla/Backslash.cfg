\* A string member whose line holds a backslash.
CONSTANTS
    Chars = {"a", "b"}
    MaxLen = 1
    MaxFields = 1
SPECIFICATION Spec
INVARIANT StringsRoundTrip
CHECK_DEADLOCK FALSE
