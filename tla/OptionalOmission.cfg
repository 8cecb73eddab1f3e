\* One optional member, left empty: the pop removes the "{".
CONSTANTS
    Chars = {"a"}
    MaxLen = 1
    MaxFields = 1
SPECIFICATION Spec
INVARIANT OmissionKeepsJsonValid
CHECK_DEADLOCK FALSE
