\* Every variant of up to two members over the five type names, every struct
\* S of one or two members, lines of at most one character without a
\* backslash.  input_message returns after Finish, hence no deadlock check.
CONSTANTS
    Chars = {"a", "q", "n"}
    MaxLen = 1
    MaxFields = 2
SPECIFICATION Spec
INVARIANT MatchesReference StringsRoundTrip PopTarget
CHECK_DEADLOCK FALSE
