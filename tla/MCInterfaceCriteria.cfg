SPECIFICATION Spec
CONSTANTS
    SearchLists <- DeclaredLists
    InputLists <- NamedLists
INVARIANT RejectedIffNoneMatches
\* checkCriteria returns.
CHECK_DEADLOCK FALSE
