SPECIFICATION LibrarySpec
CONSTANTS
    Session = {s1}
    Call = {c1, c2}
    Key = {k1, k2}
    Handle = {h1, h2}
    None = None
    Guarded = {k2}
    Paths = {"ask", "pad"}
    MaxWrong = 1
INVARIANTS
    SessionsSound
    ObjectsTrue
    ValuesCounted
    ModulesServe
PROPERTIES
    Immutable
CHECK_DEADLOCK FALSE
