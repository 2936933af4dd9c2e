CONSTANTS
    Session = {s1, s2}
    Rotating = {s1}
    Call = {c1, c2}
    NoTokens = NoTokens
    MaxToken = 2
    MaxFailures = 1
SPECIFICATION Spec
INVARIANTS
    SignedOutStaysOut
    KeepsAcceptedSessions
SYMMETRY Symmetry
CHECK_DEADLOCK FALSE
