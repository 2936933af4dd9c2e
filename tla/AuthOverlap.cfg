CONSTANTS
    Session = {s1, s2}
    Rotating = {s1}
    Call = {c1, c2}
    NoTokens = NoTokens
    MaxToken = 2
    MaxFailures = 0
SPECIFICATION Spec
PROPERTIES
    AccountsCoexist
CHECK_DEADLOCK FALSE
