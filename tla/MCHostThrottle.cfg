CONSTANTS
    Host = {h1}
    Acquirer = {a1, a2}
    Interval = 1
    RetryAfter = {0, 1, 2, 9}
    Horizon = 8
    MaxRedirects = 1
    MaxTime = 5
    None = None
SYMMETRY Symmetry
SPECIFICATION GateSpec
PROPERTIES
    RetryAfterIsHonoured
    RequestsArePaced
