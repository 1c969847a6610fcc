SPECIFICATION Spec
CONSTANTS
    Urls = {u1, u2}
    Blank = Blank
    MaxNav = 2
    MaxHops = 1
    MaxRev = 2
    Answers = {"no_match", "phishing"}
SYMMETRY Symmetry
CHECK_DEADLOCK FALSE
INVARIANT DangerCovered
