SPECIFICATION Spec
CONSTANTS
    Urls = {u1, u2}
    Blank = Blank
    MaxNav = 3
    MaxHops = 1
    MaxRev = 1
    Answers = {"no_match", "phishing"}
SYMMETRY Symmetry
CHECK_DEADLOCK FALSE
INVARIANT VerdictOfDocument
