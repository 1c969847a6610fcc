SPECIFICATION Spec
CONSTANTS
    Urls = {u1, u2}
    Blank = Blank
    MaxNav = 3
    MaxHops = 1
    MaxRev = 3
    Answers = {"no_match", "phishing"}
SYMMETRY Symmetry
CHECK_DEADLOCK FALSE
INVARIANTS
    TypeOK
    VerdictIsOwn
    CheckingIsLive
    VerdictOfSeenDocument
    DangerCoveredUnlessLate
    BypassOnce
    SeenDocumentProtected
