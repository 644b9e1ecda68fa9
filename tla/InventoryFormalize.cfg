\* Two targets of a run; the label of c differs from that of b in punctuation only.
SPECIFICATION FairSpec
CONSTANTS
    a = a
    b = b
    c = c
    Claims = {a, b, c}
    Selected = {a, b}
    Dirs = {"thm_a", "thm_b"}
    Dir <- Shared
    Texts = {"needy", "tainted"}
    RunBound = 2
    CrashBound = 1
INVARIANT ProvedIsVerified LibraryIsChecked
PROPERTIES LibraryKeptForTargets RunsEnd
CHECK_DEADLOCK FALSE
