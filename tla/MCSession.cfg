\* Two prompts against one call of every other kind.
SPECIFICATION Spec
CONSTANTS
    Prompts = {p1, p2}
    Polls = {c1}
    Levels = {l1}
    Resets = {r1}
    Aborts = {a1}
    Deletes = {d1}
    None = None
SYMMETRY Symmetry
CHECK_DEADLOCK FALSE
INVARIANTS
    HostInv
    NoLeak
    AbortReaches
    ResetIsIdle
    NeverStuck
    AbortedNeverRuns
