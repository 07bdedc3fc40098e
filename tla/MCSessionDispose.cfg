\* The next prompt begins while the files of the last one are captured.
SPECIFICATION Spec
CONSTANTS
    Prompts = {p1, p2}
    Polls = {}
    Levels = {}
    Resets = {}
    Aborts = {}
    Deletes = {}
    None = None
CHECK_DEADLOCK FALSE
INVARIANTS
    RunIsLive
