\* A client's key and a schedule that is one-shot, paused, edited or recurring.
CONSTANTS
    None = None
    s1 = s1
    p1 = p1
    HttpKeys = {h1}
    ScheduleIds = {s1}
    Prompts = {p1}
    Schedules <- MCSchedules
    Owners = {o1, o2}
    LeaseTime = 1
    MaxTime = 2
    MaxGen = 5
SYMMETRY MCSymmetry
SPECIFICATION Spec
INVARIANTS
    PromptInv
    AtMostOnce
    EnabledAsWanted
    ReleasedOneShotKept
PROPERTIES
    LaunchIsCurrent
    ImplementsPromptOnce
