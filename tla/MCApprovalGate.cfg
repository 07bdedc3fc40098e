CONSTANTS
    c1 = c1  c2 = c2  c3 = c3
    r1 = r1  r2 = r2
    full = full
    Calls = {c1, c2, c3}
    Recs = {r1, r2}
    RecOf <- BatchRecOf
    RunOf <- OneRun
    Batch <- OneRun
    Bindings = {ask, full}
    NoBinding = NoBinding
    AutoApproved <- MCAuto
    Keys = {k1}
    NoKey = NoKey
    Ttl = 2
    Early = 1
    MaxTime = 3
SPECIFICATION FairSpec
INVARIANTS
    GateInv
    SingleUse
    StartedReported
PROPERTIES
    WaitEnds
    StartsAsApproved
    SettledForever
