CONSTANTS
    c1 = c1  c2 = c2  c3 = c3
    r1 = r1  r2 = r2
    full = full
    Calls = {c1, c3}
    Recs = {r1, r2}
    RecOf <- PairRecOf
    RunOf <- OneRun
    Batch <- OneRun
    Bindings = {ask, full}
    NoBinding = NoBinding
    AutoApproved <- MCAuto
    Keys = {k1}
    NoKey = NoKey
    Ttl = 2
    Early = 0
    MaxTime = 2
SPECIFICATION Spec
PROPERTIES
    ReplayIsSafe
