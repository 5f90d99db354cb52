\* One config, nothing but the polling itself: no user operation, no restart.
CONSTANTS
    c1 = c1
    t1 = t1
    t2 = t2
    NoTask = NoTask
    NoConfig = NoConfig
    NoCap = NoCap
    capped = c1
    Configs = {c1}
    Tasks = {t1, t2}
    CredOf <- OneAccount
    Cap <- NoCaps
    Failing = {}
    WithChannels = {c1}
    Replies = {"success", "out_of_capacity"}
    GlobalMax = 1
    CredMax = 1
    UserOps = {"create", "delete", "update", "toggle"}
    MaxEdits = 0
    MaxRestarts = 0
SPECIFICATION Spec
SYMMETRY TaskSymmetry
INVARIANT VerdictIsTold
