\* One config, one edit.
CONSTANTS
    c1 = c1
    t1 = t1
    t2 = t2
    NoTask = NoTask
    NoConfig = NoConfig
    NoCap = NoCap
    capped = c1
    Configs = {c1}
    Tasks = {t1, t2}
    CredOf <- OneAccount
    Cap <- NoCaps
    Failing = {}
    WithChannels = {c1}
    Replies = {"success", "out_of_capacity"}
    GlobalMax = 1
    CredMax = 1
    UserOps = {"update"}
    MaxEdits = 1
    MaxRestarts = 0
SPECIFICATION Spec
SYMMETRY TaskSymmetry
PROPERTY InstanceStops
