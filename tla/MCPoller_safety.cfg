\* Two configs of one account, c1 with a cap of one attempt; any two user
\* operations and one stop or crash.
CONSTANTS
    c1 = c1
    c2 = c2
    t1 = t1
    t2 = t2
    t3 = t3
    NoTask = NoTask
    NoConfig = NoConfig
    NoCap = NoCap
    capped = c1
    Configs = {c1, c2}
    Tasks = {t1, t2, t3}
    CredOf <- OneAccount
    Cap <- FirstCapped
    Failing = {c2}
    WithChannels = {c2}
    Replies = {"success", "out_of_capacity"}
    GlobalMax = 2
    CredMax = 1
    UserOps = {"create", "delete", "update", "toggle"}
    MaxEdits = 2
    MaxRestarts = 1
SPECIFICATION Spec
SYMMETRY TaskSymmetry
INVARIANT OneTaskPerConfig
INVARIANT EveryTaskOwned
INVARIANT PassConverges
INVARIANT AttemptsWithinCap
PROPERTY StoppedStaysStopped
PROPERTY RecordedSuccessStops
