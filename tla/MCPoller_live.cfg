\* Two configs of one account and one slot; one user operation.
CONSTANTS
    c1 = c1
    c2 = c2
    t1 = t1
    t2 = t2
    t3 = t3
    NoTask = NoTask
    NoConfig = NoConfig
    NoCap = NoCap
    capped = c1
    Configs = {c1, c2}
    Tasks = {t1, t2, t3}
    CredOf <- OneAccount
    Cap <- NoCaps
    Failing = {}
    WithChannels = {}
    Replies = {"success", "rate_limited"}
    GlobalMax = 1
    CredMax = 1
    UserOps = {"create", "delete", "update", "toggle"}
    MaxEdits = 1
    MaxRestarts = 0
SPECIFICATION FairSpec
INVARIANT TypeOK
PROPERTY KeepsToSlots
PROPERTY EnabledGetsPolled
PROPERTY DisabledStops
PROPERTY EditsTakeEffect
