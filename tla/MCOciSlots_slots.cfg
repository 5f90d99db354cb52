\* Three configs of one account and one of another, two global slots, one slot
\* per account, two cancellations at any point.
CONSTANTS
    c1 = c1
    c2 = c2
    c3 = c3
    other = other
    Configs = {c1, c2, c3, other}
    CredOf <- OneApart
    Global = Global
    GlobalMax = 2
    CredMax = 1
    MaxCancels = 2
SPECIFICATION Spec
INVARIANT TypeOK
INVARIANT SlotsConserved
INVARIANT NoLostWakeup
PROPERTY FirstComeFirstServed
PROPERTY ImplementsSlotLimits
PROPERTY EveryWaiterServed
