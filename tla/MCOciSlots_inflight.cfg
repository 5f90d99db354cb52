\* Two configs, one slot, one cancellation.
CONSTANTS
    c1 = c1
    other = other
    Configs = {c1, other}
    CredOf <- OneApart
    Global = Global
    GlobalMax = 1
    CredMax = 1
    MaxCancels = 1
SPECIFICATION Spec
INVARIANT InFlightWithinLimit
