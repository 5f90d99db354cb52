\* Two configs of one account and one of another, two global slots, nothing is
\* cancelled.
CONSTANTS
    c1 = c1
    c2 = c2
    other = other
    Configs = {c1, c2, other}
    CredOf <- OneApart
    Global = Global
    GlobalMax = 2
    CredMax = 1
    MaxCancels = 0
SPECIFICATION Spec
INVARIANT AccountsConcurrent
