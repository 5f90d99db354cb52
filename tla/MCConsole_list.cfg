\* Two configs and two toggles at a time, so that one rolls back over the other
\* and a list is read between them.
CONSTANTS
    c1 = c1
    c2 = c2
    Configs = {c1, c2}
    MaxWrites = 2
    Toggles = 2
SPECIFICATION Spec
SYMMETRY Symmetry
INVARIANT TypeOK
INVARIANT OwnWritesShown
