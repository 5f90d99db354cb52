\* Two browsers, three people, room for the admin and one more account at a
\* time, so that an id is used again.
CONSTANTS
    b1 = b1
    b2 = b2
    n1 = n1
    n2 = n2
    n3 = n3
    Browsers = {b1, b2}
    Names = {n1, n2, n3}
    MaxId = 2
    Owners = {2}
SPECIFICATION Spec
SYMMETRY Symmetry
INVARIANT TypeOK
INVARIANT AdminRemains
INVARIANT CookieIsItsOwner
INVARIANT ApprovedBeforeActive
INVARIANT DisabledOwnersIdle
