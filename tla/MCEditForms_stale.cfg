\* Two forms open at a time and three requests in all: one form stays open while
\* another deletes its row and then makes a new row of the same id.
CONSTANTS
    f1 = f1
    f2 = f2
    Forms = {f1, f2}
    s1 = s1
    s2 = s2
    Secrets = {s1, s2}
    k1 = k1
    k2 = k2
    Keys = {k1, k2}
    i1 = i1
    i2 = i2
    Images = {i1, i2}
    Gone = Gone
    MaxChannel = 2
    MaxCredential = 2
    MaxConfig = 1
    Requests = 3
SPECIFICATION Spec
SYMMETRY Symmetry
INVARIANT TypeOK
INVARIANT SecretIsReal
INVARIANT KeyMatchesIdentity
INVARIANT ReferencesExist
INVARIANT SaveIsWhole
PROPERTY UntypedSecretKept
