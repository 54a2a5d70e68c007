SPECIFICATION Spec
CONSTANTS
    NULL = NULL
    TORN = TORN
    MaxRuns = 3
    Wizard = {z1, z2}
    Words = {m1, m2}
    Password = {p1, p2}
    Key = {k1, k2}
    z1 = z1
    z2 = z2
    m1 = m1
    m2 = m2
    p1 = p1
    p2 = p2
    k1 = k1
    k2 = k2
SYMMETRY Interchangeable
INVARIANTS
    TypeOK
    OneShape
    PasswordSurvives
    SealedStarts
    IdentityStands
PROPERTIES
    SeedIsKept
