SPECIFICATION CachesSpec
CONSTANTS
    None = None
    CapLimit = 1
    p = p
    q = q
    a = a
    b = b
    m1 = m1
    m2 = m2
    Files = {p, q}
    Contents = {a, b}
    FirstContent <- MCFirstContent
    Places = {m1, m2}
    SectionsLimit = 1
    RecordsLimit = 1
    RecoveryLimit = 1
    LastStamp = 1
INVARIANT SectionsAreOfTheData
CHECK_DEADLOCK FALSE
