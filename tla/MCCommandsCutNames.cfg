SPECIFICATION Spec
CONSTANTS
    None = None
    CapLimit = 1
    ChunkSize = 3
    CarrySize = 4
    BracketCarry = 8
    MinName = 2
    MinLength = 3
    MinRows = 2
    MinColumns = 1
    ScanMin = 2
    ImageScan = 6
    ClassText = 2
    WantedLimit = 2
    EmptyData = EmptyData
    MarkupData = {"E"}
    Absent = Absent
    Nothing = Nothing
    Directory = Directory
    NotANumber = NotANumber
    Tables = {"s.csv"}
    Absolute = {}
    Tolerance = 1
    FileLength = 6
    HintLimit = 1
    WindowLimit = 6
    NumberedRoots = {"Book1", "Book2", "PdM1", "MBook1", "MSheet1"}
    VaruintBytes = 3
    Sentinel <- SentinelCell
    NotFinite <- InfiniteCells
    NameReach = 6
    NameGap = 2
    HeadLength = 3
    LongestPayload = 4
    ShortGap = 1
    PreludeGap = 12
    RecordReach = 4
    p = p
    q = q
    a = a
    b = b
    m1 = m1
    m2 = m2
    Files = {p, q}
    Contents = {a, b}
    FirstContent <- MCFirstContent
    Places = {m1, m2}
    SectionsLimit = 1
    RecordsLimit = 1
    RecoveryLimit = 1
    LastStamp = 1
    EmptyValue <- MCEmptyValue
    Integer = Integer
    Mixed = Mixed
    FunctionType = FunctionType
    NotesLimit = 1
INVARIANT CutNamesAreFound
CHECK_DEADLOCK FALSE
