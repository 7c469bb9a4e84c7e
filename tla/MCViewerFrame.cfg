CONSTANTS
    p1 = p1
    p2 = p2
    folder = folder
    sheet1 = sheet1
    sheet2 = sheet2
    note = note
    other = other
    None = None
    Paths = {p1}
    Targets = {sheet1, sheet2, note}
    Books = {folder}
    PathOf <- MCPathOf
    BookOf <- MCBookOf
    Rank <- MCRank
    Hidden = {}
    Untabled = {}
    MayFail = TRUE
    MaxGets = 3
    MaxPages = 4
    MaxPosted = 2
SPECIFICATION Spec
INVARIANTS
    PendingIsInFlight
    TabsHaveTheirPages
    OpenedItemIsSelected
