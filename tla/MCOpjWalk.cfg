\* Every small project, intact, cut anywhere or with any cell changed.
SPECIFICATION Spec
CONSTANTS
    Projects <- MCProjects
    Cells = {0, 1, 2, 3, 9}
    NL <- MCNL
    GroupData = {2}
    AttachMark <- MCAttachMark
INVARIANTS
    TypeInv
    Placed
    Nested
    IntactFound
    WalksAgree
    DamageKeepsWhatPrecedes
    CutIsEvident
PROPERTIES
    WalksEnd
CHECK_DEADLOCK FALSE
