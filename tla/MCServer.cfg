CONSTANTS
    d1 = d1
    d2 = d2
    Clients = {c1, c2}
    None = None
    Names = {n1}
    NoName = NoName
    MaxEnv = 2
    MaxEnvOfClient = 2
    MaxStickyEnv = 1
    StickyTimeBound = 2
    Dicts = {d1, d2}
    Hindos = {}
    Fzks = {}
    Match = {}
    Null = Null
    DefaultFiles <- OneDict
    MaxFiles = 3
    MaxFileOfEnv = 2
    MaxDic = 2
    MaxJishoOfEnv = 2
SYMMETRY Symmetry
SPECIFICATION ServerSpec
INVARIANTS
    NoDanglingEnv
    RefCountExact
    StickyAccounting
    NothingLeaks
PROPERTIES
    EvictsOldest
    ImplementsLeases
    StickyKeepsFiles
CHECK_DEADLOCK FALSE
