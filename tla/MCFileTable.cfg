CONSTANTS
    d1 = d1
    d2 = d2
    h1 = h1
    z1 = z1
    Envs = {e1, e2}
    Dicts = {d1, d2}
    Hindos = {h1}
    Fzks = {z1}
    Match <- HindoOfBoth
    Null = Null
    DefaultFiles <- DictAndFzk
    MaxFiles = 5
    MaxFileOfEnv = 3
    MaxDic = 3
    MaxJishoOfEnv = 2
SYMMETRY Symmetry
SPECIFICATION Spec
INVARIANTS
    FileRefCount
    DicOwned
    DicFilesListed
    LoadedWholeUnlessBroken
