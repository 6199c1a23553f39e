CONSTANTS
    MaxIno = 7
    MaxEdits = 2
    MaxErrors = 1
SPECIFICATION Spec
INVARIANTS
    SavedSurvives
    BackupWhole
    StillTheSameFile
    CleanIsSaved
CHECK_DEADLOCK FALSE
