CONSTANTS
    Hyo <- Tables
    Naibu <- mode_hankata
    moderng <- Ranges
    Initial <- AtFirst
    Convert <- Functions
    delchr = "DEL"
    Keys <- MCKeys
    Control <- MCControl
    key_table <- uumkey
    buflen = 4
    Texts <- Starts
    Flags <- Options
    MaxKeys = 5
SPECIFICATION Spec
INVARIANTS ScreenTrue
PROPERTIES TextKept DeleteUndoes
CHECK_DEADLOCK FALSE
