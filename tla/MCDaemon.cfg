CONSTANTS
    unix = unix
    inet = inet
    Clients = {c1, c2}
    Acceptors <- UnixThenInet
    Options <- AllOptions
    PipeIgnorer = unix
    Free = Free
    Stdio = Stdio
    NoUser = NoUser
    Unset = Unset
SPECIFICATION FairSpec
INVARIANTS
    TableExact
    OneListenerFindsOne
    OnlyKillStops
PROPERTIES
    Served
    Accepted
    DeadRemoved
CHECK_DEADLOCK FALSE
