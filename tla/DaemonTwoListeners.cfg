CONSTANTS
    unix = unix
    inet = inet
    Clients = {c1, c2}
    Acceptors <- UnixThenInet
    Options <- Default
    PipeIgnorer = unix
    Free = Free
    Stdio = Stdio
    NoUser = NoUser
    Unset = Unset
SPECIFICATION Spec
INVARIANT GetClientFindsOne
CHECK_DEADLOCK FALSE
