\* A request whose handlers may never come back and a WebSocket whose handlers
\* do; a process that is down need not be started again.
SPECIFICATION Spec
CONSTANTS
    Requests = {r1}
    Sockets = {w1}
    Stuck = {r1}
    MaxLives = 1
INVARIANTS
    CleanStop
    HandledIsVerified
PROPERTIES
    InterruptEnds
    CallEnds
CHECK_DEADLOCK FALSE
