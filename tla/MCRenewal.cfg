\* Three logins; only the metrics server's handler can return an error.  The
\* process ends, so a state without successor is no deadlock.
CONSTANTS
    MaxLogins = 3
    Fallible = {"health"}
SPECIFICATION FairSpec
CHECK_DEADLOCK FALSE
INVARIANTS StopLeavesNone ExitTellsAll
PROPERTY TokenLives
