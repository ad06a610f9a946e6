SPECIFICATION FairGuard
PROPERTIES
    CancelKills
CHECK_DEADLOCK FALSE
