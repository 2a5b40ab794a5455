CONSTANTS
    sectionSize = 2
    confirmsReq = 1
    MaxNumber = 7
    MaxReorgs = 2
    MaxFailures = 0
    EventBuffer = 2
SPECIFICATION Spec
INVARIANT StoredIsCanonical
CHECK_DEADLOCK FALSE
