CONSTANTS
    l1 = l1
    l2 = l2
    l3 = l3
    c1 = c1
    c2 = c2
    s1 = s1
    s2 = s2
    s3 = s3
    None = None
    Lock <- MCLock
    Connection <- TwoConnections
    Stmt <- MCStmt
    StartMayFail = TRUE
SPECIFICATION Spec
INVARIANTS
    CommitHasTransaction
    PendingIsOwned
    Ownership
PROPERTIES
    FailedStartIsPermanent
