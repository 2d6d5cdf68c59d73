CONSTANTS
    l1 = l1
    l2 = l2
    l3 = l3
    c1 = c1
    c2 = c2
    s1 = s1
    s2 = s2
    s3 = s3
    None = None
    Lock <- MCLock
    Connection <- OneConnection
    Stmt <- MCStmt
    StartMayFail = FALSE
SPECIFICATION Spec
INVARIANTS
    TypeOK
    CounterIsLocks
    QuiescentReset
PROPERTIES
    ImplementsUnit
    InnerCommitIsVoid
