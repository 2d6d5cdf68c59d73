------------------------- MODULE MCTransactionLock -------------------------
EXTENDS TransactionLock

CONSTANTS l1, l2, l3, c1, c2, s1, s2, s3

MCLock == {l1, l2, l3}
OneConnection == {c1}
TwoConnections == {c1, c2}
MCStmt == {s1, s2, s3}
=============================================================================
