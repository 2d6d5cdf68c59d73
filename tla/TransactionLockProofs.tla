----------------------- MODULE TransactionLockProofs -----------------------
(***************************************************************************)
(* Proofs about TransactionLock, for every set of locks, connections and   *)
(* statements.  LockInv is the inductive invariant: the types, the meaning *)
(* of the counter, and who owns the open transaction.                      *)
(***************************************************************************)
EXTENDS TransactionLock, FiniteSetTheorems, TLAPS

LockInv == TypeOK /\ CounterIsLocks /\ Ownership

\* The number of live locks is a natural number.
LEMMA HeldLocksFinite ==
    ASSUME TypeOK
    PROVE  IsFiniteSet(HeldLocks) /\ Cardinality(HeldLocks) \in Nat
BY LockAssumption, FS_Subset, FS_CardinalityType DEF HeldLocks

\* A constructor adds one to the number of live locks.
LEMMA HeldLocksAdd ==
    ASSUME TypeOK, NEW l \in Lock, NEW c \in Connection,
           held[l] = None, held' = [held EXCEPT ![l] = c]
    PROVE  /\ HeldLocks' = HeldLocks \cup {l}
           /\ l \notin HeldLocks
           /\ Cardinality(HeldLocks') = Cardinality(HeldLocks) + 1
<1>1. HeldLocks' = HeldLocks \cup {l} /\ l \notin HeldLocks
  BY LockAssumption DEF HeldLocks, TypeOK
<1>2. QED
  BY <1>1, HeldLocksFinite, FS_AddElement

\* A destructor takes one from the number of live locks.
LEMMA HeldLocksRemove ==
    ASSUME TypeOK, NEW l \in Lock,
           held[l] # None, held' = [held EXCEPT ![l] = None]
    PROVE  /\ HeldLocks' = HeldLocks \ {l}
           /\ l \in HeldLocks
           /\ Cardinality(HeldLocks') = Cardinality(HeldLocks) - 1
           /\ Cardinality(HeldLocks) >= 1
<1>1. HeldLocks' = HeldLocks \ {l} /\ l \in HeldLocks
  BY DEF HeldLocks, TypeOK
<1>2. Cardinality(HeldLocks') = Cardinality(HeldLocks) - 1
  BY <1>1, HeldLocksFinite, FS_RemoveElement
<1>3. Cardinality(HeldLocks) # 0
  BY <1>1, HeldLocksFinite, FS_EmptySet
<1>4. QED
  BY <1>1, <1>2, <1>3, HeldLocksFinite

\* A live lock that is counted alone is the only live lock.
LEMMA HeldLocksSingle ==
    ASSUME TypeOK, NEW l \in HeldLocks, Cardinality(HeldLocks) <= 1
    PROVE  HeldLocks = {l}
<1>1. IsFiniteSet(HeldLocks \ {l}) /\ Cardinality(HeldLocks \ {l}) = Cardinality(HeldLocks) - 1
  BY HeldLocksFinite, FS_RemoveElement
<1>2. Cardinality(HeldLocks \ {l}) = 0
  BY <1>1, HeldLocksFinite, FS_CardinalityType
<1>3. HeldLocks \ {l} = {}
  BY <1>1, <1>2, FS_EmptySet
<1>4. QED
  BY <1>3

-----------------------------------------------------------------------------
\* The statics start at zero and no session is in a transaction.
LEMMA InitLockInv == Init => LockInv
<1> SUFFICES ASSUME Init PROVE LockInv
  OBVIOUS
<1>1. HeldLocks = {}
  BY DEF Init, HeldLocks
<1>2. TypeOK
  BY LockAssumption DEF Init, TypeOK
<1>3. CounterIsLocks
  BY <1>1, FS_EmptySet DEF Init, CounterIsLocks
<1>4. Ownership
  BY DEF Init, Ownership, OpenIsOwned, PendingIsOwned
<1>5. QED
  BY <1>2, <1>3, <1>4 DEF LockInv

\* A leaked constructor keeps the counter raised.
LEMMA RaisedByLeak ==
    ASSUME LockInv, counter = 0
    PROVE  leaked = 0
BY HeldLocksFinite DEF LockInv, CounterIsLocks, TypeOK

\* A constructor that returns: the first lock opens the transaction of its
\* connection, the others find it open.
LEMMA BeginPreserves ==
    ASSUME LockInv, NEW l \in Lock, NEW c \in Connection,
           BeginTransaction(l, c)
    PROVE  LockInv'
<1> USE LockAssumption DEF LockInv, BeginTransaction
<1>0. HeldLocks' = HeldLocks \cup {l} /\ Cardinality(HeldLocks') = Cardinality(HeldLocks) + 1
  BY HeldLocksAdd
<1>1. TypeOK'
  BY DEF TypeOK
<1>2. CounterIsLocks'
  BY <1>0, HeldLocksFinite DEF CounterIsLocks, TypeOK
<1>3. Ownership'
  <2>1. CASE counter = 0
    <3>1. /\ leaked = 0 /\ txn = None /\ open = {} /\ ~spent
          /\ txn' = c /\ open' = {c} /\ spent' = spent
      BY <2>1, RaisedByLeak DEF Ownership, OpenIsOwned, TypeOK
    <3>2. QED
      BY <2>1, <3>1 DEF Ownership, OpenIsOwned, PendingIsOwned, TypeOK
  <2>2. CASE counter # 0
    <3>1. counter' # 0 /\ counter' # 1 /\ txn' = txn /\ open' = open
      BY <2>2 DEF TypeOK
    <3>2. QED
      BY <2>2, <3>1 DEF Ownership, OpenIsOwned, PendingIsOwned, TypeOK
  <2>3. QED
    BY <2>1, <2>2
<1>4. QED
  BY <1>1, <1>2, <1>3

\* A constructor that throws leaves the counter raised and no transaction.
LEMMA ThrowPreserves ==
    ASSUME LockInv, BeginThrows
    PROVE  LockInv'
<1> USE LockAssumption DEF LockInv, BeginThrows
<1>0. HeldLocks' = HeldLocks
  BY DEF HeldLocks
<1>1. TypeOK'
  BY DEF TypeOK
<1>2. CounterIsLocks'
  BY <1>0, HeldLocksFinite DEF CounterIsLocks, TypeOK
<1>3. Ownership'
  <2>1. counter = 0 /\ leaked = 0 /\ leaked' = 1
    BY RaisedByLeak DEF TypeOK
  <2>2. txn = None /\ open = {}
    BY <2>1 DEF Ownership, OpenIsOwned
  <2>3. QED
    BY <2>1, <2>2 DEF Ownership, OpenIsOwned, PendingIsOwned
<1>4. QED
  BY <1>1, <1>2, <1>3

\* While locks live and no constructor threw, the pointer is set, and its session
\* is in its transaction as long as that is not spent.
LEMMA HeldHasTransaction ==
    ASSUME LockInv, leaked = 0, HeldLocks # {}
    PROVE  txn \in Connection /\ open = IF spent THEN {} ELSE {txn}
<1>1. Cardinality(HeldLocks) # 0 /\ TypeOK
  BY HeldLocksFinite, FS_EmptySet DEF LockInv
<1>2. counter # 0
  BY <1>1, HeldLocksFinite DEF LockInv, CounterIsLocks, TypeOK
<1>3. QED
  BY <1>1, <1>2 DEF LockInv, Ownership, OpenIsOwned, TypeOK

\* The lock that finds the counter at 1 is the only one alive, and the pointer is
\* set.
LEMMA CommitOwner ==
    ASSUME LockInv, NEW l \in Lock, CommitTransaction(l)
    PROVE  /\ HeldLocks = {l} /\ leaked = 0
           /\ txn \in Connection /\ open = IF spent THEN {} ELSE {txn}
<1> USE DEF LockInv, CommitTransaction
<1>1. Cardinality(HeldLocks) # 0
  BY HeldLocksFinite, FS_EmptySet
<1>2. Cardinality(HeldLocks) = 1 /\ leaked = 0
  BY <1>1, HeldLocksFinite DEF CounterIsLocks, TypeOK
<1>3. HeldLocks = {l}
  BY <1>2, HeldLocksSingle
<1>4. QED
  BY <1>2, <1>3, HeldHasTransaction

\* commit(): from here to the reset of the pointer no session is in a
\* transaction.
LEMMA CommitPreserves ==
    ASSUME LockInv, NEW l \in Lock, CommitTransaction(l)
    PROVE  LockInv'
<1> USE LockAssumption DEF LockInv, CommitTransaction
<1>0. HeldLocks' = HeldLocks /\ l \in HeldLocks
  BY DEF HeldLocks
<1>1. HeldLocks = {l} /\ leaked = 0
  BY CommitOwner
<1>2. txn \in Connection /\ open \subseteq {txn}
  BY CommitOwner
<1>3. TypeOK'
  BY <1>2 DEF TypeOK
<1>4. CounterIsLocks'
  BY <1>0 DEF CounterIsLocks
<1>5. Ownership'
  BY <1>0, <1>1, <1>2 DEF Ownership, OpenIsOwned, PendingIsOwned, TypeOK
<1>6. QED
  BY <1>3, <1>4, <1>5

\* A destructor: only the last lock rolls back.
LEMMA ClosePreserves ==
    ASSUME LockInv, NEW l \in Lock, CloseTransaction(l)
    PROVE  LockInv'
<1> USE LockAssumption DEF LockInv, CloseTransaction
<1>0. /\ HeldLocks' = HeldLocks \ {l}
      /\ Cardinality(HeldLocks') = Cardinality(HeldLocks) - 1
      /\ Cardinality(HeldLocks) >= 1
      /\ l \in HeldLocks
  BY HeldLocksRemove DEF HeldLocks
<1>1. TypeOK'
  <2>1. spent' \in BOOLEAN
    BY DEF TypeOK
  <2>2. counter' \in Nat /\ held' \in [Lock -> Connection \cup {None}]
    BY DEF TypeOK
  <2>3. /\ txn' \in Connection \cup {None} /\ open' \in SUBSET Connection
        /\ pending' \in [Connection -> SUBSET Stmt]
    BY DEF TypeOK
  <2>4. QED
    BY <2>1, <2>2, <2>3 DEF TypeOK
<1>2. CASE counter <= 1
  <2>1. counter = 1 /\ leaked = 0 /\ Cardinality(HeldLocks) = 1
    BY <1>0, <1>2, HeldLocksFinite DEF CounterIsLocks, TypeOK
  <2>2. HeldLocks = {l}
    BY <1>0, <2>1, HeldLocksSingle
  <2>3. CounterIsLocks'
    BY <1>0, <1>2, <2>1 DEF CounterIsLocks
  <2>4. Ownership'
    BY <1>0, <1>2, <2>1, <2>2 DEF Ownership, OpenIsOwned, PendingIsOwned, TypeOK
  <2>5. QED
    BY <1>1, <2>3, <2>4
<1>3. CASE ~(counter <= 1)
  <2>1. CounterIsLocks'
    BY <1>0, <1>3, HeldLocksFinite DEF CounterIsLocks, TypeOK
  <2>2. Ownership'
    BY <1>0, <1>3 DEF Ownership, OpenIsOwned, PendingIsOwned, TypeOK
  <2>3. QED
    BY <1>1, <2>1, <2>2
<1>4. QED
  BY <1>2, <1>3

\* A statement of the client's connection.
LEMMA ExecutePreserves ==
    ASSUME LockInv, NEW l \in Lock, NEW s \in Stmt,
           Execute(l, s)
    PROVE  LockInv'
<1> USE LockAssumption DEF LockInv, Execute
<1>0. HeldLocks' = HeldLocks /\ held[l] \in Connection
  BY DEF HeldLocks, TypeOK
<1>1. TypeOK'
  BY <1>0 DEF TypeOK
<1>2. CounterIsLocks'
  BY <1>0 DEF CounterIsLocks
<1>3. Ownership'
  BY <1>0 DEF Ownership, OpenIsOwned, PendingIsOwned, TypeOK
<1>4. QED
  BY <1>1, <1>2, <1>3

\* Every step preserves the invariant.
LEMMA NextLockInv == LockInv /\ [Next]_vars => LockInv'
<1> SUFFICES ASSUME LockInv, [Next]_vars PROVE LockInv'
  OBVIOUS
<1>1. CASE Next
  BY <1>1, BeginPreserves, ThrowPreserves, CommitPreserves, ClosePreserves,
     ExecutePreserves DEF Next
<1>2. CASE UNCHANGED vars
  BY <1>2 DEF vars, LockInv, TypeOK, CounterIsLocks, Ownership, OpenIsOwned,
              PendingIsOwned, HeldLocks
<1>3. QED
  BY <1>1, <1>2

-----------------------------------------------------------------------------
\* Every variable keeps its type: in particular the unsigned counter of
\* ref_counter() is never decremented below zero.
THEOREM TypeCorrect == Spec => []TypeOK
<1>1. LockInv => TypeOK
  BY DEF LockInv
<1>2. QED
  BY <1>1, InitLockInv, NextLockInv, PTL DEF Spec

\* The static counter of ref_counter() is the number of live locks, whatever
\* the order in which they are released, plus the constructors that threw.
THEOREM CounterCorrect == Spec => []CounterIsLocks
<1>1. LockInv => CounterIsLocks
  BY DEF LockInv
<1>2. QED
  BY <1>1, InitLockInv, NextLockInv, PTL DEF Spec

\* At most one session is inside a transaction, the one the static pointer of
\* ref_transaction_ptr() rolls back when it is reset.
THEOREM OpenOwned == Spec => []OpenIsOwned
<1>1. LockInv => OpenIsOwned
  BY DEF LockInv, Ownership
<1>2. QED
  BY <1>1, InitLockInv, NextLockInv, PTL DEF Spec

\* The counter, the static pointer, the constructor that threw and the sessions in
\* a transaction agree in every state, whichever locks are taken and released
\* before and after a commit(): the session of the pointer is in its transaction
\* until a commit() ended it and in no other until the pointer is reset, and a
\* failed START TRANSACTION leaves the pointer null for good.
THEOREM OwnershipHolds == Spec => []Ownership
<1>1. LockInv => Ownership
  BY DEF LockInv
<1>2. QED
  BY <1>1, InitLockInv, NextLockInv, PTL DEF Spec

\* No statement waits for a COMMIT on a session without a transaction, where
\* autocommit would have made it durable at once.
THEOREM PendingOwned == Spec => []PendingIsOwned
<1>1. LockInv => PendingIsOwned
  BY DEF LockInv, Ownership
<1>2. QED
  BY <1>1, InitLockInv, NextLockInv, PTL DEF Spec

\* commit_transaction() never dereferences a null transaction pointer.
THEOREM CommitSafe == Spec => []CommitHasTransaction
<1>1. LockInv => CommitHasTransaction
  <2> SUFFICES ASSUME LockInv, NEW l \in HeldLocks, counter = 1
               PROVE  txn # None
    BY DEF CommitHasTransaction
  <2>1. TypeOK
    BY DEF LockInv
  <2>2. Cardinality(HeldLocks) # 0
    BY <2>1, HeldLocksFinite, FS_EmptySet
  <2>3. leaked = 0
    BY <2>1, <2>2, HeldLocksFinite DEF LockInv, CounterIsLocks, TypeOK
  <2>4. QED
    BY <2>3 DEF LockInv, Ownership
<1>2. QED
  BY <1>1, InitLockInv, NextLockInv, PTL DEF Spec

\* After the last lock is released, nothing of the transaction is left over,
\* unless a constructor threw.
THEOREM ResetWhenQuiescent == Spec => []QuiescentReset
<1>1. LockInv => QuiescentReset
  <2> SUFFICES ASSUME LockInv, HeldLocks = {}, leaked = 0
               PROVE  counter = 0 /\ txn = None /\ ~spent /\ open = {}
    BY DEF QuiescentReset
  <2>1. counter = 0
    BY FS_EmptySet DEF LockInv, CounterIsLocks
  <2>2. QED
    BY <2>1 DEF LockInv, Ownership, OpenIsOwned
<1>2. QED
  BY <1>1, InitLockInv, NextLockInv, PTL DEF Spec

\* One failed START TRANSACTION disables transactions for the process.
THEOREM FailedStartStays == Spec => FailedStartIsPermanent
<1>1. LockInv /\ LockInv' /\ [Next]_vars => [leaked > 0 => open' = {}]_vars
  <2> SUFFICES ASSUME LockInv, LockInv', [Next]_vars, leaked > 0
               PROVE  open' = {}
    OBVIOUS
  <2>1. leaked' >= leaked
    BY DEF Next, vars, BeginTransaction, BeginThrows, CommitTransaction,
           CloseTransaction, Execute, LockInv, TypeOK
  <2>2. leaked' > 0
    BY <2>1 DEF LockInv, TypeOK
  <2>3. QED
    BY <2>2 DEF LockInv, Ownership, OpenIsOwned
<1>2. QED
  BY <1>1, InitLockInv, NextLockInv, PTL DEF Spec, FailedStartIsPermanent

\* While a second lock is alive, neither a commit() nor a destructor touches the
\* open transaction: nothing that waits in it is lost or becomes durable alone.
THEOREM InnerCommitVoid == Spec => InnerCommitIsVoid
<1>1. LockInv /\ [Next]_vars =>
        [Cardinality(HeldLocks) > 1 =>
           \A c \in open : pending[c] \subseteq pending'[c] /\ c \in open']_vars
  <2> SUFFICES ASSUME LockInv, Next, Cardinality(HeldLocks) > 1, NEW c \in open
               PROVE  pending[c] \subseteq pending'[c] /\ c \in open'
    OBVIOUS
  <2>1. TypeOK /\ c \in Connection
    BY DEF LockInv, TypeOK
  <2>2. counter > 1
    BY <2>1, HeldLocksFinite DEF LockInv, CounterIsLocks, TypeOK
  <2>3. ASSUME NEW l \in Lock, NEW s \in Stmt, Execute(l, s)
        PROVE  pending[c] \subseteq pending'[c] /\ c \in open'
    <3>1. held[l] \in Connection
      BY <2>1, <2>3 DEF Execute, HeldLocks, TypeOK
    <3>. QED BY <2>1, <2>3, <3>1 DEF Execute, TypeOK
  <2>. QED
    BY <2>1, <2>2, <2>3
    DEF Next, BeginTransaction, BeginThrows, CommitTransaction, CloseTransaction, TypeOK
<1>2. QED
  BY <1>1, InitLockInv, NextLockInv, PTL DEF Spec, InnerCommitIsVoid

-----------------------------------------------------------------------------
(***************************************************************************)
(* The refinement.  With one connection whose START TRANSACTION works,     *)
(* every step of the lock is a step of the atomic unit or leaves it alone: *)
(* a Begin that finds the counter at 0 starts the unit, a commit() that    *)
(* finds it at 1 commits it, the destructor of the only live lock ends it, *)
(* a statement is executed in the unit or, once that is spent, alone, and  *)
(* every other step stutters.                                              *)
(***************************************************************************)
LEMMA UnitOfOneConnection ==
    ASSUME NEW c, Connection = {c}
    PROVE  UNION {pending[d] : d \in Connection} = pending[c]
OBVIOUS

\* Beside the lock invariant: nothing leaked, and what was issued is pending, durable or
\* rolled back.
UnitInv ==
    /\ LockInv
    /\ leaked = 0
    /\ \A c \in Connection : pending[c] \cup durable \subseteq issued

\* What the refinement needs besides LockInv holds at the start.
LEMMA InitUnitInv == Init => UnitInv
<1>1. Init => leaked = 0 /\ \A c \in Connection : pending[c] \cup durable \subseteq issued
  BY DEF Init
<1>2. QED
  BY <1>1, InitLockInv DEF UnitInv

\* Every step keeps what the refinement needs.
LEMMA NextUnitInv ==
    ASSUME ~StartMayFail
    PROVE  UnitInv /\ [Next]_vars => UnitInv'
<1> SUFFICES ASSUME UnitInv, [Next]_vars PROVE UnitInv'
  OBVIOUS
<1>1. LockInv'
  BY NextLockInv DEF UnitInv
<1>2. leaked' = 0
  BY DEF UnitInv, Next, vars, BeginTransaction, BeginThrows, CommitTransaction,
         CloseTransaction, Execute
<1>3. \A c \in Connection : pending'[c] \cup durable' \subseteq issued'
  <2> SUFFICES ASSUME NEW c \in Connection
               PROVE  pending'[c] \cup durable' \subseteq issued'
    OBVIOUS
  <2>1. TypeOK
    BY DEF UnitInv, LockInv
  <2>2. CASE \E l \in Lock, d \in Connection : BeginTransaction(l, d)
    BY <2>2 DEF UnitInv, BeginTransaction
  <2>3. ASSUME NEW l \in Lock, CommitTransaction(l)
        PROVE  pending'[c] \cup durable' \subseteq issued'
    <3>1. txn \in Connection
      BY <2>3, CommitOwner DEF UnitInv
    <3>2. QED
      BY <2>1, <2>3, <3>1 DEF UnitInv, CommitTransaction, TypeOK
  <2>4. ASSUME NEW l \in Lock, CloseTransaction(l)
        PROVE  pending'[c] \cup durable' \subseteq issued'
    BY <2>1, <2>4 DEF UnitInv, CloseTransaction, TypeOK
  <2>5. ASSUME NEW l \in Lock, NEW s \in Stmt, Execute(l, s)
        PROVE  pending'[c] \cup durable' \subseteq issued'
    BY <2>1, <2>5 DEF UnitInv, Execute, TypeOK
  <2>6. CASE UNCHANGED vars
    BY <2>6 DEF UnitInv, vars
  <2>7. CASE BeginThrows
    BY <2>7 DEF UnitInv, BeginThrows
  <2>8. QED
    BY <2>2, <2>3, <2>4, <2>5, <2>6, <2>7 DEF Next
<1>4. QED
  BY <1>1, <1>2, <1>3 DEF UnitInv

\* With one connection, static counter and pointer together implement the
\* atomic unit of work for any set of locks and statements, statements after a
\* commit() included.
THEOREM LockImplementsUnit ==
    ASSUME NEW c, Connection = {c}, ~StartMayFail
    PROVE  Spec => ImplementsUnit
<1> USE DEF Unit!vars
<1>1. Init => Unit!Init
  BY UnitOfOneConnection DEF Init, Unit!Init
<1>2. UnitInv /\ UnitInv' /\ [Next]_vars => [Unit!Next]_(Unit!vars)
  <2> SUFFICES ASSUME UnitInv, UnitInv', [Next]_vars
               PROVE  [Unit!Next]_(Unit!vars)
    OBVIOUS
  <2> DEFINE work == UNION {pending[d] : d \in Connection}
  <2>0. work = pending[c] /\ work' = pending'[c] /\ TypeOK /\ TypeOK'
    BY UnitOfOneConnection DEF UnitInv, LockInv
  <2>1. ASSUME NEW l \in Lock, NEW d \in Connection, BeginTransaction(l, d)
        PROVE  [Unit!Next]_(Unit!vars)
    <3>1. CASE counter = 0
      <4>1. txn = None /\ txn' = c /\ c # None /\ open' = {c}
        BY <2>0, <2>1, <3>1, LockAssumption DEF BeginTransaction, UnitInv, LockInv,
           Ownership, OpenIsOwned, TypeOK
      <4>2. Unit!Start
        BY <2>0, <2>1, <3>1, <4>1 DEF BeginTransaction, Unit!Start
      <4>3. QED
        BY <4>2 DEF Unit!Next
    <3>2. CASE counter # 0
      <4>1. UNCHANGED <<txn, open, pending, durable>>
        BY <2>1, <3>2 DEF BeginTransaction, UnitInv, LockInv, TypeOK
      <4>2. QED
        BY <4>1
    <3>3. QED
      BY <3>1, <3>2
  <2>2. ASSUME NEW l \in Lock, CommitTransaction(l)
        PROVE  [Unit!Next]_(Unit!vars)
    <3>1. txn = c /\ c # None /\ txn' = c /\ open = IF spent THEN {} ELSE {c}
      BY <2>2, CommitOwner, LockAssumption DEF UnitInv, CommitTransaction
    <3>2. CASE spent
      <4>1. pending[c] = {}
        BY <2>0, <3>1, <3>2 DEF UnitInv, LockInv, Ownership, PendingIsOwned
      <4>2. open' = open /\ work' = work /\ durable' = durable
        BY <2>0, <2>2, <3>1, <3>2, <4>1 DEF CommitTransaction, TypeOK
      <4>3. QED
        BY <3>1, <4>2
    <3>3. CASE ~spent
      <4>1. open' = {}
        BY <2>2, <3>1, <3>3 DEF CommitTransaction
      <4>2. Unit!Commit
        BY <2>0, <2>2, <3>1, <3>3, <4>1 DEF CommitTransaction, TypeOK, Unit!Commit
      <4>3. QED
        BY <4>2 DEF Unit!Next
    <3>4. QED
      BY <3>2, <3>3
  <2>3. ASSUME NEW l \in Lock, CloseTransaction(l)
        PROVE  [Unit!Next]_(Unit!vars)
    <3>1. CASE counter <= 1
      <4>1. HeldLocks # {}
        BY <2>3 DEF CloseTransaction
      <4>2. txn = c /\ c # None
        BY <4>1, HeldHasTransaction, LockAssumption DEF UnitInv
      <4>3. txn' = None /\ pending'[c] = {} /\ durable' = durable
        BY <2>3, <3>1, <4>2 DEF CloseTransaction
      <4>4. Unit!End
        BY <2>0, <4>2, <4>3 DEF Unit!End
      <4>5. QED
        BY <4>4 DEF Unit!Next
    <3>2. CASE ~(counter <= 1)
      <4>1. UNCHANGED <<txn, open, pending, durable>>
        BY <2>3, <3>2 DEF CloseTransaction
      <4>2. QED
        BY <4>1
    <3>3. QED
      BY <3>1, <3>2
  <2>4. ASSUME NEW l \in Lock, NEW s \in Stmt, Execute(l, s)
        PROVE  [Unit!Next]_(Unit!vars)
    <3>1. held[l] = c /\ txn = c /\ c # None /\ open = IF spent THEN {} ELSE {c}
      BY <2>0, <2>4, HeldHasTransaction, LockAssumption
         DEF Execute, HeldLocks, UnitInv, TypeOK
    <3>2. s \notin pending[c] \cup durable /\ UNCHANGED <<txn, open>>
      BY <2>4 DEF Execute, UnitInv
    <3>3. CASE spent
      <4>1. Unit!ExecuteAlone(s)
        BY <2>0, <2>4, <3>1, <3>2, <3>3 DEF Execute, Unit!ExecuteAlone
      <4>2. QED
        BY <4>1 DEF Unit!Next
    <3>4. CASE ~spent
      <4>1. Unit!Execute(s)
        BY <2>0, <2>4, <3>1, <3>2, <3>4 DEF Execute, TypeOK, Unit!Execute
      <4>2. QED
        BY <4>1 DEF Unit!Next
    <3>5. QED
      BY <3>3, <3>4
  <2>5. CASE UNCHANGED vars
    BY <2>5 DEF vars
  <2>6. ~BeginThrows
    BY DEF BeginThrows
  <2>7. QED
    BY <2>1, <2>2, <2>3, <2>4, <2>5, <2>6 DEF Next
<1>3. QED
  BY <1>1, <1>2, InitUnitInv, NextUnitInv, PTL DEF Spec, ImplementsUnit, Unit!Spec
=============================================================================
