-------------------------- MODULE TransactionLock --------------------------
(***************************************************************************)
(* driver/mariadb/helper/transaction_lock.h: the lock every operation of   *)
(* the driver takes (create, read, update, destroy, init) and the one      *)
(* lock() hands to the user.                                               *)
(*                                                                         *)
(* All locks of the process share one static counter and one static        *)
(* transaction pointer, whatever connection they were made for.  The lock  *)
(* that raises the counter to 1 starts the transaction, the lock that is   *)
(* alone commits it, the one that brings the counter back to 0 resets the  *)
(* pointer, and the destructor of cppmariadb::transaction rolls back what  *)
(* was not committed.  The locks are std::unique_ptr objects in the user's *)
(* hands, so nothing forces them to be released in any order, and nothing  *)
(* forces the user to release a lock he has committed: from such a         *)
(* commit() to the end of the last lock the pointer is set and no session  *)
(* is in a transaction.                                                    *)
(*                                                                         *)
(* The database is reduced to which statements are durable and which wait  *)
(* for a COMMIT on the session that executed them.                         *)
(***************************************************************************)
EXTENDS Naturals, FiniteSets

CONSTANTS
    Lock,               \* the transaction_lock objects that may be alive
    Connection,         \* cppmariadb::connection objects
    Stmt,               \* writing statements, each executed at most once
    None,               \* no connection / a null transaction pointer
    StartMayFail        \* whether START TRANSACTION may raise an error

ASSUME LockAssumption ==
    /\ IsFiniteSet(Lock)
    /\ None \notin Connection
    /\ StartMayFail \in BOOLEAN

VARIABLES
    counter,            \* ref_counter()
    txn,                \* ref_transaction_ptr(): its connection, or None
    held,               \* the connection a live lock was made for, or None
    spent,              \* commit() has ended the transaction of the pointer
    open,               \* sessions inside a transaction (server side)
    pending,            \* statements a session executed and has not committed
    durable,            \* statements that are committed
    issued,             \* statements executed at all
    leaked              \* lock constructors that raised the counter and threw

vars == <<counter, txn, held, spent, open, pending, durable, issued, leaked>>

HeldLocks == {l \in Lock : held[l] # None}

Init ==
    /\ counter = 0
    /\ txn = None
    /\ held = [l \in Lock |-> None]
    /\ spent = FALSE
    /\ open = {}
    /\ pending = [c \in Connection |-> {}]
    /\ durable = {}
    /\ issued = {}
    /\ leaked = 0

\* Mutant: the lock that finds the counter up does not raise it.
BeginUncounted(l, c) ==
    /\ held[l] = None
    /\ IF counter = 0
       THEN txn' = c /\ open' = open \cup {c} /\ counter' = 1
       ELSE UNCHANGED <<txn, open, counter>>
    /\ held' = [held EXCEPT ![l] = c]
    /\ UNCHANGED <<spent, pending, durable, issued, leaked>>

\* The constructor: the counter is raised first, and only the lock that finds
\* it at 1 starts a transaction, on its own connection.
BeginTransaction(l, c) ==
    /\ held[l] = None
    /\ counter' = counter + 1
    /\ IF counter' = 1
       THEN txn' = c /\ open' = open \cup {c}
       ELSE UNCHANGED <<txn, open>>
    /\ held' = [held EXCEPT ![l] = c]
    /\ UNCHANGED <<spent, pending, durable, issued, leaked>>

\* Mutant: the constructor that throws gives its count back.
BeginThrowsCleanly ==
    /\ StartMayFail
    /\ counter = 0
    /\ leaked' = 1
    /\ UNCHANGED <<counter, txn, held, spent, open, pending, durable, issued>>

\* START TRANSACTION throws.  The counter was already raised, and the
\* destructor of an object whose constructor threw is never run.
BeginThrows ==
    /\ StartMayFail
    /\ counter' = counter + 1
    /\ counter' = 1
    /\ leaked' = leaked + 1
    /\ UNCHANGED <<txn, held, spent, open, pending, durable, issued>>

\* Mutants: commit() beside a second lock, and one that ends the transaction but
\* not its work.
CommitUnderTwo(l) ==
    /\ l \in HeldLocks
    /\ counter = 2
    /\ durable' = durable \cup pending[txn]
    /\ pending' = [pending EXCEPT ![txn] = {}]
    /\ open' = open \ {txn}
    /\ spent' = TRUE
    /\ UNCHANGED <<counter, txn, held, issued, leaked>>

CommitKeepsWork(l) ==
    /\ l \in HeldLocks
    /\ counter = 1
    /\ open' = open \ {txn}
    /\ spent' = TRUE
    /\ UNCHANGED <<counter, txn, held, pending, durable, issued, leaked>>

\* commit(): effective only when the counter is at 1; any other commit()
\* returns false and changes nothing.  The lock goes on living, and so do the
\* counter and the pointer: until the last destructor a lock that is taken
\* finds the counter up and starts no transaction.  A second commit() finds
\* the transaction ended and has nothing to make durable.
CommitTransaction(l) ==
    /\ l \in HeldLocks
    /\ counter = 1
    /\ durable' = durable \cup pending[txn]
    /\ pending' = [pending EXCEPT ![txn] = {}]
    /\ open' = open \ {txn}
    /\ spent' = TRUE
    /\ UNCHANGED <<counter, txn, held, issued, leaked>>

\* Mutants: the lock before the last resets the pointer, a lock is counted
\* down twice, the transaction is not rolled back, or it is committed.
CloseOffByOne(l) ==
    /\ l \in HeldLocks
    /\ held' = [held EXCEPT ![l] = None]
    /\ counter' = counter - 1
    /\ IF counter = 2
       THEN /\ txn' = None
            /\ spent' = FALSE
            /\ open' = open \ {txn}
            /\ pending' = [c \in Connection |-> IF c = txn THEN {} ELSE pending[c]]
       ELSE UNCHANGED <<txn, spent, open, pending>>
    /\ UNCHANGED <<durable, issued, leaked>>

CloseTwice(l) ==
    /\ l \in HeldLocks
    /\ held' = [held EXCEPT ![l] = None]
    /\ counter' = counter - 2
    /\ UNCHANGED <<txn, spent, open, pending, durable, issued, leaked>>

CloseWithoutRollback(l) ==
    /\ l \in HeldLocks
    /\ held' = [held EXCEPT ![l] = None]
    /\ IF counter <= 1
       THEN counter' = 0 /\ txn' = None /\ spent' = FALSE /\ UNCHANGED <<open, pending>>
       ELSE counter' = counter - 1 /\ UNCHANGED <<txn, spent, open, pending>>
    /\ UNCHANGED <<durable, issued, leaked>>

CloseCommits(l) ==
    /\ l \in HeldLocks
    /\ held' = [held EXCEPT ![l] = None]
    /\ IF counter <= 1
       THEN /\ counter' = 0
            /\ txn' = None
            /\ spent' = FALSE
            /\ open' = open \ {txn}
            /\ durable' = durable \cup UNION {pending[c] : c \in open}
            /\ pending' = [c \in Connection |-> IF c = txn THEN {} ELSE pending[c]]
       ELSE counter' = counter - 1 /\ UNCHANGED <<txn, spent, open, pending, durable>>
    /\ UNCHANGED <<issued, leaked>>

\* The destructor.  The last lock resets the pointer; ~transaction() then
\* rolls back a transaction that is still open, and leaves one alone that
\* commit() has ended.
CloseTransaction(l) ==
    /\ l \in HeldLocks
    /\ held' = [held EXCEPT ![l] = None]
    /\ IF counter <= 1
       THEN /\ counter' = 0
            /\ txn' = None
            /\ spent' = FALSE
            /\ open' = open \ {txn}
            /\ pending' = [c \in Connection |->
                              IF c = txn THEN {} ELSE pending[c]]
       ELSE /\ counter' = counter - 1
            /\ UNCHANGED <<txn, spent, open, pending>>
    /\ UNCHANGED <<durable, issued, leaked>>

\* A statement of the operation that holds l, on the connection of l.  A
\* session that is not in a transaction commits every statement by itself.
Execute(l, s) ==
    /\ l \in HeldLocks
    /\ s \notin issued
    /\ issued' = issued \cup {s}
    /\ IF held[l] \in open
       THEN /\ pending' = [pending EXCEPT ![held[l]] = @ \cup {s}]
            /\ UNCHANGED durable
       ELSE /\ durable' = durable \cup {s}
            /\ UNCHANGED pending
    /\ UNCHANGED <<counter, txn, held, spent, open, leaked>>

Next ==
    \/ \E l \in Lock, c \in Connection : BeginTransaction(l, c)
    \/ BeginThrows
    \/ \E l \in Lock : CommitTransaction(l)
    \/ \E l \in Lock : CloseTransaction(l)
    \/ \E l \in Lock, s \in Stmt : Execute(l, s)

Spec == Init /\ [][Next]_vars

-----------------------------------------------------------------------------
TypeOK ==
    /\ counter \in Nat
    /\ txn \in Connection \cup {None}
    /\ held \in [Lock -> Connection \cup {None}]
    /\ spent \in BOOLEAN
    /\ open \in SUBSET Connection
    /\ pending \in [Connection -> SUBSET Stmt]
    /\ durable \in SUBSET Stmt
    /\ issued \in SUBSET Stmt
    /\ leaked \in Nat

\* The static counter counts the live locks, whatever the order in which the
\* unique_ptrs were released, plus the constructors that threw.
CounterIsLocks == counter = Cardinality(HeldLocks) + leaked

\* commit() dereferences the static pointer without a test: whenever a live
\* lock would take that branch, the pointer is not null.
CommitHasTransaction ==
    \A l \in HeldLocks : counter = 1 => txn # None

\* At most one session of the process is inside a transaction, and it is the
\* one the static pointer will roll back: no transaction is left dangling on a
\* connection after its lock is gone.
OpenIsOwned == open \subseteq {txn} \ {None}

\* Statements that wait for a COMMIT wait on the session of the transaction
\* the pointer owns: the last lock decides about all of them.
PendingIsOwned == \A c \in Connection : pending[c] # {} => c \in open

\* The invariant the others rest on.  The pointer is set exactly while the
\* counter is up, unless a constructor threw and left the counter raised with
\* a null pointer for good.  The session of the pointer is in its transaction
\* until a commit() found the counter at 1, whichever locks came and went, and
\* is in none from there until the pointer is reset: no lock taken in between
\* opens another.
Ownership ==
    /\ leaked = 0 => (counter = 0 <=> txn = None)
    /\ leaked > 0 => leaked = 1 /\ txn = None
    /\ txn # None => (txn \in open <=> ~spent)
    /\ txn = None => ~spent
    /\ OpenIsOwned
    /\ PendingIsOwned

\* Once the user has released every lock, the process is back where it began:
\* the next operation gets a transaction of its own.
QuiescentReset ==
    HeldLocks = {} /\ leaked = 0 => counter = 0 /\ txn = None /\ ~spent /\ open = {}

\* A START TRANSACTION that failed once leaves the counter raised for the life
\* of the process: no later lock starts a transaction again.
FailedStartIsPermanent == [][leaked > 0 => open' = {}]_vars

\* While several locks are alive no commit() makes anything durable on a
\* session that is in a transaction: the inner operation's commit() is void.
InnerCommitIsVoid ==
    [][Cardinality(HeldLocks) > 1 =>
          \A c \in open : pending[c] \subseteq pending'[c] /\ c \in open']_vars

-----------------------------------------------------------------------------
\* With one connection and a START TRANSACTION that works, the lock implements
\* the atomic unit of work: the unit lasts as long as the pointer is set, and
\* is spent from the commit() that ended the transaction of its session.
Unit == INSTANCE AtomicUnit WITH
           phase <- IF txn = None THEN "idle"
                    ELSE IF open # {} THEN "active" ELSE "spent",
           work  <- UNION {pending[c] : c \in Connection}

ImplementsUnit == Unit!Spec
=============================================================================
