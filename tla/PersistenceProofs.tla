------------------------- MODULE PersistenceProofs -------------------------
(***************************************************************************)
(* What the calls of the create/update/destroy engine do to the database,  *)
(* for every schema, every set of objects, nested or failing calls and     *)
(* client locks.                                                           *)
(***************************************************************************)
EXTENDS PersistenceTypeProofs

-----------------------------------------------------------------------------
\* Every step of the engine is of one of four sorts: a function takes its lock,
\* it works under the lock of one it was called by, it returns and leaves its
\* lock, or an exception ends the call.
Locks == ~Idle /\ Enter /\ UNCHANGED <<db, durable, held, spent, call>>
Works ==
    /\ ~Idle /\ counter > 0
    /\ UNCHANGED <<counter, held, spent, call>>
    /\ UNCHANGED <<db, durable>> \/ durable' = IF spent THEN db' ELSE durable
Ends == ~Idle /\ Locking(Top) /\ CommitAndLeave /\ Finish /\ UNCHANGED <<db, held, spent>>
Aborts == ~Idle /\ \E result \in {"error", "failed"} : Abort(result)

\* A call makes something durable only when it ends; until then what others
\* see is what the call began with.  That is over once the client has committed
\* the lock it holds: from there others see what the session sees.
CommitInv ==
    /\ counter = 0 => db = durable
    /\ ~held /\ call.op # "none" /\ call.result # "ok" => durable = call.before
    /\ call.result # "none" => call.op # "none"
    /\ spent => held /\ db = durable

StoreInv == EngineInv /\ CommitInv

-----------------------------------------------------------------------------
\* A function that waits for another one at the bottom of the stack has a lock.
LEMMA BottomLocks ==
    ASSUME EngineInv, ~Idle, Rest # <<>>
    PROVE  LocksOf(Rest) \in Nat /\ LocksOf(Rest) >= 1
<1>1. /\ Rest \in Seq(Frame) /\ stack \in Seq(Frame)
      /\ Len(stack) = Len(Rest) + 1
      /\ \A n \in 1..Len(Rest) : Rest[n] = stack[n + 1]
  BY StackParts DEF EngineInv, TypeOK
<1> HIDE DEF Frame
<1>2. PICK n \in Nat : n = Len(Rest) /\ n >= 1 /\ n \in DOMAIN Rest
  BY <1>1
<1>3. Rest[n] = stack[n + 1] /\ n + 1 = Len(stack) /\ n \in 1..Len(stack) - 1
  BY <1>1, <1>2
<1>4. Outermost(Rest[n], call)
  BY <1>3 DEF EngineInv, Shape, Idle
<1>5. Called(Rest[n], stack[n])
  BY <1>3 DEF EngineInv, Shape
<1>6. Locking(Rest[n])
  BY <1>4, <1>5 DEF Outermost, Called, Locking
<1>7. n \in {m \in DOMAIN Rest : Locking(Rest[m])}
  BY <1>2, <1>6
<1>8. LocksOf(Rest) \in Nat /\ IsFiniteSet({m \in DOMAIN Rest : Locking(Rest[m])})
  BY <1>1, LocksOfType
<1>9. LocksOf(Rest) # 0
  BY <1>7, <1>8, FS_EmptySet DEF LocksOf
<1>. QED BY <1>8, <1>9

\* The counter is that of the head, the rest and the client.
LEMMA CounterParts ==
    ASSUME EngineInv, ~Idle
    PROVE  /\ counter = Weight(Top) + LocksOf(Rest) + (IF held THEN 1 ELSE 0)
           /\ LocksOf(Rest) \in Nat
           /\ Rest # <<>> => counter > 0
           /\ Locking(Top) => counter > 0
<1>1. counter = Weight(Top) + LocksOf(Rest) + (IF held THEN 1 ELSE 0)
  BY StackParts DEF EngineInv, LocksMatchStack
<1>2. LocksOf(Rest) \in Nat
  BY StackParts, LocksOfType DEF EngineInv
<1>3. Rest # <<>> => LocksOf(Rest) >= 1
  BY BottomLocks
<1>. QED BY <1>1, <1>2, <1>3 DEF Weight

\* The client's lock is counted.
LEMMA HeldCounts ==
    ASSUME EngineInv, held
    PROVE  counter \in Nat /\ counter > 0
<1>1. stack \in Seq(Frame) /\ LocksOf(stack) \in Nat
  BY LocksOfType DEF EngineInv, TypeOK
<1>. QED BY <1>1 DEF EngineInv, TypeOK, LocksMatchStack

\* What a function that leaves its lock does: it commits if it is the call
\* itself and the client holds no lock.
LEMMA EndsParts ==
    ASSUME EngineInv, Ends
    PROVE  /\ counter \in Nat \ {0} /\ counter' = counter - 1
           /\ counter = 1 <=> Rest = <<>> /\ ~held
           /\ durable' = IF counter = 1 THEN db ELSE durable
           /\ Rest # <<>> => call' = call
           /\ Rest = <<>> => call' = [call EXCEPT !.result = "ok"]
<1>1. counter \in Nat \ {0}
  BY CounterParts DEF Ends, EngineInv, TypeOK
<1>2. counter = 1 + LocksOf(Rest) + (IF held THEN 1 ELSE 0) /\ LocksOf(Rest) \in Nat
  BY CounterParts DEF Ends, Weight
<1>3. Rest # <<>> => LocksOf(Rest) >= 1
  BY BottomLocks DEF Ends
<1>4. Rest = <<>> => LocksOf(Rest) = 0
  <2>1. {n \in DOMAIN <<>> : Locking(<<>>[n])} = {}
    OBVIOUS
  <2>. QED BY <2>1, FS_EmptySet DEF LocksOf
<1>5. counter = 1 <=> Rest = <<>> /\ ~held
  BY <1>2, <1>3, <1>4
<1>. QED BY <1>1, <1>5 DEF Ends, CommitAndLeave, Finish

\* The call of a function that runs.
LEMMA RunningCall ==
    ASSUME EngineInv, ~Idle
    PROVE  call.op # "none" /\ call.result = "none"
BY DEF EngineInv, Shape, Idle, Outermost

\* A function that is called by others works under their locks.
LEMMA InnerWorks ==
    ASSUME EngineInv, ~Idle, Top.kind \in {"exec", "cleanup"}
    PROVE  counter > 0
<1>1. Rest # <<>>
  BY TopFrame DEF Outermost
<1>. QED BY <1>1, CounterParts

\* The four sorts cover every step.
LEMMA StepParts ==
    ASSUME EngineInv, Step
    PROVE  Locks \/ Works \/ Ends \/ Aborts
<1>1. CASE ApplyBegin
  BY <1>1 DEF ApplyBegin, Throw, At, Locks, Aborts
<1>2. CASE ApplyEnd
  BY <1>2 DEF ApplyEnd, At, Locking, Ends
<1>3. CASE EachBegin
  BY <1>3 DEF EachBegin, At, Locks
<1>4. CASE EachNext
  <2>1. ~Idle /\ Locking(Top)
    BY <1>4 DEF EachNext, At, Locking
  <2>2. counter > 0
    BY <2>1, CounterParts
  <2>. QED BY <1>4, <2>1, <2>2 DEF EachNext, Works, Ends
<1>5. CASE ExecKey
  <2>1. ~Idle /\ counter > 0
    BY <1>5, InnerWorks DEF ExecKey, At
  <2>. QED BY <1>5, <2>1 DEF ExecKey, Throw, Works, Aborts
<1>6. CASE ExecBase \/ ExecOne \/ ExecMany \/ ExecCleanup
  <2>1. ~Idle /\ Top.kind = "exec"
    BY <1>6 DEF ExecBase, ExecOne, ExecMany, ExecCleanup, At
  <2>2. counter > 0
    BY <2>1, InnerWorks
  <2>3. UNCHANGED <<counter, held, spent, call>>
    BY <1>6 DEF ExecBase, ExecOne, ExecMany, ExecCleanup
  <2>4. UNCHANGED <<db, durable>> \/ durable' = IF spent THEN db' ELSE durable
    BY <1>6 DEF ExecBase, ExecOne, ExecMany, ExecCleanup, Executes
  <2>. QED BY <2>1, <2>2, <2>3, <2>4 DEF Works
<1>7. CASE ExecAfter
  <2>1. ~Idle /\ counter > 0
    BY <1>7, InnerWorks DEF ExecAfter, At
  <2>. QED BY <1>7, <2>1 DEF ExecAfter, Throw, Executes, Works, Aborts
<1>8. CASE ExecWrite
  <2>1. ~Idle /\ counter > 0
    BY <1>8, InnerWorks DEF ExecWrite, At
  <2>. QED BY <1>8, <2>1 DEF ExecWrite, Throw, Executes, Works, Aborts
<1>9. CASE Cleanup
  <2>1. ~Idle /\ counter > 0
    BY <1>9, InnerWorks DEF Cleanup, At
  <2>. QED BY <1>9, <2>1 DEF Cleanup, Executes, Works
<1>10. CASE DestroyBegin
  BY <1>10 DEF DestroyBegin, Throw, At, Locks, Aborts
<1>11. CASE DestroyDelete
  <2>1. ~Idle /\ Locking(Top)
    BY <1>11 DEF DestroyDelete, At, Locking
  <2>2. counter > 0
    BY <2>1, CounterParts
  <2>. QED BY <1>11, <2>1, <2>2 DEF DestroyDelete, Executes, Works
<1>12. CASE DestroyEnd
  BY <1>12 DEF DestroyEnd, At, Locking, Ends
<1>. QED BY <1>1, <1>2, <1>3, <1>4, <1>5, <1>6, <1>7, <1>8, <1>9, <1>10, <1>11, <1>12
         DEF Step

-----------------------------------------------------------------------------
\* Nothing is stored at first.
LEMMA InitStore == Init => StoreInv
<1> SUFFICES ASSUME Init PROVE StoreInv
  OBVIOUS
<1>1. CommitInv
  BY DEF Init, CommitInv, NoCall
<1>. QED BY <1>1, InitEngine DEF StoreInv

\* A call that is no call.
LEMMA NoCallIsNone == NoCall.op = "none" /\ NoCall.result = "none"
BY DEF NoCall

\* Every step keeps what is durable apart from what is not.
LEMMA NextCommit ==
    ASSUME StoreInv, [Next]_vars
    PROVE  CommitInv'
<1>1. EngineInv /\ CommitInv /\ TypeOK /\ EngineInv'
  BY NextEngine DEF StoreInv, EngineInv
<1>2. CASE Aborts
  <2>1. PICK result \in {"error", "failed"} : Abort(result)
    BY <1>2 DEF Aborts
  <2>2. call.op # "none" /\ call.result = "none"
    BY <1>1, <1>2, RunningCall DEF Aborts
  <2>3. call'.op = call.op /\ call'.before = call.before
    BY <1>1, <2>1 DEF Abort, TypeOK
  <2>4. counter' = (IF held THEN 1 ELSE 0) /\ UNCHANGED <<held, spent, durable>>
        /\ db' = IF held THEN db ELSE durable
    BY <2>1 DEF Abort
  <2>. QED BY <1>1, <2>2, <2>3, <2>4 DEF CommitInv
<1>3. CASE Locks
  BY <1>1, <1>3 DEF Locks, Enter, CommitInv, TypeOK
<1>4. CASE Works
  BY <1>1, <1>4 DEF Works, CommitInv
<1>5. CASE Ends
  <2>1. /\ counter \in Nat \ {0} /\ counter' = counter - 1
        /\ counter = 1 <=> Rest = <<>> /\ ~held
        /\ durable' = IF counter = 1 THEN db ELSE durable
        /\ Rest # <<>> => call' = call
        /\ Rest = <<>> => call' = [call EXCEPT !.result = "ok"]
    BY <1>1, <1>5, EndsParts
  <2>2. UNCHANGED <<db, held, spent>> /\ call.op # "none" /\ call.result = "none"
    BY <1>1, <1>5, RunningCall DEF Ends
  <2>3. CASE Rest = <<>>
    <3>1. call'.op = call.op /\ call'.result = "ok"
      BY <1>1, <2>1, <2>3 DEF TypeOK
    <3>. QED BY <1>1, <2>1, <2>2, <3>1 DEF CommitInv
  <2>4. CASE Rest # <<>>
    BY <1>1, <2>1, <2>2, <2>4 DEF CommitInv
  <2>. QED BY <2>3, <2>4
<1>6. CASE StatementFails
  BY <1>2, <1>6 DEF StatementFails, Aborts
<1>7. CASE Edit
  BY <1>1, <1>7, NoCallIsNone DEF Edit, CommitInv
<1>8. CASE Calls
  <2>1. Idle /\ counter = IF held THEN 1 ELSE 0
    BY <1>1, <1>8, IdleCounter DEF Calls
  <2>2. \E op \in {"create", "update", "destroy"} : \E objs, t, frame : Begin(op, objs, t, frame)
    BY <1>8 DEF Calls, CallObject, CallGroup, CallDestroy, CreateOrUpdate
  <2>3. /\ UNCHANGED <<db, durable, counter, held, spent>>
        /\ call'.op # "none" /\ call'.result = "none" /\ call'.before = db
    BY <2>2 DEF Begin
  <2>. QED BY <1>1, <2>1, <2>3 DEF CommitInv
<1>9. CASE TakeLock
  BY <1>1, <1>9, NoCallIsNone DEF TakeLock, Enter, CommitInv, TypeOK
<1>10. CASE CommitLock \/ ReleaseLock
  <2>1. db' = durable' /\ call' = NoCall /\ (spent' => held')
    BY <1>10 DEF CommitLock, ReleaseLock
  <2>. QED BY <2>1, NoCallIsNone DEF CommitInv
<1>11. CASE UNCHANGED vars
  BY <1>1, <1>11 DEF vars, CommitInv
<1>. QED BY <1>1, <1>2, <1>3, <1>4, <1>5, <1>6, <1>7, <1>8, <1>9, <1>10, <1>11, StepParts
         DEF Next

\* The invariant of the engine and its commits.
THEOREM StoreCorrect == Spec => []StoreInv
<1>1. StoreInv /\ [Next]_vars => StoreInv'
  BY NextEngine, NextCommit DEF StoreInv
<1>. QED BY <1>1, InitStore, PTL DEF Spec

-----------------------------------------------------------------------------
\* Between calls no transaction is open unless the client holds a lock, however
\* the calls before ended.
THEOREM IdleCommitted == Spec => []IdleIsCommitted
<1>1. StoreInv => IdleIsCommitted
  BY IdleCounter DEF StoreInv, CommitInv, IdleIsCommitted
<1>. QED BY <1>1, StoreCorrect, PTL

\* A call that throws, at whatever statement, leaves the database as it found
\* it; a call in progress shows nothing of its work to others.
THEOREM FailedLeavesNoTrace == Spec => []FailedCallLeavesNoTrace
<1>1. ASSUME StoreInv, ~held, call.result \in {"error", "failed"}
      PROVE  db = call.before
  <2>1. Idle
    BY <1>1, RunningCall DEF StoreInv
  <2>2. counter = 0 /\ call.op # "none"
    BY <1>1, <2>1, IdleCounter DEF StoreInv, CommitInv
  <2>. QED BY <1>1, <2>2 DEF StoreInv, CommitInv
<1>2. StoreInv => FailedCallLeavesNoTrace
  BY <1>1 DEF StoreInv, CommitInv, FailedCallLeavesNoTrace
<1>. QED BY <1>2, StoreCorrect, PTL

\* What becomes durable becomes so by the end of a call, by the commit() of the
\* client's lock, or by a statement that comes after that commit().
LEMMA DurableSteps ==
    ASSUME StoreInv, [Next]_vars, durable' # durable
    PROVE  (Ends /\ counter = 1) \/ (Works /\ spent) \/ CommitLock
<1>1. EngineInv
  BY DEF StoreInv
<1>2. ~Locks /\ ~Aborts /\ ~ReleaseLock
  BY DEF Locks, Aborts, Abort, ReleaseLock
<1>3. ~StatementFails /\ ~Edit /\ ~TakeLock /\ ~UNCHANGED vars
  BY DEF StatementFails, Abort, Edit, TakeLock, vars
<1>4. ~Calls
  BY DEF Calls, CallObject, CallGroup, CallDestroy, CreateOrUpdate, Begin
<1>5. Ends => counter = 1
  BY <1>1, EndsParts
<1>6. Works => spent
  BY DEF Works
<1>. QED BY <1>1, <1>2, <1>3, <1>4, <1>5, <1>6, StepParts DEF Next

\* While the client holds a lock it has not committed, no call makes anything
\* durable, however it ends.
THEOREM ClientLockDefers == Spec => LockDefersCalls
<1>1. ASSUME StoreInv, [Next]_vars, held, held', ~spent' PROVE UNCHANGED durable
  <2>1. ~CommitLock /\ ~(Works /\ spent)
    BY <1>1 DEF CommitLock, Works
  <2>2. ~(Ends /\ counter = 1)
    BY <1>1, EndsParts DEF StoreInv
  <2>. QED BY <1>1, <2>1, <2>2, DurableSteps
<1>2. StoreInv /\ [Next]_vars => [held /\ held' /\ ~spent' => UNCHANGED durable]_vars
  BY <1>1
<1>. QED BY <1>2, StoreCorrect, PTL DEF Spec, LockDefersCalls

-----------------------------------------------------------------------------
\* A step of the engine is a step of the atomic store, or none.
LEMMA StoreStep ==
    ASSUME StoreInv, StoreInv', [Next]_vars
    PROVE  [Store!Next]_(Store!vars)
<1> USE DEF Store!vars
<1>1. EngineInv /\ CommitInv /\ TypeOK /\ TypeOK' /\ counter \in Nat /\ counter' \in Nat
  BY DEF StoreInv, EngineInv, TypeOK
<1>2. db' \in [Key -> Row \cup {NoRow}]
  BY <1>1 DEF TypeOK
<1>3. CASE Aborts
  <2>1. /\ counter' = (IF held THEN 1 ELSE 0) /\ UNCHANGED <<durable, spent>>
        /\ db' = IF held THEN db ELSE durable
    BY <1>3 DEF Aborts, Abort
  <2>2. held => counter > 0
    BY <1>1, HeldCounts
  <2>3. CASE held
    BY <2>1, <2>2, <2>3
  <2>4. CASE ~held /\ counter = 0
    BY <1>1, <2>1, <2>4 DEF CommitInv
  <2>5. CASE ~held /\ counter > 0
    <3>1. Store!Rollback
      BY <1>1, <2>1, <2>5 DEF CommitInv, Store!Rollback
    <3>. QED BY <3>1 DEF Store!Next
  <2>. QED BY <1>1, <2>3, <2>4, <2>5
<1>4. CASE Locks
  <2>1. counter' = counter + 1 /\ UNCHANGED <<db, durable, spent>>
    BY <1>4 DEF Locks, Enter
  <2>2. CASE counter = 0
    <3>1. ~spent /\ ~spent'
      BY <1>1, <2>1, <2>2, HeldCounts DEF CommitInv
    <3>2. Store!Start
      BY <1>1, <2>1, <2>2, <3>1 DEF CommitInv, Store!Start
    <3>. QED BY <3>2 DEF Store!Next
  <2>3. CASE counter > 0
    BY <1>1, <2>1, <2>3
  <2>. QED BY <1>1, <2>2, <2>3
<1>5. CASE Works
  <2>1. counter > 0 /\ counter' = counter /\ (spent <=> spent')
    BY <1>5 DEF Works
  <2>2. CASE UNCHANGED <<db, durable>>
    BY <2>1, <2>2
  <2>3. CASE ~spent /\ durable' = durable
    <3>1. Store!Work
      BY <1>1, <1>2, <2>1, <2>3 DEF Store!Work
    <3>. QED BY <3>1 DEF Store!Next
  <2>4. CASE spent /\ durable' = db'
    <3>1. Store!WorkAlone
      BY <1>1, <1>2, <2>1, <2>4 DEF Store!WorkAlone
    <3>. QED BY <3>1 DEF Store!Next
  <2>. QED BY <1>5, <2>2, <2>3, <2>4 DEF Works
<1>6. CASE Ends
  <2>1. /\ counter \in Nat \ {0} /\ counter' = counter - 1 /\ UNCHANGED <<db, spent>>
        /\ durable' = IF counter = 1 THEN db ELSE durable
        /\ counter = 1 => ~held
    BY <1>1, <1>6, EndsParts DEF Ends
  <2>2. CASE counter = 1
    <3>1. ~spent /\ counter' = 0
      BY <1>1, <2>1, <2>2 DEF CommitInv
    <3>2. Store!Commit
      BY <2>1, <2>2, <3>1 DEF Store!Commit
    <3>. QED BY <3>2 DEF Store!Next
  <2>3. CASE counter # 1
    <3>1. counter' > 0 /\ counter > 0 /\ UNCHANGED <<db, durable, spent>>
      BY <2>1, <2>3
    <3>. QED BY <3>1
  <2>. QED BY <2>2, <2>3
<1>7. CASE Edit \/ UNCHANGED vars
  BY <1>7 DEF Edit, vars
<1>8. CASE Calls
  <2>1. UNCHANGED <<db, durable, counter, spent>>
    BY <1>8 DEF Calls, CallObject, CallGroup, CallDestroy, CreateOrUpdate, Begin
  <2>. QED BY <2>1
<1>9. CASE TakeLock
  <2>1. counter = 0 /\ counter' = 1 /\ ~spent /\ UNCHANGED <<db, durable, spent>>
    BY <1>1, <1>9, IdleCounter DEF TakeLock, Enter, CommitInv
  <2>2. Store!Start
    BY <1>1, <2>1 DEF CommitInv, Store!Start
  <2>. QED BY <2>2 DEF Store!Next
<1>10. CASE CommitLock
  <2>1. counter = 1 /\ counter' = 1 /\ spent' /\ db' = db /\ durable' = db
    BY <1>10 DEF CommitLock
  <2>2. CASE spent
    BY <1>1, <2>1, <2>2 DEF CommitInv
  <2>3. CASE ~spent
    <3>1. Store!Commit
      BY <2>1, <2>3 DEF Store!Commit
    <3>. QED BY <3>1 DEF Store!Next
  <2>. QED BY <2>2, <2>3
<1>11. CASE ReleaseLock
  <2>1. counter = 1 /\ counter' = 0 /\ db' = durable /\ durable' = durable
    BY <1>1, <1>11, IdleCounter DEF ReleaseLock
  <2>2. CASE spent
    <3>1. Store!End
      BY <1>1, <2>1, <2>2 DEF CommitInv, Store!End
    <3>. QED BY <3>1 DEF Store!Next
  <2>3. CASE ~spent
    <3>1. Store!Rollback
      BY <2>1, <2>3 DEF Store!Rollback
    <3>. QED BY <3>1 DEF Store!Next
  <2>. QED BY <2>2, <2>3
<1>12. CASE StatementFails
  BY <1>3, <1>12 DEF StatementFails, Aborts
<1>. QED BY <1>1, <1>3, <1>4, <1>5, <1>6, <1>7, <1>8, <1>9, <1>10, <1>11,
         <1>12, StepParts DEF Next

\* The engine implements the atomic store: whatever functions call one another,
\* wherever one of them throws, the work of a call, or of all the calls under
\* the client's lock, becomes durable in one step or is undone, and what is done
\* under a lock the client has committed and still holds becomes durable piece by
\* piece and is never undone.
THEOREM PersistenceImplementsStore == Spec => ImplementsStore
<1>1. Init => Store!Init
  BY DEF Init, Store!Init
<1>2. StoreInv /\ StoreInv' /\ [Next]_vars => [Store!Next]_(Store!vars)
  BY StoreStep
<1>. QED BY <1>1, <1>2, StoreCorrect, PTL DEF Spec, ImplementsStore, Store!Spec

=============================================================================
