----------------------------- MODULE AtomicUnit -----------------------------
(***************************************************************************)
(* What a user of the driver is promised: the statements executed while    *)
(* locks are held form one unit of work.  Either all of the unit becomes   *)
(* durable in a single step, or none of it does.  The promise ends with    *)
(* the commit, not with the locks: what is executed between the two is     *)
(* durable statement by statement, and no end can undo it.  Nothing of     *)
(* this module mentions counters, pointers or nesting; TransactionLock is  *)
(* shown to implement it.                                                  *)
(***************************************************************************)
CONSTANT Stmt           \* statements, each executed at most once

VARIABLES
    phase,              \* "idle", "active": a unit is in progress, "spent":
                        \* it has become durable and its locks live on
    work,               \* the statements of the unit executed so far
    durable             \* the statements whose effect can no longer be lost

vars == <<phase, work, durable>>

Init ==
    /\ phase = "idle"
    /\ work = {}
    /\ durable = {}

\* A unit begins empty.
Start ==
    /\ phase = "idle"
    /\ phase' = "active"
    /\ UNCHANGED <<work, durable>>

\* A statement is executed inside the unit.
Execute(s) ==
    /\ phase = "active"
    /\ s \notin work \cup durable
    /\ work' = work \cup {s}
    /\ UNCHANGED <<phase, durable>>

\* The whole unit becomes durable at once.
Commit ==
    /\ phase = "active"
    /\ phase' = "spent"
    /\ durable' = durable \cup work
    /\ work' = {}

\* A statement that comes after the commit is on its own.
ExecuteAlone(s) ==
    /\ phase = "spent"
    /\ s \notin durable
    /\ durable' = durable \cup {s}
    /\ UNCHANGED <<phase, work>>

\* The whole unit is discarded, or there is nothing of it to discard.
End ==
    /\ phase # "idle"
    /\ phase' = "idle"
    /\ work' = {}
    /\ UNCHANGED durable

Next ==
    \/ Start
    \/ \E s \in Stmt : Execute(s) \/ ExecuteAlone(s)
    \/ Commit
    \/ End

Spec == Init /\ [][Next]_vars
=============================================================================
