---------------------------- MODULE AtomicStore ----------------------------
(***************************************************************************)
(* What the driver's client is promised of the database: the work done     *)
(* while a unit is active is seen by nobody else until the whole of it     *)
(* becomes durable in one step, or it is undone.  A unit may go on after   *)
(* its commit; what is done then is durable piece by piece and is not      *)
(* undone.  Calls, objects, statements and nested locks are not mentioned; *)
(* Persistence is shown to implement it.                                   *)
(***************************************************************************)
CONSTANTS
    Content,            \* what a database may hold
    Empty               \* what it holds at first

VARIABLES
    phase,              \* "idle", "active": a unit of work is in progress,
                        \* "spent": it is committed and not yet over
    visible,            \* the content as the session of the client sees it
    durable             \* the content as everybody else sees it

vars == <<phase, visible, durable>>

Init ==
    /\ phase = "idle"
    /\ visible = Empty
    /\ durable = Empty

\* A unit begins with what everybody sees.
Start ==
    /\ phase = "idle"
    /\ visible = durable
    /\ phase' = "active"
    /\ UNCHANGED <<visible, durable>>

\* Work is done inside a unit, never outside of one.
Work ==
    /\ phase = "active"
    /\ visible' \in Content
    /\ UNCHANGED <<phase, durable>>

\* The whole unit becomes durable, and that is the end of it or not.
Commit ==
    /\ phase = "active"
    /\ phase' \in {"spent", "idle"}
    /\ durable' = visible
    /\ UNCHANGED visible

\* The whole unit is undone.
Rollback ==
    /\ phase = "active"
    /\ phase' = "idle"
    /\ visible' = durable
    /\ UNCHANGED durable

\* Work after the commit is on its own.
WorkAlone ==
    /\ phase = "spent"
    /\ visible' \in Content
    /\ durable' = visible'
    /\ UNCHANGED phase

\* The end of a unit that was committed.
End ==
    /\ phase = "spent"
    /\ phase' = "idle"
    /\ UNCHANGED <<visible, durable>>

Next == Start \/ Work \/ Commit \/ Rollback \/ WorkAlone \/ End

Spec == Init /\ [][Next]_vars
=============================================================================
