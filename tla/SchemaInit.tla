----------------------------- MODULE SchemaInit -----------------------------
(***************************************************************************)
(* init(recreate): the statements schema_t::init() sends to create the     *)
(* schema, its two functions, the tables and then their foreign keys.      *)
(* Every one of them commits by itself, so that an init() that stops on    *)
(* the way leaves what it did; and a table executes whatever its           *)
(* _statement_create_table holds, which is the place where create() leaves *)
(* its INSERT with the values of the last object.                          *)
(*                                                                         *)
(* An object has one name, which stands for its keys in all the tables of  *)
(* its class; a row is a table and a name.                                 *)
(***************************************************************************)
EXTENDS HibernateSchema

CONSTANTS
    Id,                 \* names of objects
    Null,               \* no object
    MayFail             \* statements may raise an error

ASSUME InitAssumption ==
    /\ IsFiniteSet(Id) /\ Null \notin Id
    /\ MayFail \in BOOLEAN

Function == {"UuidToBin", "BinToUuid"}

VARIABLES
    order,              \* the tables in the order of the std::map schema_t::tables
    schema,             \* the server has the schema
    function,           \* ... and these of its functions
    tables,             \* ... and these of its tables
    linked,             \* the tables that have their foreign keys
    rows,               \* the rows of the tables
    using,              \* the schema is the session's default database
    text,               \* per table what _statement_create_table executes
    values,             \* ... and the object its parameters are set to
    todo,               \* the statements init() has still to send
    recreate,           \* its argument
    result,             \* how the last init() ended
    stored              \* the class of each object that was created and not destroyed

catalog == <<schema, function, tables, linked>>
cache == <<text, values>>
run == <<todo, recreate, result>>
vars == <<order, catalog, rows, using, cache, run, stored>>

Quiet == todo = <<>>

-----------------------------------------------------------------------------
\* The tables the foreign keys of t refer to.
References(t) ==
    (   {BaseOf[t]} \cup {RefOf[f] : f \in Range(OneFields[t])}
     \cup {TableOf(f) : f \in ForeignKeyFields(t)}) \ {NoTable}

Statement == [op : {"drop", "schema", "use"} \cup Function, table : {NoTable}]
             \cup [op : {"create", "alter"}, table : Table]

S(op) == [op |-> op, table |-> NoTable]
Creates == [i \in DOMAIN order |-> [op |-> "create", table |-> order[i]]]
Alters == [i \in DOMAIN order |-> [op |-> "alter", table |-> order[i]]]

Preamble(drop) ==
    (IF drop THEN <<S("drop")>> ELSE <<>>)
    \o <<S("schema"), S("use"), S("UuidToBin"), S("BinToUuid")>>

\* Mutants: the constraints of a table right after the table, and tables only.
InitStatementsOneLoop(drop) ==
    Preamble(drop) \o
    FlattenSeq([i \in DOMAIN order |->
       <<[op |-> "create", table |-> order[i]],
         [op |-> "alter", table |-> order[i]]>>])
InitStatementsOneStage(drop) == Preamble(drop) \o Creates

\* schema_t::init(): both loops go over all tables.
InitStatements(drop) == Preamble(drop) \o Creates \o Alters

\* init_impl() and the beginning of schema_t::init().
BeginInit(drop) ==
    /\ Quiet
    /\ todo' = InitStatements(drop)
    /\ recreate' = drop
    /\ result' = "none"
    /\ UNCHANGED <<order, catalog, rows, using, cache, stored>>

-----------------------------------------------------------------------------
\* Whether the server accepts the INSERT of t for the object k.  A key that is
\* not set is refused; a foreign key needs its target.
Accepts(t, k) ==
    /\ using /\ t \in tables /\ "UuidToBin" \in function
    /\ k # Null /\ <<t, k>> \notin rows
    /\ t \in linked /\ BaseOf[t] # NoTable => <<BaseOf[t], k>> \in rows

\* What ADD CONSTRAINT asks of the rows that exist.
HasBaseRows(t) ==
    BaseOf[t] # NoTable =>
       \A k \in Id : <<t, k>> \in rows => <<BaseOf[t], k>> \in rows

\* Whether the server accepts a statement of init().
Accepted(s) ==
    CASE s.op = "use"    -> schema
      [] s.op \in Function -> using
      [] s.op = "create" -> IF text[s.table] = "insert"
                            THEN Accepts(s.table, values[s.table])
                            ELSE using
      [] s.op = "alter"  -> References(s.table) # {} =>
                               /\ using
                               /\ {s.table} \cup References(s.table) \subseteq tables
                               /\ HasBaseRows(s.table)
      [] OTHER           -> TRUE

\* Mutant: the rows survive.
DropLeavesRows ==
    /\ Head(todo).op = "drop"
    /\ schema' = FALSE /\ function' = {} /\ tables' = {} /\ linked' = {}
    /\ using' = FALSE
    /\ UNCHANGED <<rows, cache>>

DropSchema ==
    /\ Head(todo).op = "drop"
    /\ schema' = FALSE /\ function' = {} /\ tables' = {} /\ linked' = {}
    /\ rows' = {} /\ using' = FALSE
    /\ UNCHANGED cache

CreateSchema ==
    /\ Head(todo).op = "schema"
    /\ schema' = TRUE
    /\ UNCHANGED <<function, tables, linked, rows, using, cache>>

UseSchema ==
    /\ Head(todo).op = "use"
    /\ using' = TRUE
    /\ UNCHANGED <<catalog, rows, cache>>

CreateFunction ==
    /\ Head(todo).op \in Function
    /\ function' = function \cup {Head(todo).op}
    /\ UNCHANGED <<schema, tables, linked, rows, using, cache>>

\* init_stage1_exec(): get_statement_create_table() builds the statement only
\* if there is none.
CreateTable ==
    LET t == Head(todo).table
    IN /\ Head(todo).op = "create"
       /\ IF text[t] = "insert"
          THEN /\ rows' = rows \cup {<<t, values[t]>>}
               /\ UNCHANGED <<catalog, using, cache>>
          ELSE /\ tables' = tables \cup {t}
               /\ text' = [text EXCEPT ![t] = "create"]
               /\ UNCHANGED <<schema, function, linked, rows, using, values>>

\* init_stage2_exec(); FOREIGN KEY IF NOT EXISTS.  Without foreign keys the
\* ALTER TABLE is empty and is not sent.
AlterTable ==
    /\ Head(todo).op = "alter"
    /\ linked' = IF References(Head(todo).table) = {} THEN linked
                 ELSE linked \cup {Head(todo).table}
    /\ UNCHANGED <<schema, function, tables, rows, using, cache>>

\* The next statement of init() succeeds.
InitStatement ==
    /\ ~Quiet
    /\ Accepted(Head(todo))
    /\ \/ DropSchema \/ CreateSchema \/ UseSchema
       \/ CreateFunction \/ CreateTable \/ AlterTable
    /\ todo' = Tail(todo)
    /\ result' = IF Tail(todo) = <<>> THEN "ok" ELSE "none"
    /\ UNCHANGED <<order, recreate, stored>>

\* It throws: the server refuses it, or fails.  The statement was built.
IsSent(s) == s.op = "alter" => References(s.table) # {}

InitThrows ==
    /\ ~Quiet
    /\ ~Accepted(Head(todo)) \/ (MayFail /\ IsSent(Head(todo)))
    /\ LET s == Head(todo)
       IN /\ text' = IF s.op = "create" /\ text[s.table] = "none"
                     THEN [text EXCEPT ![s.table] = "create"] ELSE text
          /\ result' = IF Accepted(s) THEN "failed" ELSE "refused"
    /\ todo' = <<>>
    /\ UNCHANGED <<order, catalog, rows, using, values, recreate, stored>>

-----------------------------------------------------------------------------
\* get_statement_insert_into() for the tables of an object of class t.  Their
\* values are complete when they are executed, the base table first: an INSERT
\* that throws leaves those of the tables below it incomplete.
InsertText(t) == [u \in Table |-> IF u \in Chain(t) THEN "insert" ELSE text[u]]
InsertValues(t, k, upTo) ==
    [u \in Table |-> IF u \in Chain(upTo) THEN k
                     ELSE IF u \in Chain(t) THEN Null ELSE values[u]]

\* Nobody knows the name k: keys are those of SELECT Uuid().
IsFresh(k) ==
    stored[k] = NoTable /\ \A u \in Table : <<u, k>> \notin rows /\ values[u] # k

\* create() of a new object of class t without parts.
Create(t, k) ==
    /\ Quiet
    /\ IsFresh(k)
    /\ using /\ Chain(t) \subseteq tables /\ "UuidToBin" \in function
    /\ rows' = rows \cup (Chain(t) \X {k})
    /\ stored' = [stored EXCEPT ![k] = t]
    /\ text' = InsertText(t)
    /\ values' = InsertValues(t, k, t)
    /\ UNCHANGED <<order, catalog, using, run>>

\* The same when the INSERT of table u throws; the transaction is rolled back.
CreateThrows(t, k, u) ==
    /\ Quiet
    /\ IsFresh(k)
    /\ \A v \in Chain(u) \ {u} : v \in tables /\ using /\ "UuidToBin" \in function
    /\ MayFail \/ ~(u \in tables /\ using /\ "UuidToBin" \in function)
    /\ text' = InsertText(t)
    /\ values' = InsertValues(t, k, u)
    /\ UNCHANGED <<order, catalog, rows, using, run, stored>>

\* destroy(): the joined DELETE takes all rows of the object.
Destroy(k) ==
    /\ Quiet /\ using
    /\ stored[k] # NoTable /\ Chain(stored[k]) \subseteq tables
    /\ rows' = rows \ (Table \X {k})
    /\ stored' = [stored EXCEPT ![k] = NoTable]
    /\ UNCHANGED <<order, catalog, using, cache, run>>

\* The driver gets another connection to the same server.
NewConnection ==
    /\ Quiet
    /\ using' = FALSE
    /\ UNCHANGED <<order, catalog, rows, cache, run, stored>>

\* The process ends, wherever it is, and starts again.
Restart ==
    /\ todo' = <<>>
    /\ result' = "none"
    /\ using' = FALSE
    /\ text' = [t \in Table |-> "none"]
    /\ values' = [t \in Table |-> Null]
    /\ UNCHANGED <<order, catalog, rows, recreate, stored>>

-----------------------------------------------------------------------------
\* The order of the tables is that of the type ids: any order.
Orders == {s \in [1..Cardinality(Table) -> Table] : Range(s) = Table}

Init ==
    /\ order \in Orders
    /\ schema = FALSE /\ function = {} /\ tables = {} /\ linked = {}
    /\ rows = {}
    /\ using = FALSE
    /\ text = [t \in Table |-> "none"]
    /\ values = [t \in Table |-> Null]
    /\ todo = <<>> /\ recreate = FALSE /\ result = "none"
    /\ stored = [k \in Id |-> NoTable]

Next ==
    \/ \E drop \in BOOLEAN : BeginInit(drop)
    \/ InitStatement
    \/ InitThrows
    \/ \E t \in Table, k \in Id : Create(t, k)
    \/ \E t \in Table, k \in Id : \E u \in Chain(t) : CreateThrows(t, k, u)
    \/ \E k \in Id : Destroy(k)
    \/ NewConnection
    \/ Restart

Spec == Init /\ [][Next]_vars

-----------------------------------------------------------------------------
TypeOK ==
    /\ order \in Orders
    /\ schema \in BOOLEAN /\ function \subseteq Function
    /\ tables \subseteq Table /\ linked \subseteq tables
    /\ rows \subseteq tables \X Id
    /\ using \in BOOLEAN
    /\ text \in [Table -> {"none", "create", "insert"}]
    /\ values \in [Table -> Id \cup {Null}]
    /\ todo \in Seq(Statement)
    /\ recreate \in BOOLEAN
    /\ result \in {"none", "ok", "refused", "failed"}
    /\ stored \in [Id -> Table \cup {NoTable}]

\* An init() that returns leaves the schema complete, whatever an earlier one
\* left undone and whatever was created and destroyed before.
Complete ==
    /\ schema /\ function = Function
    /\ tables = Table
    /\ \A t \in Table : References(t) # {} => t \in linked

InitCompletes == result = "ok" => Complete

\* The database has rows of the objects that were created and not destroyed,
\* and of nobody else.
DestroyedStaysDestroyed ==
    \A r \in rows : stored[r[2]] # NoTable /\ r[1] \in Chain(stored[r[2]])

\* init() can be repeated: after any failure, on any remains of an earlier
\* init() and in any order of the tables the server accepts every statement,
\* unless create() has replaced one of them, or has done so in an earlier
\* process and left the row of a destroyed object without its base row.
InitIsRepeatable ==
    [][result = "none" /\ result' = "refused" =>
         (\E t \in Table : text[t] = "insert") \/ ~DestroyedStaysDestroyed]_vars

\* An INSERT in the place of a CREATE TABLE never survives a recreated schema:
\* init(true) that returns leaves no row of an object created before it.
RecreateEmpties ==
    [][recreate /\ result = "none" /\ result' = "ok" => rows' = {}]_vars
=============================================================================
