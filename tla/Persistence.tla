---------------------------- MODULE Persistence ----------------------------
(***************************************************************************)
(* The create/update/destroy engine of the driver: what context.create(),  *)
(* update() and destroy() do to the database and to the objects' keys, one *)
(* SQL statement at a time.  The C++ call stack is the variable stack; its *)
(* head is the function that runs now.                                     *)
(*                                                                         *)
(*   "apply"    create_update_impl_t::apply for an object                  *)
(*   "each"     create_update_impl_t::apply for a container                *)
(*   "exec"     table_t::execute_create_update                             *)
(*   "cleanup"  table_t::destroy_cleanup                                   *)
(*   "destroy"  destroy_impl_t::apply with table_t::destroy_exec           *)
(*                                                                         *)
(* The program has one thread and one connection; between the calls the    *)
(* client edits its objects.                                               *)
(***************************************************************************)
EXTENDS Database, Filter

CONSTANTS
    Obj,                \* the client's objects
    ObjTable,           \* [Obj -> Table]: the table of the dynamic type
    Root,               \* the objects the client passes to the driver
    Groups,             \* the containers of them it passes, as sequences
    KeyPool,            \* [Obj \X Table -> SUBSET Key]: the keys an object may get
    Renewable,          \* the objects that may be replaced by new ones
    Filters,            \* the filters the client may set
    FoundRows,          \* affected rows are matched rows (CLIENT_FOUND_ROWS)
    MayFail,            \* statements may raise an error
    UserLock,           \* the client may hold a lock() around its calls
    InitialMember       \* [Obj -> [Field -> Seq(Obj)]]: what the fields hold at first

ASSUME PersistenceAssumption ==
    /\ ObjTable \in [Obj -> Table]
    /\ Root \subseteq Obj /\ Renewable \subseteq Obj
    /\ Groups \subseteq Seq(Root)
    /\ \A objs \in Groups : IsInjective(objs)
    /\ InitialMember \in [Obj -> [Field -> Seq(Obj)]]
    /\ KeyPool \in [Obj \X Table -> SUBSET Key]
    /\ \A p, q \in Obj \X Table : p # q => KeyPool[p] \cap KeyPool[q] = {}
    /\ Filters \subseteq SUBSET (Table \cup Field)
    /\ {FoundRows, MayFail, UserLock} \subseteq BOOLEAN

VARIABLES
    db,                 \* the rows as the driver's session sees them
    durable,            \* the committed rows
    counter,            \* the live transaction locks
    held,               \* the client holds one of them
    spent,              \* and has committed it: the transaction is over
    stack,              \* the functions that run, the innermost first
    ret,                \* the key the last inner function returned, or Null
    key,                \* the key members: one per class of an object
    member,             \* the objects a foreign field of an object holds
    data,               \* the values of the data fields of an object
    filter,             \* the driver's filter
    call,               \* the call in progress, or the last one
    roots               \* the keys of the objects created by a call

mem == <<key, member, data, filter>>
vars == <<db, durable, counter, held, spent, stack, ret, key, member, data, filter,
          call, roots>>

Top == Head(stack)
Rest == Tail(stack)
Idle == stack = <<>>

-----------------------------------------------------------------------------
\* create_update_context.  derived is derived_table, owner the owner_field.
NoOwner(upd) == [upd |-> upd, owner |-> NoField, ownerKey |-> Null,
                 index |-> 0, derived |-> NoTable]

ApplyFrame(o, t, ctx, strict) ==
    [kind |-> "apply", pc |-> "begin", obj |-> o, table |-> t, ctx |-> ctx,
     strict |-> strict]

EachFrame(objs, t, ctx, strict) ==
    [kind |-> "each", pc |-> "begin", objs |-> objs, table |-> t, ctx |-> ctx,
     strict |-> strict, n |-> 0]

\* pk is primary_key; cols are the foreign keys set on the statement so far;
\* i counts the fields of the loop that runs.
ExecFrame(o, t, ctx) ==
    [kind |-> "exec", pc |-> "key", obj |-> o, table |-> t, ctx |-> ctx,
     i |-> 1, pk |-> Null, cols |-> [f \in Field |-> Null]]

CleanupFrame(t, down, up) ==
    [kind |-> "cleanup", pc |-> "delete", table |-> t, down |-> down, up |-> up]

DestroyFrame(o, t) ==
    [kind |-> "destroy", pc |-> "begin", obj |-> o, table |-> t]

\* The call in progress, or the last one until the client edits an object:
\* the rows, the keys and the stored objects it began with, and how it ended.
NoRows == [k \in Key |-> NoRow]
NoKeys == [o \in Obj |-> [t \in Table |-> Null]]
NoCall == [op |-> "none", objs |-> <<>>, table |-> NoTable, before |-> NoRows,
           keys |-> NoKeys, stored |-> {}, result |-> "none"]

At(kind, pc) == ~Idle /\ Top.kind = kind /\ Top.pc = pc

Goto(frame) == stack' = <<frame>> \o Rest
Push(inner, frame) == stack' = <<inner, frame>> \o Rest
Return(k) == stack' = Rest /\ ret' = IF Rest = <<>> THEN Null ELSE k

\* A statement that leaves the given rows behind.  The session is in the
\* transaction the outermost lock began; when the client has committed that
\* lock and still holds it, the session is in none and the statement is durable
\* at once.
Executes(rows) == db' = rows /\ durable' = IF spent THEN rows ELSE durable

\* The constructor of transaction_lock; what START TRANSACTION sees is db.
Enter == counter' = counter + 1

\* Mutants: a lock that is closed twice, and one that commits when inner locks
\* are still alive or the client holds one.
CommitAndLeaveTwice ==
    /\ counter' = counter - 2
    /\ durable' = IF counter = 1 THEN db ELSE durable

CommitAlways == counter' = counter - 1 /\ durable' = db

\* commit() and the destructor of transaction_lock at the end of a function.
\* The function that finds the counter at 1 is the call itself.
CommitAndLeave ==
    /\ counter' = counter - 1
    /\ durable' = IF counter = 1 THEN db ELSE durable

\* Mutants: the locks of the functions are lost, and nothing is rolled back.
AbortLosesLocks(result) ==
    /\ stack' = <<>>
    /\ ret' = Null
    /\ db' = IF held THEN db ELSE durable
    /\ call' = [call EXCEPT !.result = result]
    /\ UNCHANGED <<counter, durable, held, spent, mem, roots>>

AbortWithoutRollback(result) ==
    /\ stack' = <<>>
    /\ ret' = Null
    /\ counter' = IF held THEN 1 ELSE 0
    /\ call' = [call EXCEPT !.result = result]
    /\ UNCHANGED <<db, durable, held, spent, mem, roots>>

\* An exception unwinds every function of the call.  Their locks are closed
\* without commit(); only the client's own lock keeps the pointer set, and with
\* it a transaction that is not committed.
Abort(result) ==
    /\ stack' = <<>>
    /\ ret' = Null
    /\ counter' = IF held THEN 1 ELSE 0
    /\ db' = IF held THEN db ELSE durable
    /\ call' = [call EXCEPT !.result = result]
    /\ UNCHANGED <<durable, held, spent, mem, roots>>

\* The code or the server rejects what the call asks for.
Throw == Abort("error")

\* The outermost function returns.
Finish ==
    IF Rest # <<>>
    THEN UNCHANGED <<call, roots>>
    ELSE /\ call' = [call EXCEPT !.result = "ok"]
         /\ roots' = IF call.op = "create"
                     THEN roots \cup {key[o][ObjTable[o]] : o \in Range(call.objs)}
                     ELSE roots \cap Rows(db)

-----------------------------------------------------------------------------
\* create_update_impl_t::apply
HasDefaultKey(o, t) == key[o][t] = Null

\* The lock, the test of the key of the static type, and table_polymorphic_t::
\* create_update_intern, which goes on with the table of the dynamic type.
\* An inner call that is not strict turns a create into an update of an object
\* that has a key, and an update into a create of one that has none.
ApplyBegin ==
    /\ At("apply", "begin")
    /\ LET fits == HasDefaultKey(Top.obj, Top.table) # Top.ctx.upd
           ctx  == IF fits THEN Top.ctx ELSE [Top.ctx EXCEPT !.upd = ~@]
       IN IF ~fits /\ Top.strict
          THEN Throw
          ELSE /\ Push(ExecFrame(Top.obj, ObjTable[Top.obj], ctx),
                       [Top EXCEPT !.pc = "end"])
               /\ Enter
               /\ UNCHANGED <<db, durable, held, spent, ret, mem, call, roots>>

\* The key of the static type's member is what the caller gets.
ApplyEnd ==
    /\ At("apply", "end")
    /\ Return(key[Top.obj][Top.table])
    /\ CommitAndLeave
    /\ Finish
    /\ UNCHANGED <<db, held, spent, mem>>

\* create_update_impl_t::apply for a container: the elements in their order.
EachBegin ==
    /\ At("each", "begin")
    /\ Goto([Top EXCEPT !.pc = "next"])
    /\ Enter
    /\ UNCHANGED <<db, durable, held, spent, ret, mem, call, roots>>

EachNext ==
    /\ At("each", "next")
    /\ IF Top.n < Len(Top.objs)
       THEN /\ Push(ApplyFrame(Top.objs[Top.n + 1], Top.table,
                               [Top.ctx EXCEPT !.index = Top.n], Top.strict),
                    [Top EXCEPT !.n = @ + 1])
            /\ UNCHANGED <<durable, counter, ret, call, roots>>
       ELSE Return(Null) /\ CommitAndLeave /\ Finish
    /\ UNCHANGED <<db, held, spent, mem>>

-----------------------------------------------------------------------------
\* table_t::execute_create_update.  The mutant lets an INSERT obey the filter.
SkipsAlways(x) == IsExcluded(filter, x)
Skips(x) == Top.ctx.upd /\ IsExcluded(filter, x)

\* The position of the next field of a loop that is not skipped, or 0.
NextField(fields, Skipped(_)) ==
    LET left == {i \in Top.i..Len(fields) : ~Skipped(fields[i])}
    IN IF left = {} THEN 0 ELSE CHOOSE i \in left : \A j \in left : i <= j

\* Keys SELECT Uuid() cannot return: those somebody still knows.
KnownKeys ==
    Rows(db) \cup Rows(durable) \cup Rows(call.before) \cup roots
    \cup {key[o][t] : o \in Obj, t \in Table}
    \cup {stack[n].pk : n \in {n \in DOMAIN stack : stack[n].kind = "exec"}}

\* A key is an opaque name: which one an INSERT gets is of no consequence, so
\* each class of each object has a pool of its own.
FreshKeys(o, t) == KeyPool[o, t] \ KnownKeys

\* generate_value() for an INSERT, get_primary_key() for an UPDATE.  The
\* latter asks get_key_from_base() for a key the object does not know; its
\* SELECT compares a BINARY(16) column with the text of a key, finds no row,
\* and the empty result throws.
ExecKey ==
    /\ At("exec", "key")
    /\ IF Top.ctx.upd /\ HasDefaultKey(Top.obj, Top.table)
       THEN Throw
       ELSE /\ LET keys == IF Top.ctx.upd THEN {key[Top.obj][Top.table]}
                           ELSE FreshKeys(Top.obj, Top.table)
               IN \E k \in keys : /\ k = CHOOSE x \in keys : TRUE
                                  /\ Goto([Top EXCEPT !.pc = "base", !.pk = k])
            /\ UNCHANGED <<db, durable, counter, held, spent, ret, mem, call, roots>>

\* Mutant: only an INSERT goes to the base table.
BaseOfInsert == BaseOf[Top.table] # NoTable /\ ~Top.ctx.upd

\* The table has a base table the filter does not exclude.
GoesToBase == BaseOf[Top.table] # NoTable /\ ~Skips(BaseOf[Top.table])

\* create_update_base(): the same function for the base table.  The outermost
\* table of the hierarchy is noted as derived_table unless one is noted.
ExecBase ==
    /\ At("exec", "base")
    /\ LET next == [Top EXCEPT !.pc = "one"]
           ctx  == [Top.ctx EXCEPT !.derived = IF @ = NoTable THEN Top.table ELSE @]
       IN IF GoesToBase
          THEN Push(ExecFrame(Top.obj, BaseOf[Top.table], ctx), next)
          ELSE Goto(next)
    /\ UNCHANGED <<db, durable, counter, held, spent, ret, mem, call, roots>>

\* The loop over the one fields: create or update the object a field holds,
\* which takes the whole context with it.  An excluded table is left here.
ExecOne ==
    /\ At("exec", "one")
    /\ LET fields == OneFields[Top.table]
           i      == NextField(fields, Skips)
       IN IF Skips(Top.table)
          THEN Return(Top.pk)
          ELSE IF i = 0
          THEN Goto([Top EXCEPT !.pc = "write"]) /\ UNCHANGED ret
          ELSE LET f     == fields[i]
                   after == [Top EXCEPT !.pc = "after", !.i = i]
               IN /\ ret' = Null
                  /\ IF member[Top.obj][f] = <<>>
                     THEN Goto(after)
                     ELSE Push(ApplyFrame(member[Top.obj][f][1], RefOf[f],
                                          Top.ctx, FALSE), after)
    /\ UNCHANGED <<db, durable, counter, held, spent, mem, call, roots>>

\* Mutant: the "!=" of the WHERE is missing.
OldPartOrNew(f) ==
    IF Top.pk \notin RowsOf(db, Top.table) THEN {} ELSE {db[Top.pk].col[f]} \ {Null}

\* The WHERE of get_statement_foreign_one_delete: the row the field's column
\* still refers to, if it is not the new one.
OldPart(f) ==
    IF Top.pk \notin RowsOf(db, Top.table) THEN {} ELSE {db[Top.pk].col[f]} \ {Null, ret}

\* The key of a one field is known now; an update deletes the object the row
\* still refers to, if it is another one.
ExecAfter ==
    /\ At("exec", "after")
    /\ LET f == OneFields[Top.table][Top.i]
       IN IF \/ ret = Null /\ f \notin NullableField
             \/ Top.ctx.upd /\ AmbiguousKey(RefOf[f])
          THEN Throw
          ELSE /\ Executes(IF Top.ctx.upd THEN DeleteRows(db, OldPart(f)) ELSE db)
               /\ Goto([Top EXCEPT !.pc = "one", !.i = @ + 1, !.cols[f] = ret])
               /\ UNCHANGED <<counter, held, spent, ret, mem, call, roots>>

-----------------------------------------------------------------------------
\* build_create_update_query: the columns the statement sets.  The mutant sets
\* those the filter excludes too.
AllDataColumns == Range(DataFields[Top.table])
DataColumns == {f \in Range(DataFields[Top.table]) : ~Skips(f)}
NoOneColumns == {}      \* mutant: the keys of the parts are not written
OneColumns == {f \in Range(OneFields[Top.table]) : ~Skips(f)}
OwnerColumns == {f \in ForeignKeyFields(Top.table) : f = Top.ctx.owner}
SetsBase == BaseOf[Top.table] # NoTable /\ ~Skips(BaseOf[Top.table])

\* The row the statement leaves behind, given the row before it.
WrittenRow(row) ==
    [row EXCEPT
       !.base = IF SetsBase THEN key[Top.obj][BaseOf[Top.table]] ELSE @,
       !.col  = [f \in Field |-> CASE f \in DataColumns  -> data[Top.obj][f]
                                   [] f \in OneColumns   -> Top.cols[f]
                                   [] f \in OwnerColumns -> Top.ctx.ownerKey
                                   [] OTHER              -> @[f]],
       !.idx  = [f \in Field |-> IF f \in OwnerColumns THEN Top.ctx.index ELSE @[f]],
       !.type = IF ~Top.ctx.upd /\ HasTypeColumn(Top.table)
                THEN IF Top.ctx.derived = NoTable THEN Top.table ELSE Top.ctx.derived
                ELSE @]

\* Whether the statement is refused or does not affect exactly one row.
UpdateFails ==
    \/ ~SetsBase /\ DataColumns \cup OneColumns \cup OwnerColumns = {}
    \/ Top.pk \notin RowsOf(db, Top.table)
    \/ ~SatisfiesKeys(db, WrittenRow(db[Top.pk]))
    \/ ~FoundRows /\ WrittenRow(db[Top.pk]) = db[Top.pk]

InsertFails == ~SatisfiesKeys(db, WrittenRow(EmptyRow(Top.table)))

\* Execute the INSERT or the UPDATE, then set the key member of the object.
ExecWrite ==
    /\ At("exec", "write")
    /\ IF IF Top.ctx.upd THEN UpdateFails ELSE InsertFails
       THEN Throw
       ELSE /\ Executes([db EXCEPT ![Top.pk] =
                            WrittenRow(IF Top.ctx.upd THEN @ ELSE EmptyRow(Top.table))])
            /\ key' = [key EXCEPT ![Top.obj][Top.table] = Top.pk]
            /\ Goto([Top EXCEPT !.pc = "many", !.i = 1])
            /\ UNCHANGED <<counter, held, spent, ret, member, data, filter, call, roots>>

-----------------------------------------------------------------------------
\* Mutants: only the referenced table is asked for, and nothing is unlinked.
SkipsOnlyTable(f) == Skips(RefOf[f])
NothingUnlinked(f, k) == db

\* The loop over the many fields.  An update first sets the foreign keys of
\* the elements the database has to NULL.
SkipsMany(f) == Skips(f) \/ Skips(RefOf[f])

Unlinked(f, k) ==
    [r \in Key |->
       IF r \in RowsOf(db, RefOf[f]) /\ db[r].col[f] = k
       THEN [db[r] EXCEPT !.col[f] = Null, !.idx[f] = 0]
       ELSE db[r]]

ExecMany ==
    /\ At("exec", "many")
    /\ LET fields == ManyFields[Top.table]
           i      == NextField(fields, SkipsMany)
       IN IF i = 0
          THEN Return(Top.pk) /\ UNCHANGED <<db, durable>>
          ELSE /\ Push(EachFrame(member[Top.obj][fields[i]], RefOf[fields[i]],
                                 [Top.ctx EXCEPT !.owner = fields[i],
                                                 !.ownerKey = Top.pk,
                                                 !.derived = NoTable], FALSE),
                       [Top EXCEPT !.pc = "cleanup", !.i = i])
               /\ Executes(IF Top.ctx.upd THEN Unlinked(fields[i], Top.pk) ELSE db)
               /\ UNCHANGED ret
    /\ UNCHANGED <<counter, held, spent, mem, call, roots>>

\* Mutant: the loop does not go on after the cleanup.
ExecCleanupAgain ==
    /\ At("exec", "cleanup")
    /\ LET next == [Top EXCEPT !.pc = "many"]
           ref  == RefOf[ManyFields[Top.table][Top.i]]
       IN IF Top.ctx.upd
          THEN Push(CleanupFrame(ref, TRUE, TRUE), next)
          ELSE Goto(next)
    /\ UNCHANGED <<db, durable, counter, held, spent, ret, mem, call, roots>>

\* The elements are written; an update deletes those nobody refers to now.
ExecCleanup ==
    /\ At("exec", "cleanup")
    /\ LET next == [Top EXCEPT !.pc = "many", !.i = @ + 1]
           ref  == RefOf[ManyFields[Top.table][Top.i]]
       IN IF Top.ctx.upd
          THEN Push(CleanupFrame(ref, TRUE, TRUE), next)
          ELSE Goto(next)
    /\ UNCHANGED <<db, durable, counter, held, spent, ret, mem, call, roots>>

\* Mutants: the tables of the elements are left out, and one missing owner makes
\* an orphan.
NoCleanupsOfMany(t) == <<>>
OrphansOfAny(t) ==
    {r \in RowsOf(db, t) : \E f \in ForeignKeyFields(t) : db[r].col[f] = Null}

\* destroy_cleanup(): the rows no owner refers to, then the tables of the many
\* fields, the base table and the derived tables, each after the one before.
CleanupsOfMany(t) ==
    [i \in DOMAIN ManyFields[t] |-> CleanupFrame(RefOf[ManyFields[t][i]], TRUE, TRUE)]

CleanupsOfBase(t) ==
    IF BaseOf[t] = NoTable THEN <<>> ELSE <<CleanupFrame(BaseOf[t], FALSE, TRUE)>>

CleanupsOfDerived(t) ==
    LET derived == SetToSeq(DerivedTables(t))
    IN [i \in DOMAIN derived |-> CleanupFrame(derived[i], TRUE, FALSE)]

\* The WHERE of get_statement_foreign_many_delete.
Orphans(t) ==
    {r \in RowsOf(db, t) : \A f \in ForeignKeyFields(t) : db[r].col[f] = Null}

Cleanup ==
    /\ At("cleanup", "delete")
    /\ Executes(IF ForeignKeyFields(Top.table) = {} THEN db
                ELSE DeleteRows(db, Orphans(Top.table)))
    /\ stack' = CleanupsOfMany(Top.table)
                \o (IF Top.up THEN CleanupsOfBase(Top.table) ELSE <<>>)
                \o (IF Top.down THEN CleanupsOfDerived(Top.table) ELSE <<>>)
                \o Rest
    /\ UNCHANGED <<counter, held, spent, ret, mem, call, roots>>

-----------------------------------------------------------------------------
\* destroy_impl_t::apply
DestroyBegin ==
    /\ At("destroy", "begin")
    /\ IF HasDefaultKey(Top.obj, Top.table)
       THEN Throw
       ELSE /\ Goto([Top EXCEPT !.pc = "delete"])
            /\ Enter
            /\ UNCHANGED <<db, durable, held, spent, ret, mem, call, roots>>

\* Mutant: the WHERE is lost.
EveryRow(o, t) == RowsOf(db, ObjTable[o])

\* get_where_primary_key(): the rows of the dynamic type's table whose key in
\* the table of the static type is that of the object.
Destroyed(o, t) ==
    {r \in RowsOf(db, ObjTable[o]) : key[o][t] \in Ancestry(db, r)}

\* destroy_exec() of the dynamic type's table; only the many fields of that
\* table are cleaned.
DestroyDelete ==
    /\ At("destroy", "delete")
    /\ Executes(DeleteRows(db, Destroyed(Top.obj, Top.table)))
    /\ stack' = CleanupsOfMany(ObjTable[Top.obj]) \o <<[Top EXCEPT !.pc = "end"]>> \o Rest
    /\ UNCHANGED <<counter, held, spent, ret, mem, call, roots>>

DestroyEnd ==
    /\ At("destroy", "end")
    /\ Return(Null)
    /\ CommitAndLeave
    /\ Finish
    /\ UNCHANGED <<db, held, spent, mem>>

\* The server refuses a statement of the call, which undoes that statement and
\* nothing else.  (A START TRANSACTION that fails is in TransactionLock.)
StatementFails ==
    /\ MayFail
    /\ ~Idle
    /\ counter > 0
    /\ Abort("failed")

Step ==
    \/ ApplyBegin \/ ApplyEnd \/ EachBegin \/ EachNext
    \/ ExecKey \/ ExecBase \/ ExecOne \/ ExecAfter \/ ExecWrite
    \/ ExecMany \/ ExecCleanup \/ Cleanup
    \/ DestroyBegin \/ DestroyDelete \/ DestroyEnd

-----------------------------------------------------------------------------
\* The fields of an object: those of its class and of its base classes.
FieldsOfObject(o) == UNION {Range(FieldsOf[t]) : t \in Chain(ObjTable[o])}
ForeignFieldsOf(o) == {f \in FieldsOfObject(o) : ~IsData(f)}
Elements(o) == UNION {Range(member[o][f]) : f \in ForeignFieldsOf(o)}

\* The objects a call for o visits when no filter is set.
Graph(o) == Closure({o}, Obj, [x \in Obj |-> Elements(x)])

Held == UNION {Elements(o) : o \in Obj}

\* Enough keys for a call that inserts its whole graph: the bound of the model.
KeysLeft(o) ==
    \A x \in Graph(o) :
       (\E t \in Chain(ObjTable[x]) : HasDefaultKey(x, t)) =>
          \A t \in Chain(ObjTable[x]) : FreshKeys(x, t) # {}

\* The client's objects own their parts (values, unique_ptr, containers of
\* values), so that an object has one place at most.
PutIn(o, f, x, n) ==
    /\ x \notin Root \cup Held
    /\ o \notin Graph(x)
    /\ RefOf[f] \in Chain(ObjTable[x])
    /\ IsOne(f) => member[o][f] = <<>>
    /\ member' = [member EXCEPT ![o][f] = InsertAt(@, n, x)]
    /\ UNCHANGED <<key, data, filter>>

TakeOut(o, f, n) ==
    /\ IsOne(f) => f \in NullableField
    /\ member' = [member EXCEPT ![o][f] = RemoveAt(@, n)]
    /\ UNCHANGED <<key, data, filter>>

\* A new object takes the place of x: its keys are default.
Renew(x) ==
    /\ x \in Renewable
    /\ key' = [key EXCEPT ![x] = [t \in Table |-> Null]]
    /\ UNCHANGED <<member, data, filter>>

\* A new object is given the key of its base class by hand, that of another
\* object (the way to address a stored object whose class is known).
AdoptBaseKey(x, y) ==
    /\ ObjTable[x] = ObjTable[y] /\ BaseOf[ObjTable[x]] # NoTable
    /\ key[x] = [t \in Table |-> Null]
    /\ key' = [key EXCEPT ![x][BaseOf[ObjTable[x]]] = key[y][BaseOf[ObjTable[x]]]]
    /\ UNCHANGED <<member, data, filter>>

SetData(o, f, v) ==
    /\ IsData(f)
    /\ data' = [data EXCEPT ![o][f] = v]
    /\ UNCHANGED <<key, member, filter>>

SetFilter(x) == filter' = x /\ UNCHANGED <<key, member, data>>

Edit ==
    /\ \/ \E o \in Obj, x \in Obj : \E f \in ForeignFieldsOf(o) :
             \E n \in 1..Len(member[o][f]) + 1 : PutIn(o, f, x, n)
       \/ \E o \in Obj : \E f \in ForeignFieldsOf(o) :
             \E n \in 1..Len(member[o][f]) : TakeOut(o, f, n)
       \/ \E x \in Obj : Renew(x)
       \/ \E x \in Root, y \in Root : AdoptBaseKey(x, y)
       \/ \E o \in Obj, v \in Val : \E f \in FieldsOfObject(o) : SetData(o, f, v)
       \/ \E x \in Filters : SetFilter(x)
    /\ Idle
    /\ call' = NoCall
    /\ UNCHANGED <<db, durable, counter, held, spent, stack, ret, roots>>

\* create(), update() and destroy() of an object through a reference to its
\* class or to one of its base classes, and create() and update() of a container
\* of such references.  (destroy() of a container or a nullable throws before its
\* lock: get_where_primary_key() finds no table for a class that is none.)
Begin(op, objs, t, frame) ==
    /\ stack' = <<frame>>
    /\ call' = [op |-> op, objs |-> objs, table |-> t, before |-> db,
                keys |-> key, stored |-> roots, result |-> "none"]
    /\ UNCHANGED <<db, durable, counter, held, spent, ret, mem, roots>>

CreateOrUpdate(upd, objs, t, frame) ==
    /\ \A o \in Range(objs) : t \in Chain(ObjTable[o]) /\ KeysLeft(o)
    /\ Begin(IF upd THEN "update" ELSE "create", objs, t, frame)

CallObject(upd, o, t) ==
    CreateOrUpdate(upd, <<o>>, t, ApplyFrame(o, t, NoOwner(upd), TRUE))
CallGroup(upd, objs, t) ==
    CreateOrUpdate(upd, objs, t, EachFrame(objs, t, NoOwner(upd), TRUE))
CallDestroy(o, t) ==
    t \in Chain(ObjTable[o]) /\ Begin("destroy", <<o>>, t, DestroyFrame(o, t))

Calls ==
    /\ Idle
    /\ \E t \in Table :
          \/ \E o \in Root : \/ \E upd \in BOOLEAN : CallObject(upd, o, t)
                            \/ CallDestroy(o, t)
          \/ \E objs \in Groups, upd \in BOOLEAN : CallGroup(upd, objs, t)

\* The client's own lock: lock(), its commit() and its destructor.  Calls may
\* come between any two of them.
TakeLock ==
    /\ UserLock /\ Idle /\ ~held
    /\ held' = TRUE
    /\ call' = NoCall
    /\ Enter
    /\ UNCHANGED <<db, durable, spent, stack, ret, mem, roots>>

\* commit() ends the transaction and leaves the counter at 1: the locks of the
\* calls that follow start no other.
CommitLock ==
    /\ Idle /\ held /\ counter = 1
    /\ durable' = db
    /\ spent' = TRUE
    /\ call' = NoCall
    /\ UNCHANGED <<db, counter, held, stack, ret, mem, roots>>

\* Mutant: the destructor does not roll back.
ReleaseKeepsWork ==
    /\ Idle /\ held
    /\ held' = FALSE
    /\ spent' = FALSE
    /\ counter' = counter - 1
    /\ call' = NoCall
    /\ UNCHANGED <<db, durable, stack, ret, mem, roots>>

\* The destructor rolls back, which undoes nothing after a commit().
ReleaseLock ==
    /\ Idle /\ held
    /\ held' = FALSE
    /\ spent' = FALSE
    /\ counter' = counter - 1
    /\ db' = durable
    /\ roots' = roots \cap Rows(durable)
    /\ call' = NoCall
    /\ UNCHANGED <<durable, stack, ret, mem>>

-----------------------------------------------------------------------------
\* Objects without keys.  A one field that is not nullable holds its object
\* from the beginning: InitialMember says which.
Init ==
    /\ db = NoRows
    /\ durable = NoRows
    /\ counter = 0
    /\ held = FALSE
    /\ spent = FALSE
    /\ stack = <<>>
    /\ ret = Null
    /\ key = NoKeys
    /\ member = InitialMember
    /\ data \in {[o \in Obj |-> [f \in Field |-> v]] : v \in Val}
    /\ filter = NoFilter
    /\ call = NoCall
    /\ roots = {}

Next ==
    \/ Step
    \/ StatementFails
    \/ Edit
    \/ Calls
    \/ TakeLock
    \/ CommitLock
    \/ ReleaseLock

Spec == Init /\ [][Next]_vars

\* A function that was called goes on: nothing it waits for can refuse it.
FairSpec == Spec /\ WF_vars(Step)
=============================================================================
