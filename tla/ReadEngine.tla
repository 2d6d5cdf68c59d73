----------------------------- MODULE ReadEngine -----------------------------
(***************************************************************************)
(* context.read(): the client sets filters and reads into objects and      *)
(* containers, one SELECT of table_t::read_exec per step.  What waits on   *)
(* the C++ call stack is the sequence todo: the reads of the many fields   *)
(* come first to last, each with all of its own before the next.           *)
(*                                                                         *)
(* The rows do not change during a behaviour.  They are those of a world:  *)
(* the client's objects, as create() has stored them (CallSaves of         *)
(* PersistenceSafety says how rows and objects correspond).                *)
(***************************************************************************)
EXTENDS SelectRead, StatementCache

CONSTANTS
    Obj, ObjTable,      \* the stored objects, and the table of each one's class
    World,              \* sets of [key, member, data], as in Persistence
    Reads,              \* the calls with modifiers: [dest, mods], what is read into
                        \* as [kind, table, moves], [where, order, limit, offset]
    MaxCalls            \* the calls of a behaviour

ASSUME EngineAssumption ==
    /\ ObjTable \in [Obj -> Table]
    /\ \A r \in Reads :
          /\ r.dest.kind \in {"value", "optional", "pointer", "values", "pointers"}
          /\ r.dest.table \in Table /\ r.dest.moves \in BOOLEAN
          /\ r.mods.limit \in Int /\ r.mods.offset \in Int
    /\ MaxCalls \in Nat

VARIABLES
    world,              \* the objects that are stored
    db,                 \* the rows that hold them
    todo,               \* the reads that are under way, the next one first
    heap,               \* what the call has read so far (see SelectRead)
    request,            \* the call under way, or the last one
    result,             \* how it ended: "none" before, "done" or what it threw
    calls               \* the calls so far

engineVars == <<world, db, todo, heap, request, result, calls>>
readVars == <<engineVars, cacheVars>>

Idle == todo = <<>>

-----------------------------------------------------------------------------
(* The rows of the objects of a world.                                     *)

\* The object that has o in its field f.
Owner(w, o, f) == {p \in Obj : o \in Range(w.member[p][f])}

Position(w, o, f) ==
    LET p == CHOOSE p \in Owner(w, o, f) : TRUE
    IN CHOOSE i \in DOMAIN w.member[p][f] : w.member[p][f][i] = o

KeyColumn(w, o, t, f) ==
    IF IsMany(f)
    THEN IF RefOf[f] # t \/ Owner(w, o, f) = {} THEN Null
         ELSE w.key[CHOOSE p \in Owner(w, o, f) : TRUE][TableOf(f)]
    ELSE IF w.member[o][f] = <<>> \/ TableOf(f) # t THEN Null
         ELSE w.key[w.member[o][f][1]][RefOf[f]]

RowOf(w, o, t) ==
    [table |-> t,
     base  |-> IF BaseOf[t] = NoTable THEN Null ELSE w.key[o][BaseOf[t]],
     col   |-> [f \in Field |->
                  IF ~IsData(f) THEN KeyColumn(w, o, t, f)
                  ELSE IF TableOf(f) = t THEN Stored(f, w.data[o][f]) ELSE Null],
     idx   |-> [f \in Field |-> IF IsMany(f) /\ RefOf[f] = t /\ Owner(w, o, f) # {}
                                THEN Position(w, o, f) ELSE 0],
     type  |-> IF HasTypeColumn(t) THEN ObjTable[o] ELSE Null]

Store(w) ==
    [k \in Key |->
       LET of == {p \in Obj \X Table : w.key[p[1]][p[2]] = k}
       IN IF of = {} THEN NoRow
          ELSE LET p == CHOOSE p \in of : TRUE IN RowOf(w, p[1], p[2])]

-----------------------------------------------------------------------------
(* Modifiers.  A where clause is [table, field, value]: equal(field, value),*)
(* with NoField for the primary key of the table.                          *)

\* A limit or an offset of -1 is none, as in limit_builder.
NoModifiers == [where |-> {}, order |-> FALSE, limit |-> -1, offset |-> -1]

KeyClause(t, k) == [table |-> t, field |-> NoField, value |-> k]

\* build_where() of build_clause(equal): the column named with its table, and
\* the value under the functions of the field.  (statement::set is taken to
\* write the value as convert_from does.  Clauses of and, or and not call
\* build_clause with an argument too many and do not compile.)
ClauseHolds(env, clause) ==
    LET k == env[<<clause.table>>]
    IN /\ k # Null
       /\ IF clause.field = NoField THEN k = clause.value
          ELSE IF IsData(clause.field)
          THEN db[k].col[clause.field] = Stored(clause.field, clause.value)
          ELSE db[k].col[clause.field] = clause.value

\* build_order_by() writes "ORDER_BY", which no server takes.
Refused(select, task) ==
    \/ ~Accepted(select)
    \/ task.order
    \/ \E clause \in task.where :
          <<clause.table>> \notin {select.from}
                                  \cup {select.joins[j].alias : j \in DOMAIN select.joins}

\* The keys of the rows a SELECT returns, in any order but that of the index of
\* the many field, if it is read.
Matched(select, t, where) ==
    {k \in RowsOf(db, t) :
        LET env == Bindings(db, select, k)
        IN env # <<>> /\ \A clause \in where : ClauseHolds(env, clause)}

InOrder(keys, f) ==
    {rows \in SetToSeqs(keys) :
        f # NoField => \A i, j \in DOMAIN rows :
                          i < j => db[rows[i]].idx[f] <= db[rows[j]].idx[f]}

\* build_limit(); the limit of 1000000 that an offset gets without one is more
\* than there are rows.
Limited(rows, limit, offset) ==
    LET skipped == IF offset < 0 THEN 0 ELSE offset
    IN SubSeq(rows, skipped + 1,
              IF limit >= 0 /\ skipped + limit < Len(rows) THEN skipped + limit ELSE Len(rows))

-----------------------------------------------------------------------------
(* The call.                                                               *)

NoRequest == [dest |-> Context("none", NoTable, <<>>, FALSE), mods |-> NoModifiers]

NoHeap == [p \in {} |-> NoRow]

Task(ctx, mods, f) ==
    [ctx |-> ctx, where |-> mods.where, order |-> mods.order, limit |-> mods.limit,
     offset |-> mods.offset, field |-> f, moved |-> FALSE]

\* context_t::read() and read_impl().
BeginRead(dest, mods) ==
    LET ctx == Context(dest.kind, dest.table, <<>>, dest.moves)
    IN /\ Idle /\ calls < MaxCalls
       /\ calls' = calls + 1
       /\ todo' = <<Task(ctx, mods, NoField)>>
       /\ heap' = NoHeap
       /\ request' = [dest |-> ctx, mods |-> mods]
       /\ result' = "none"
       /\ UNCHANGED <<world, db, cacheVars>>

\* read(dataset) with an object of the class alone reads the row of its key.
ReadObject(o, t) ==
    /\ t \in Chain(ObjTable[o]) /\ world.key[o][t] # Null
    /\ BeginRead([kind |-> "value", table |-> t, moves |-> FALSE],
                 [NoModifiers EXCEPT !.where = {KeyClause(t, world.key[o][t])}])

\* read(dataset, modifiers...), and read(dataset) with a nullable or a container.
ReadInto(dest, mods) == BeginRead(dest, mods)

\* update() of an object uses the statement for its table and its owner's field.
UpdateUnderFilter(t, owner) ==
    /\ Idle /\ calls < MaxCalls
    /\ calls' = calls + 1
    /\ Execute(UpdateSlot(t, owner))
    /\ request' = NoRequest /\ heap' = NoHeap /\ result' = "none"
    /\ UNCHANGED <<world, db, todo>>

\* set_filter_inclusive(), set_filter_exclusive(), clear_filter().
ChangeFilter(s) ==
    /\ Idle /\ calls < MaxCalls
    /\ s # setting
    /\ SetFilter(s)
    /\ request' = NoRequest /\ heap' = NoHeap /\ result' = "none"
    /\ UNCHANGED <<world, db, todo, calls>>

\* A vector that grows by one beyond 1, 2, 4, ... elements moves the others.  A
\* context that refers to a member of one, not through a pointer, is left
\* behind.
Reallocates(m) == m - 1 \in {1, 2, 4, 8}

Moved(ctx, pending, n) ==
    /\ ctx.kind = "values" /\ ctx.moves
    /\ \E m \in pending.ctx.place[Len(ctx.place) + 1] + 1 .. n : Reallocates(m)
    /\ Range(SubSeq(pending.ctx.place, Len(ctx.place) + 2, Len(pending.ctx.place) - 1))
          \cap PointerField = {}

\* The read of a many field: the rows with the owner's key, by their index.
ManyTask(ctx, pending, n) ==
    [Task(pending.ctx, NoModifiers, pending.field) EXCEPT
       !.where = {[table |-> RefOf[pending.field], field |-> pending.field,
                   value |-> pending.owner]},
       !.moved = Moved(ctx, pending, n)]

\* The statement of a task, in get_statement_select().
SlotOf(task) == SelectSlot(task.ctx.table, task.ctx.dyn)

\* What read_exec() makes of the result of a SELECT, whose rows may come in any
\* order that is not asked for: the extractor's state in the end.
Start(task) ==
    [i |-> 0, skip |-> FALSE, err |-> "none", ctx |-> task.ctx, saved |-> <<>>,
     pending |-> <<>>, heap |-> heap]

ResultRow(select, k) ==
    LET env == Bindings(db, select, k)
    IN [i \in DOMAIN select.cols |-> Cell(db, env, select.cols[i])]

ReadRows(select, task, keys) ==
    LET read[n \in 0..Len(keys)] ==
          IF n = 0 THEN Start(task)
          ELSE ReadRow(read[n - 1], ResultRow(select, keys[n]), task.ctx.table,
                       Exclusions(setting))
    IN read[Len(keys)]

Results(select, task) ==
    {ReadRows(select, task, Limited(rows, task.limit, task.offset)) :
       rows \in InOrder(Matched(select, task.ctx.table, task.where), task.field)}

Finished(s) ==
    IF Failed(s) THEN s ELSE Fail(s, FinishError(s.ctx))

\* A context that was left behind is written to after its memory was freed;
\* whatever comes of it, the call is lost.
Outcomes(task) ==
    LET select == BuildSelect(task.ctx.table, Prepared(SlotOf(task)).without, task.ctx.dyn)
    IN IF task.moved THEN {Fail(Start(task), "undefined")}
       ELSE IF Refused(select, task) THEN {Fail(Start(task), "refused")}
       ELSE {Finished(s) : s \in Results(select, task)}

\* read_exec() of the next task up to the reads of the many fields: they come
\* before what waited already.
Select ==
    /\ ~Idle
    /\ \E read \in Outcomes(Head(todo)) :
          LET many == [i \in DOMAIN read.pending |->
                         ManyTask(read.ctx, read.pending[i], read.ctx.count)]
          IN /\ heap' = read.heap
             /\ todo' = IF Failed(read) THEN <<>> ELSE many \o Tail(todo)
             /\ result' = IF Failed(read) THEN read.err
                          ELSE IF todo' = <<>> THEN "done" ELSE "none"
    /\ Execute(SlotOf(Head(todo)))
    /\ UNCHANGED <<world, db, request, calls>>

Init ==
    /\ world \in World /\ db = Store(world)
    /\ todo = <<>> /\ heap = NoHeap /\ request = NoRequest /\ result = "none"
    /\ calls = 0
    /\ CacheInit

Next ==
    \/ \E o \in Obj, t \in Table : ReadObject(o, t)
    \/ \E r \in Reads : ReadInto(r.dest, r.mods)
    \/ \E t \in Table : \E owner \in ForeignKeyFields(t) \cup {NoField} : UpdateUnderFilter(t, owner)
    \/ \E s \in Setting : ChangeFilter(s)
    \/ Select

Spec == Init /\ [][Next]_readVars

-----------------------------------------------------------------------------
\* However the tables of a schema hang together and whatever the filter leaves
\* out, read_table() goes through the columns add_table() selects one by one:
\* no read, regular or not, ends with "result was not completely read!"
\* (table.cpp:75, 247, 196).
RowsAreRead == result # "not completely read"

\* What a SELECT has read, the later ones of the same call leave as it is: the
\* contexts of the many fields (table.cpp:1615) are never a place that is
\* written already, whether the call is regular or not.
ReadsOnlyAdd ==
    [][~Idle => \A p \in DOMAIN heap : p \in DOMAIN heap' /\ heap'[p] = heap[p]]_readVars
=============================================================================
