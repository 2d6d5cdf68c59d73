------------------------- MODULE PersistenceSafety -------------------------
(***************************************************************************)
(* What create(), update() and destroy() promise about the database.       *)
(***************************************************************************)
EXTENDS Persistence

Context == [upd : BOOLEAN, owner : Field \cup {NoField}, ownerKey : Key \cup {Null},
            index : Nat, derived : Table \cup {NoTable}]

ApplyFrames ==
    [kind : {"apply"}, pc : {"begin", "end"}, obj : Obj, table : Table,
     ctx : Context, strict : BOOLEAN]
EachFrames ==
    [kind : {"each"}, pc : {"begin", "next"}, objs : Seq(Obj), table : Table,
     ctx : Context, strict : BOOLEAN, n : Nat]
ExecFrames ==
    [kind : {"exec"},
     pc : {"key", "base", "one", "after", "write", "many", "cleanup"},
     obj : Obj, table : Table, ctx : Context, i : Nat,
     pk : Key \cup {Null}, cols : [Field -> Key \cup {Null}]]
CleanupFrames ==
    [kind : {"cleanup"}, pc : {"delete"}, table : Table, down : BOOLEAN, up : BOOLEAN]
DestroyFrames ==
    [kind : {"destroy"}, pc : {"begin", "delete", "end"}, obj : Obj, table : Table]

Frame == ApplyFrames \cup EachFrames \cup ExecFrames \cup CleanupFrames \cup DestroyFrames

TypeOK ==
    /\ {db, durable} \subseteq [Key -> Row \cup {NoRow}]
    /\ counter \in Nat
    /\ held \in BOOLEAN
    /\ spent \in BOOLEAN
    /\ stack \in Seq(Frame)
    /\ ret \in Key \cup {Null}
    /\ key \in [Obj -> [Table -> Key \cup {Null}]]
    /\ member \in [Obj -> [Field -> Seq(Obj)]]
    /\ data \in [Obj -> [Field -> Val]]
    /\ filter \in SUBSET (Table \cup Field)
    /\ call \in [op : {"none", "create", "update", "destroy"},
                 objs : Seq(Obj), table : Table \cup {NoTable},
                 before : [Key -> Row \cup {NoRow}],
                 keys : [Obj -> [Table -> Key \cup {Null}]],
                 stored : SUBSET Key,
                 result : {"none", "ok", "error", "failed"}]
    /\ roots \in SUBSET Key

-----------------------------------------------------------------------------
\* The function of a frame holds a transaction_lock.
Locking(frame) ==
    \/ frame.kind = "apply" /\ frame.pc = "end"
    \/ frame.kind = "each" /\ frame.pc = "next"
    \/ frame.kind = "destroy" /\ frame.pc # "begin"

LocksOf(s) == Cardinality({n \in DOMAIN s : Locking(s[n])})

\* The locks alive are those of the functions on the stack and the client's.
LocksMatchStack == counter = LocksOf(stack) + (IF held THEN 1 ELSE 0)

\* Between calls no transaction is open unless the client holds a lock.
IdleIsCommitted == Idle /\ ~held => counter = 0 /\ db = durable

\* A call that throws leaves the database as it found it, at whatever
\* statement it stopped; so does a call in progress as far as others can see.
FailedCallLeavesNoTrace ==
    ~held =>
       /\ call.result \in {"error", "failed"} => db = call.before
       /\ call.op # "none" /\ call.result # "ok" => durable = call.before

\* While the client holds a lock it has not committed, no call makes anything
\* durable: only the commit() of that lock does.
LockDefersCalls == [][held /\ held' /\ ~spent' => UNCHANGED durable]_vars

\* The engine implements the atomic store.  The unit of work of a call, or of
\* all the calls under the client's lock, becomes durable as a whole or not at
\* all; it is spent when the client has committed the lock it still holds, and
\* what the calls do from there to its release is durable piece by piece.
Store == INSTANCE AtomicStore WITH
            Content <- [Key -> Row \cup {NoRow}],
            Empty   <- NoRows,
            phase   <- IF counter = 0 THEN "idle" ELSE IF spent THEN "spent" ELSE "active",
            visible <- db

ImplementsStore == Store!Spec

-----------------------------------------------------------------------------
\* The rows a stored object consists of: what its row leads to.
Links(d, k) ==
    IF d[k] = NoRow THEN {}
    ELSE (   {d[k].base} \cup {d[k].col[f] : f \in Range(OneFields[d[k].table])}
          \cup {r \in Rows(d) :
                   \/ d[r].base = k
                   \/ \E f \in ForeignKeyFields(d[r].table) : d[r].col[f] = k}) \ {Null}

Stored(d, S) == Closure(S, Key, [k \in Key |-> Links(d, k)]) \cap Rows(d)

\* Between calls every row belongs to an object some call created: updates and
\* destroys leave nothing behind.
NoGarbage == Idle => Rows(db) \subseteq Stored(db, roots)

\* What others may read is whole: a row of a derived table has its base row, a
\* row of a hierarchy with a __type column has the rows of that type.
KeysAreKept(d) == \A k \in Rows(d) : SatisfiesKeys(d, d[k])

TypesAreKept(d) ==
    \A k \in Rows(d) :
       HasTypeColumn(d[k].table) /\ d[k].type # d[k].table =>
          \E r \in RowsOf(d, d[k].type) : k \in Ancestry(d, r)

DurableIsWhole == KeysAreKept(durable) /\ TypesAreKept(durable)

\* A call touches the stored objects it was called for and nobody else's: as
\* long as the two have no row in common, the others' rows are the same after.
CalledKeys ==
    {call.keys[x][t] : x \in UNION {Graph(o) : o \in Range(call.objs)}, t \in Table} \ {Null}

CallIsLocal ==
    call.result # "none" =>
       LET own    == Stored(call.before, CalledKeys)
           others == Stored(call.before, call.stored \ CalledKeys)
       IN own \cap others = {} => \A k \in others : db[k] = call.before[k]

-----------------------------------------------------------------------------
\* The tables of an object an update works on: the loop from the dynamic
\* type's table to the base tables stops at the first base that is excluded.
Visited(o) ==
    LET d == ObjTable[o]
    IN {t \in Chain(d) : \A u \in Chain(d) \ {d} : t \in Chain(u) => ~IsExcluded(filter, u)}

Written(o) == Visited(o) \ filter

\* The foreign fields an update of o follows.
Followed(o) ==
    {f \in ForeignFieldsOf(o) \ filter :
        TableOf(f) \in Written(o) /\ (IsMany(f) => RefOf[f] \notin filter)}

Reached(o, Fields(_)) ==
    Closure({o}, Obj, [x \in Obj |-> UNION {Range(member[x][f]) : f \in Fields(x)}])

\* The row of o in table t says what o says.
KeyOfPart(o, f) ==
    IF member[o][f] = <<>> THEN Null ELSE key[member[o][f][1]][RefOf[f]]

RowMatches(o, t) ==
    LET k == key[o][t]
    IN /\ k \in RowsOf(db, t)
       /\ db[k].base = IF BaseOf[t] = NoTable THEN Null ELSE key[o][BaseOf[t]]
       /\ HasTypeColumn(t) => db[k].type = ObjTable[o]
       /\ \A f \in Range(DataFields[t]) \ filter : db[k].col[f] = data[o][f]
       /\ \A f \in Range(OneFields[t]) \ filter : db[k].col[f] = KeyOfPart(o, f)
       /\ \A f \in Range(ManyFields[t]) \cap Followed(o) :
             {<<r, db[r].idx[f]>> : r \in {r \in Rows(db) : db[r].col[f] = k}}
             = {<<key[member[o][f][n]][RefOf[f]], n - 1>> : n \in DOMAIN member[o][f]}

Saved(o) == \A x \in Reached(o, Followed) : \A t \in Written(x) : RowMatches(x, t)

\* An update keeps the columns its filter excludes, in every row it keeps; only
\* the key of a row that is gone becomes NULL.
ColumnIsKept(k, f) ==
    LET was == call.before[k].col[f]
    IN /\ db[k].idx[f] = call.before[k].idx[f]
       /\ \/ db[k].col[f] = was
          \/ db[k].col[f] = Null /\ ~IsData(f) /\ was \notin Rows(db)

ColumnsAreKept(fields) ==
    call.op = "update" /\ call.result = "ok" =>
       \A k \in Rows(db) \cap Rows(call.before), f \in fields \cap filter : ColumnIsKept(k, f)

\* The values of the data fields and the keys of the parts.
ExcludedValuesAreKept == ColumnsAreKept({f \in Field : ~IsMany(f)})

\* These, and whose elements the elements of containers are.
ExcludedIsKept == ColumnsAreKept(Field)

\* No statement of an update takes an element from its owner by a field the
\* filter excludes, or gives it another place there.  An INSERT does not ask
\* the filter, so an owner the same call has created may take it; if its owner
\* is deleted the key becomes NULL.
ElementStays(k, f) ==
    \/ db'[k].col[f] = db[k].col[f] /\ db'[k].idx[f] = db[k].idx[f]
    \/ db'[k].col[f] \in Key \ Rows(call.before)
    \/ /\ db'[k].col[f] = Null /\ db[k].col[f] \notin Rows(db')
       /\ db'[k].idx[f] = db[k].idx[f]

ExcludedElementsStay ==
    [][~Idle /\ call.op = "update" /\ call'.result \in {"none", "ok"} =>
         \A k \in Rows(db) \cap Rows(db'), f \in Field \cap filter :
            IsMany(f) => ElementStays(k, f)]_vars

-----------------------------------------------------------------------------
\* What a call may rely on.  An object is new (no keys) or stored (all of its
\* keys name rows), and a stored part is where the database has it.
New(keys, x) == keys[x] = [t \in Table |-> Null]

IsStored(keys, d, x) ==
    \A t \in Chain(ObjTable[x]) :
       /\ keys[x][t] \in RowsOf(d, t)
       /\ BaseOf[t] # NoTable => d[keys[x][t]].base = keys[x][BaseOf[t]]

InPlace(keys, d, o, f, x) ==
    LET owner == keys[o][TableOf(f)]
        part  == keys[x][RefOf[f]]
    IN IF IsMany(f)
       THEN part \in Rows(d) /\ d[part].col[f] = owner
       ELSE {p \in Rows(d) \X {g \in Field : IsOne(g)} : d[p[1]].col[p[2]] = part}
            = {<<owner, f>>}

\* An UPDATE of table t has a column to set, the owner's aside.
HasColumns(t) ==
    \/ BaseOf[t] # NoTable /\ BaseOf[t] \notin filter
    \/ \E f \in Range(FieldsOf[t]) \ filter : ~IsMany(f)

FollowedBy(keys, x) == IF New(keys, x) THEN ForeignFieldsOf(x) ELSE Followed(x)

\* What an update can do with the one field f of a stored object o: a part in
\* a column that is NOT NULL stays the same object, and the referenced table
\* has no derived tables.
KeepsPart(keys, o, f) ==
    f \notin NullableField => \A x \in Range(member[o][f]) : ~New(keys, x)

\* The objects of the call in progress are in order, given what a one field of
\* a stored object must satisfy.
InOrder(CanUpdate(_, _, _)) ==
    LET keys == call.keys
        objs == Range(call.objs)
        all  == UNION {Reached(o, LAMBDA x : FollowedBy(keys, x)) : o \in objs}
        settled(x) ==
            /\ IsStored(keys, call.before, x)
            /\ \A t \in Written(x) : HasColumns(t)
            /\ \A f \in Followed(x) :
                  /\ IsOne(f) => CanUpdate(keys, x, f) /\ ~AmbiguousKey(RefOf[f])
                  /\ \A p \in Range(member[x][f]) :
                        New(keys, p) \/ InPlace(keys, call.before, x, f, p)
    IN CASE call.op = "create"  -> \A x \in all : New(keys, x)
         [] call.op = "destroy" -> \A x \in objs : keys[x][call.table] # Null
         [] call.op = "update"  ->
              /\ \A x \in objs : settled(x)
              /\ \A x \in all : New(keys, x) \/ settled(x)
              /\ \A x \in all : New(keys, x) => \A p \in Elements(x) : New(keys, p)

\* After a create or an update that did not throw, the database holds each
\* object, all it owns, the order of its containers and its dynamic type.  The
\* objects of a container must be in order: the update of one deletes the part
\* that another has got from it and has written already (table.cpp:1166).
CallSaves ==
    [][/\ call.result = "none" /\ call'.result = "ok"
       /\ call.op \in {"create", "update"}
       /\ Len(call.objs) = 1 \/ InOrder(KeepsPart)
       => \A o \in Range(call.objs) : Saved(o)']_vars

\* A call that finds its objects in order succeeds, whatever was done to them
\* before.
LegalCallSucceeds == call.result = "error" => ~InOrder(KeepsPart)

\* The same where the update replaces the part in a NOT NULL column by a new
\* one (test/cpphibernate_update.cpp, update_derived1).
ReplacingPartSucceeds ==
    call.result = "error" => ~InOrder(LAMBDA keys, o, f : TRUE)

\* An update through the base class of an object that has the key of its base
\* class only finds the other keys in the database and succeeds
\* (test/cpphibernate_update.cpp, update_dynamic_base).
KeyFromBaseSucceeds ==
    \A o \in Obj :
       LET d == ObjTable[o]
       IN ~ /\ call.op = "update" /\ call.objs = <<o>> /\ call.result = "error"
            /\ filter = NoFilter /\ Elements(o) = {}
            /\ BaseOf[d] = call.table /\ call.keys[o][d] = Null
            /\ \E r \in RowsOf(call.before, d) :
                  call.before[r].base = call.keys[o][call.table]

\* Every call returns or throws.
CallsEnd == ~Idle ~> Idle
=============================================================================
