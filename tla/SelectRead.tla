----------------------------- MODULE SelectRead -----------------------------
(***************************************************************************)
(* One SELECT of table_t::read_exec: the query select_query_builder_t      *)
(* builds, what the server returns for it, and how data_extractor_t reads  *)
(* a row, column by column, into the client's objects.                     *)
(*                                                                         *)
(* The builder and the extractor walk the tables of a schema on their own; *)
(* nothing but the order of the columns ties a value to its field.         *)
(***************************************************************************)
EXTENDS Conversions, Filter

CONSTANTS
    PointerField,   \* one fields that are smart pointers, and containers of such
    VectorField     \* containers that move their elements when they grow

ASSUME ReadAssumption ==
    /\ PointerField \cup VectorField \subseteq Field
    /\ Field \cap Nat = {}

\* The derived tables in the order of table_t::derived_tables.
DerivedSeq(t) == SetToSeq(DerivedTables(t))

\* t and the tables derived from it, in any number of steps.
Below(t) == {d \in Table : t \in Chain(d)}

\* The fields of a kind that neither the builder nor the extractor leaves out.
Kept(excluded, fields) ==
    Among(fields, {f \in Field : ~IsExcluded(excluded, f)
                                 /\ (IsData(f) \/ ~IsExcluded(excluded, RefOf[f]))})

\* add_table() and read_table() call themselves.  Each comes to a table in three
\* ways, for pointers or not: a call further down repeats the arguments of one
\* that is under way, and neither function would ever return.
Levels == 6 * Cardinality(Table)

-----------------------------------------------------------------------------
(* select_query_builder_t.  An alias is a path: <<>> stands for the bare   *)
(* name of the table, the path of the part and more for a T<n>.  A column  *)
(* is [alias, kind, of], of being the table of a key or a type, or the     *)
(* field; a join is [inner, alias, table, from, by]: the row of table that *)
(* from's row refers to ("base"), that refers to from's row ("derived"),   *)
(* or that the field by of from's row holds.  A query is what was written  *)
(* so far; it returns true if it has columns.                              *)

LocalContext ==
    [table : Table, alias : Seq(Table \cup Field),
     add_base : BOOLEAN, add_derived : BOOLEAN, is_dynamic : BOOLEAN]

RealAlias(ctx) == IF ctx.alias = <<>> THEN <<ctx.table>> ELSE ctx.alias

\* make_alias() for the table t that is joined to ctx's, or its bare name.
AliasUnder(ctx, t) == IF ctx.alias = <<>> THEN <<>> ELSE Append(ctx.alias, t)

Column(ctx, kind, x) == [alias |-> RealAlias(ctx), kind |-> kind, of |-> x]
Join(inner, ctx, from, by) ==
    [inner |-> inner, alias |-> RealAlias(ctx), table |-> ctx.table,
     from |-> RealAlias(from), by |-> by]

Selecting(cols) == [cols |-> cols, joins |-> <<>>]
Nothing == Selecting(<<>>)

\* A join under which nothing was selected is erased again.
Joining(join, query) ==
    IF query.cols = <<>> THEN Nothing ELSE [query EXCEPT !.joins = <<join>> \o @]

\* What add_table() writes is the queries of its parts, one after the other.
All(queries) ==
    [cols  |-> FlattenSeq([i \in DOMAIN queries |-> queries[i].cols]),
     joins |-> FlattenSeq([i \in DOMAIN queries |-> queries[i].joins])]

\* The join of the base table; below[c] is what add_table() writes for c.
AddBase(below, ctx) ==
    LET base == [ctx EXCEPT !.table = BaseOf[ctx.table],
                            !.alias = AliasUnder(ctx, BaseOf[ctx.table]),
                            !.add_base = TRUE, !.add_derived = FALSE]
    IN IF ctx.add_base /\ BaseOf[ctx.table] # NoTable
       THEN Joining(Join(TRUE, base, ctx, "base"), below[base]) ELSE Nothing

\* The column of __type carries the bare name of the table, also in a part.
AddType(ctx) ==
    IF ctx.is_dynamic /\ HasTypeColumn(ctx.table)
    THEN Selecting(<<[alias |-> <<ctx.table>>, kind |-> "type", of |-> ctx.table]>>)
    ELSE Nothing

AddColumns(excluded, ctx) ==
    LET data == Kept(excluded, DataFields[ctx.table])
    IN Selecting(<<Column(ctx, "key", ctx.table)>>
                 \o [i \in DOMAIN data |-> Column(ctx, "data", data[i])])

\* A one field's part starts a hierarchy of its own under an alias of its own.
AddPart(below, ctx, f) ==
    LET part == [table |-> RefOf[f], alias |-> Append(RealAlias(ctx), f),
                 add_base |-> TRUE, add_derived |-> TRUE, is_dynamic |-> f \in PointerField]
    IN Joining(Join(FALSE, part, ctx, f), below[part])

AddDerived(below, ctx, d) ==
    LET derived == [ctx EXCEPT !.table = d, !.alias = AliasUnder(ctx, d),
                               !.add_base = FALSE, !.add_derived = TRUE]
    IN Joining(Join(FALSE, derived, ctx, "derived"), below[derived])

AddTable(excluded, below, ctx) ==
    LET head    == <<AddBase(below, ctx), AddType(ctx)>>
        parts   == Kept(excluded, OneFields[ctx.table])
        derived == IF ctx.add_derived /\ ctx.is_dynamic THEN DerivedSeq(ctx.table) ELSE <<>>
    IN IF IsExcluded(excluded, ctx.table) THEN All(head)
       ELSE All(head \o <<AddColumns(excluded, ctx)>>
                     \o [i \in DOMAIN parts |-> AddPart(below, ctx, parts[i])]
                     \o [i \in DOMAIN derived |-> AddDerived(below, ctx, derived[i])])

\* build_select_query()
BuildSelect(t, excluded, dyn) ==
    LET add[n \in 0..Levels] ==
          [ctx \in LocalContext |->
             IF n = 0 THEN Nothing ELSE AddTable(excluded, add[n - 1], ctx)]
        query == add[Levels][[table |-> t, alias |-> <<>>, add_base |-> TRUE,
                              add_derived |-> TRUE, is_dynamic |-> dyn]]
    IN [from |-> <<t>>, cols |-> query.cols, joins |-> query.joins]

-----------------------------------------------------------------------------
(* The server.  A row of the result binds each alias to the key of a row,  *)
(* or to Null where a LEFT JOIN found none.                                *)

\* The row the join finds from the row from, or Null.
JoinedKey(db, join, from) ==
    IF from = Null THEN Null
    ELSE CASE join.by = "base"    -> db[from].base
           [] join.by = "derived" ->
                LET found == {d \in RowsOf(db, join.table) : db[d].base = from}
                IN IF found = {} THEN Null ELSE CHOOSE d \in found : TRUE
           [] OTHER               -> db[from].col[join.by]

\* The bindings of the row k of the first table: none at all if an inner join
\* finds no row.
Bindings(db, select, k) ==
    FoldLeft(LAMBDA env, join :
                IF env = <<>> THEN env
                ELSE LET found == JoinedKey(db, join, env[join.from])
                     IN IF join.inner /\ found = Null THEN <<>>
                        ELSE (join.alias :> found) @@ env,
             select.from :> k, select.joins)

Cell(db, env, column) ==
    LET k == env[column.alias]
    IN IF k = Null THEN Null
       ELSE CASE column.kind = "key"  -> k
              [] column.kind = "type" -> db[k].type
              [] column.kind = "data" -> Selected(column.of, db[k].col[column.of])

\* A statement the server takes: something is selected, and every column is one
\* of a table that is joined.
Accepted(select) ==
    /\ select.cols # <<>>
    /\ \A i \in DOMAIN select.cols :
          select.cols[i].alias \in {select.from}
                                   \cup {select.joins[j].alias : j \in DOMAIN select.joins}

-----------------------------------------------------------------------------
(* read_context.  place is where the dataset or its container is, dyn is   *)
(* is_dynamic, moves holds for a container that moves its elements, and    *)
(* count is the number of datasets emplaced.  The kinds are those of       *)
(* make_read_context_impl, "optional" and "pointer" being the nullables    *)
(* and "values" and "pointers" the containers, and "fake".                 *)

Context(kind, t, place, moves) ==
    [kind |-> kind, dyn |-> kind \in {"pointer", "pointers"}, table |-> t,
     place |-> place, moves |-> moves, count |-> 0]

IsContainer(ctx) == ctx.kind \in {"values", "pointers"}

\* Where the dataset is that was emplaced last.
Dataset(ctx) == IF IsContainer(ctx) THEN Append(ctx.place, ctx.count) ELSE ctx.place

\* emplace_intern() for a dataset the context makes itself (static) or one that
\* the table of a class has made: what it throws.
EmplaceError(ctx, static) ==
    CASE ctx.kind = "pointers" /\ static    -> "expected dynamic data"
      [] ~ctx.dyn /\ ~static                -> "static dataset"
      [] ~IsContainer(ctx) /\ ctx.count > 0 -> "received more"
      [] OTHER                              -> "none"

\* Mutant: an empty nullable or container is an error as well.
FinishErrorOfAny(ctx) == IF ctx.count = 0 THEN "received none" ELSE "none"

\* finish_intern()
FinishError(ctx) ==
    IF ctx.kind = "value" /\ ctx.count = 0 THEN "received none" ELSE "none"

\* make_fake_context(): it takes no dataset and wants none.
Fake(ctx) == [ctx EXCEPT !.kind = "fake"]

\* foreign_read() of a one field, and of a many field.
PartContext(f, owner, skip) ==
    LET kind == CASE f \in PointerField  -> "pointer"
                  [] f \in NullableField -> "optional"
                  [] OTHER               -> "value"
        real == Context(kind, RefOf[f], Append(owner, f), FALSE)
    IN IF skip THEN Fake(real) ELSE real

\* Mutant: the elements of every dataset go to the first one.
ManyContextOfFirst(f, owner) ==
    Context(IF f \in PointerField THEN "pointers" ELSE "values", RefOf[f],
            [i \in DOMAIN owner |-> IF owner[i] \in Nat THEN 1 ELSE owner[i]] \o <<f>>,
            f \in VectorField)

ManyContext(f, owner) ==
    Context(IF f \in PointerField THEN "pointers" ELSE "values", RefOf[f],
            Append(owner, f), f \in VectorField)

-----------------------------------------------------------------------------
(* data_extractor_t.  Which tables read_table() calls itself for depends   *)
(* on the schema, the filter and is_dynamic alone, so what a call does, and *)
(* what is done in those it makes, is a sequence of steps [do, of]:        *)
(*    "type", "make"     create the dataset at the root of a hierarchy     *)
(*    "key", "data"      read_field() of the table's key or of a field     *)
(*    "part", "finish"   go to the context of a one field and back         *)
(*    "many"             put the many fields of a table on the list        *)
(*    "enter", "leave"   go to a derived table and back.                   *)

\* The arguments of read_table() but for skip.
Visit ==
    [table : Table, read_base : BOOLEAN, read_derived : BOOLEAN, is_dynamic : BOOLEAN]

Step(do, x) == [do |-> do, of |-> x]

\* The base table, or the dataset; below[v] is what read_table() does for v.
ReadBase(below, v) ==
    IF ~v.read_base THEN <<>>
    ELSE IF BaseOf[v.table] # NoTable
    THEN below[[v EXCEPT !.table = BaseOf[v.table], !.read_derived = FALSE]]
    ELSE <<Step(IF v.is_dynamic /\ DerivedTables(v.table) # {} THEN "type" ELSE "make", v.table)>>

ReadPart(below, f) ==
    <<Step("part", f)>>
    \o below[[table |-> RefOf[f], read_base |-> TRUE, read_derived |-> TRUE,
              is_dynamic |-> f \in PointerField]]
    \o <<Step("finish", f)>>

ReadDerived(below, v, d) ==
    <<Step("enter", d)>>
    \o below[[v EXCEPT !.table = d, !.read_base = FALSE, !.read_derived = TRUE]]
    \o <<Step("leave", d)>>

ReadTable(excluded, below, v) ==
    LET data    == Kept(excluded, DataFields[v.table])
        parts   == Kept(excluded, OneFields[v.table])
        derived == IF v.read_derived /\ v.is_dynamic THEN DerivedSeq(v.table) ELSE <<>>
    IN IF IsExcluded(excluded, v.table) THEN ReadBase(below, v)
       ELSE ReadBase(below, v)
            \o <<Step("key", v.table)>> \o [i \in DOMAIN data |-> Step("data", data[i])]
            \o FlattenSeq([i \in DOMAIN parts |-> ReadPart(below, parts[i])])
            \o <<Step("many", v.table)>>
            \o FlattenSeq([i \in DOMAIN derived |-> ReadDerived(below, v, derived[i])])

\* read_table(_table, _context, true, true)
Walk(t, excluded, dyn) ==
    LET read[n \in 0..Levels] ==
          [v \in Visit |-> IF n = 0 THEN <<>> ELSE ReadTable(excluded, read[n - 1], v)]
    IN read[Levels][[table |-> t, read_base |-> TRUE, read_derived |-> TRUE,
                     is_dynamic |-> dyn]]

-----------------------------------------------------------------------------
(* The steps.  q is [row, top, excluded]: the cells, _table and the        *)
(* filter.  s is what the functions change: i is _index, skip the flag     *)
(* they pass and return, err what was thrown, ctx the context of the       *)
(* dataset, saved the [ctx, skip] of the calls under way, pending the      *)
(* _foreign_many_list, and heap what was read: a function from places to   *)
(* [class, got], where got maps a table to the key and a field to the      *)
(* value that was set.                                                     *)

Failed(s) == s.err # "none"
Fail(s, what) == [s EXCEPT !.err = what]

\* has_value() and get_value(): row::at() throws beyond the last cell.
InRow(q, s) == s.i < Len(q.row)
CellAt(q, s) == q.row[s.i + 1]

\* field_t::set(): x is the table whose key is read, or the field.
Set(s, x, value) ==
    IF x \in Field /\ value = Garbled /\ TypeOf[x] # "string" THEN Fail(s, "conversion")
    ELSE [s EXCEPT !.heap[Dataset(s.ctx)].got = (x :> value) @@ @]

\* Mutant: the columns of a part that is not there are left to be read.
ReadFieldUnlessSkipped(q, s, x) ==
    IF s.skip THEN s
    ELSE IF ~InRow(q, s) THEN Fail(s, "out of range")
    ELSE Set([s EXCEPT !.i = @ + 1], x,
             IF x \in Field THEN Loaded(x, CellAt(q, s)) ELSE CellAt(q, s))

ReadField(q, s, x) ==
    IF ~InRow(q, s) THEN Fail(s, "out of range")
    ELSE LET next == [s EXCEPT !.i = @ + 1]
             cell == CellAt(q, s)
         IN IF s.skip THEN next
            ELSE Set(next, x, IF x \in Field THEN Loaded(x, cell) ELSE cell)

\* A new object at the place of the dataset.
Put(heap, place, class) ==
    [p \in DOMAIN heap \cup {place} |->
       IF p = place THEN [class |-> class, got |-> <<>>] ELSE heap[p]]

Emplace(s, class, static) ==
    IF EmplaceError(s.ctx, static) # "none" THEN Fail(s, EmplaceError(s.ctx, static))
    ELSE LET ctx == [s.ctx EXCEPT !.count = @ + 1]
         IN [s EXCEPT !.ctx = ctx, !.heap = Put(@, Dataset(ctx), class)]

\* get_derived_by_table_id() searches from the table the SELECT began with, and
\* read_context::emplace() wants a class derived from the dataset's.
EmplaceTyped(q, s, type) ==
    IF type \notin Below(q.top) THEN Fail(s, "unable to find derived table")
    ELSE IF s.ctx.table \notin Chain(type) THEN Fail(s, "not a derived type")
    ELSE Emplace(s, type, FALSE)

\* A dataset of the class that __type names, and one of the context's own.
MakeDynamic(q, s) ==
    IF ~InRow(q, s) THEN Fail(s, "out of range")
    ELSE LET next == [s EXCEPT !.i = @ + 1]
         IN IF CellAt(q, s) = Null \/ s.skip THEN [next EXCEPT !.skip = TRUE]
            ELSE EmplaceTyped(q, next, CellAt(q, s))

MakeStatic(q, s) ==
    IF ~InRow(q, s) THEN Fail(s, "out of range")
    ELSE IF CellAt(q, s) = Null \/ s.skip THEN [s EXCEPT !.skip = TRUE]
    ELSE Emplace(s, s.ctx.table, TRUE)

Save(s) == [s EXCEPT !.saved = Append(@, [ctx |-> s.ctx, skip |-> s.skip])]

EnterPart(s, f) == [Save(s) EXCEPT !.ctx = PartContext(f, Dataset(s.ctx), s.skip)]

FinishPart(s) ==
    [s EXCEPT !.ctx = Last(s.saved).ctx, !.skip = Last(s.saved).skip,
              !.saved = Front(@), !.err = FinishError(s.ctx)]

\* The many fields of a dataset are read once all rows are.
AddPending(q, s, t) ==
    LET fields == Kept(q.excluded, ManyFields[t])
    IN IF s.skip THEN s
       ELSE [s EXCEPT !.pending = @ \o
               [i \in DOMAIN fields |->
                  [field |-> fields[i],
                   owner |-> s.heap[Dataset(s.ctx)].got[t],
                   ctx   |-> ManyContext(fields[i], Dataset(s.ctx))]]]

\* A derived table has values if the next column is not NULL: its key, if it is
\* selected.  skip is passed by value.
EnterDerived(q, s) ==
    IF ~InRow(q, s) THEN Fail(s, "out of range")
    ELSE [Save(s) EXCEPT !.skip = @ \/ CellAt(q, s) = Null]

LeaveDerived(s) == [s EXCEPT !.skip = Last(s.saved).skip, !.saved = Front(@)]

Do(q, s, step) ==
    IF Failed(s) THEN s
    ELSE CASE step.do = "type"            -> MakeDynamic(q, s)
           [] step.do = "make"            -> MakeStatic(q, s)
           [] step.do \in {"key", "data"} -> ReadField(q, s, step.of)
           [] step.do = "part"            -> EnterPart(s, step.of)
           [] step.do = "finish"          -> FinishPart(s)
           [] step.do = "many"            -> AddPending(q, s, step.of)
           [] step.do = "enter"           -> EnterDerived(q, s)
           [] step.do = "leave"           -> LeaveDerived(s)

Run(q, s, steps) ==
    LET run[n \in 0..Len(steps)] == IF n = 0 THEN s ELSE Do(q, run[n - 1], steps[n])
    IN run[Len(steps)]

\* data_extractor_t::operator() for one row after the other.
ReadRow(s, row, top, excluded) ==
    LET q    == [row |-> row, top |-> top, excluded |-> excluded]
        read == Run(q, [s EXCEPT !.i = 0, !.skip = FALSE, !.saved = <<>>],
                    Walk(top, excluded, s.ctx.dyn))
    IN IF Failed(s) THEN s
       ELSE IF ~Failed(read) /\ read.i # Len(row) THEN Fail(read, "not completely read")
       ELSE read
=============================================================================
