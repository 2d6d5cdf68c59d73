------------------------------ MODULE Database ------------------------------
(***************************************************************************)
(* The MariaDB server as far as the driver's statements need it: rows      *)
(* under 16 byte keys, the columns build_init_stage1_query declares, the   *)
(* foreign key constraints build_init_stage2_query declares, and what a    *)
(* DELETE built by delete_query_builder_t removes.                         *)
(*                                                                         *)
(* A value of this module is db \in [Key -> Row \cup {NoRow}].  Keys are   *)
(* the UUIDs of SELECT Uuid(): one key names one row of one table.         *)
(***************************************************************************)
EXTENDS HibernateSchema

CONSTANTS
    Key,                \* primary keys
    Val,                \* values of data fields
    Null,               \* the SQL NULL, and a default (unset) key in memory
    NoRow

ASSUME DatabaseAssumption ==
    /\ IsFiniteSet(Key)
    /\ Null \notin Key \cup Val

\* The columns of a row: the key of the base table's row, per field the value
\* of a data field or the foreign key of a one field, and per many field that
\* refers to the table the owner's key and the index in the owner's container.
Row == [table : Table,
        base  : Key \cup {Null},
        col   : [Field -> Key \cup Val \cup {Null}],
        idx   : [Field -> Nat],
        type  : Table \cup {Null}]

ASSUME RowAssumption == NoRow \notin Row

Rows(db) == {k \in Key : db[k] # NoRow}
RowsOf(db, t) == {k \in Rows(db) : db[k].table = t}

EmptyRow(t) == [table |-> t, base |-> Null, col |-> [f \in Field |-> Null],
                idx |-> [f \in Field |-> 0], type |-> Null]

\* The table a foreign key column points to: a one field's column to the
\* referenced table, a many field's column back to the owner's table.
TargetOf(f) == IF IsMany(f) THEN TableOf(f) ELSE RefOf[f]

\* NOT NULL columns are set, and every key points to a row of its target.
SatisfiesKeys(db, row) ==
    /\ BaseOf[row.table] # NoTable => row.base \in RowsOf(db, BaseOf[row.table])
    /\ \A f \in Range(OneFields[row.table]) \cup ForeignKeyFields(row.table) :
          \/ row.col[f] = Null /\ (IsMany(f) \/ f \in NullableField)
          \/ row.col[f] \in RowsOf(db, TargetOf(f))

-----------------------------------------------------------------------------
\* Row k and the rows of its base tables.
BaseRow(db, k) == IF k \notin Rows(db) THEN {} ELSE {db[k].base} \ {Null}
Ancestry(db, k) == Closure({k}, Key, [r \in Key |-> BaseRow(db, r)])

\* Mutant: the rows of the one fields are not joined.
JoinedHierarchy(db, k) ==
    IF k \notin Rows(db) THEN {}
    ELSE ({db[k].base} \cup {d \in Rows(db) : db[d].base = k}) \ {Null}

\* The rows a DELETE removes beside row k: those delete_query_builder_t joins
\* to it, which are its base row, its derived row, and the rows of its one
\* fields.  (The builder's flags keep it from going back down from a base row;
\* the row it came from is the only one there.)
Joined(db, k) ==
    IF k \notin Rows(db) THEN {}
    ELSE (   {db[k].base} \cup {db[k].col[f] : f \in Range(OneFields[db[k].table])}
          \cup {d \in Rows(db) : db[d].base = k}) \ {Null}

\* ON DELETE CASCADE: rows that point to k by their base key or by the column
\* of a one field that is not nullable.
Cascaded(db, k) ==
    {d \in Rows(db) :
        \/ db[d].base = k
        \/ \E f \in Range(OneFields[db[d].table]) \ NullableField : db[d].col[f] = k}

\* The database after a DELETE whose WHERE selects the rows S: the joined rows
\* go, then what the foreign keys cascade to; the other columns that pointed
\* to a deleted row become NULL (ON DELETE SET NULL), their index stays.
DeleteRows(db, S) ==
    LET joined == Closure(S, Key, [k \in Key |-> Joined(db, k)])
        gone   == Closure(joined, Key, [k \in Key |-> Cascaded(db, k)])
    IN [k \in Key |->
          IF k \in gone \/ db[k] = NoRow
          THEN NoRow
          ELSE [db[k] EXCEPT !.col =
                  [f \in Field |-> IF ~IsData(f) /\ @[f] \in gone
                                   THEN Null ELSE @[f]]]]

\* "WHERE `key` IN (SELECT ...)" names the key column without its table.  The
\* tables derived from t have a column of that name too, and the DELETE joins
\* them: the server refuses the statement as ambiguous.
AmbiguousKey(t) == DerivedTables(t) # {}
=============================================================================
