------------------------------- MODULE Filter -------------------------------
(***************************************************************************)
(* filter_t: which tables and fields an update leaves out.  A filter is    *)
(* the set of the tables and fields it excludes.                           *)
(***************************************************************************)
EXTENDS HibernateSchema

\* clear(): an exclusive filter with nothing in it excludes nothing.
NoFilter == {}

\* What filter_add_element collects for the arguments of set_inclusive and
\* set_exclusive: a table brings in its fields, a field its table.
AddedFields(tables, fields) == fields \cup UNION {Range(FieldsOf[t]) : t \in tables}
AddedTables(tables, fields) == tables \cup {TableOf(f) : f \in fields}

\* set_inclusive(): what was not added is excluded.
SetInclusive(tables, fields) ==
    (Table \cup Field) \ (AddedTables(tables, fields) \cup AddedFields(tables, fields))

\* set_exclusive(): the loop over the tables drops each one of which a field
\* was added.  An added table always brought its primary key, so none is left
\* and only fields are excluded.
SetExclusive(tables, fields) == AddedFields(tables, fields)

IsExcluded(filter, x) == x \in filter
=============================================================================
