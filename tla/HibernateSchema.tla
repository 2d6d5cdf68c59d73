-------------------------- MODULE HibernateSchema --------------------------
(***************************************************************************)
(* The schema a driver works on, as schema_t::update() links it: tables    *)
(* with at most one base table, their fields in the order of declaration,  *)
(* and the table a field refers to.  A field that refers to no table of    *)
(* the schema is a data field; one that holds a container is a "many"      *)
(* field, whose foreign key lives in the rows of the referenced table; the *)
(* others are "one" fields, whose foreign key lives in the owner's row.    *)
(***************************************************************************)
EXTENDS Naturals, Sequences, FiniteSets, SequencesExt

CONSTANTS
    Table, NoTable,
    Field, NoField,     \* the fields of all tables except the primary keys
    BaseOf,             \* [Table -> Table \cup {NoTable}]: table_t::base_table
    FieldsOf,           \* [Table -> Seq(Field)]: table_t::fields
    RefOf,              \* [Field -> Table \cup {NoTable}]: referenced_table
    Container,          \* fields with value_is_container
    NullableField       \* fields with value_is_nullable

ASSUME SchemaAssumption ==
    /\ IsFiniteSet(Table) /\ IsFiniteSet(Field)
    /\ NoTable \notin Table /\ NoField \notin Field
    /\ BaseOf \in [Table -> Table \cup {NoTable}]
    /\ FieldsOf \in [Table -> Seq(Field)]
    /\ RefOf \in [Field -> Table \cup {NoTable}]
    /\ Container \subseteq Field /\ NullableField \subseteq Field
    /\ \A f \in Container : RefOf[f] # NoTable
    /\ \A f \in Field : \E t \in Table : f \in Range(FieldsOf[t])

IsOne(f) == RefOf[f] # NoTable /\ f \notin Container
IsMany(f) == RefOf[f] # NoTable /\ f \in Container
IsData(f) == RefOf[f] = NoTable

\* The elements of s that are in P, in their order: what a loop over s appends.
Among(s, P) ==
    LET among[n \in 0..Len(s)] ==
          IF n = 0 THEN <<>>
          ELSE IF s[n] \in P THEN Append(among[n - 1], s[n]) ELSE among[n - 1]
    IN among[Len(s)]

\* The vectors of a table the loop over its fields fills.
OneFields == [t \in Table |-> Among(FieldsOf[t], {f \in Field : IsOne(f)})]
ManyFields == [t \in Table |-> Among(FieldsOf[t], {f \in Field : IsMany(f)})]
DataFields == [t \in Table |-> Among(FieldsOf[t], {f \in Field : IsData(f)})]

TableOf(f) == CHOOSE t \in Table : f \in Range(FieldsOf[t])

\* The many fields whose foreign key column the table t has.
ForeignKeyFields(t) == {f \in Field : IsMany(f) /\ RefOf[f] = t}

DerivedTables(t) == {d \in Table : BaseOf[d] = t}

\* The elements of X reached from those of S by following the links of each.
Closure(S, X, links) ==
    LET grow[n \in 0..Cardinality(X)] ==
          IF n = 0 THEN S \cap X ELSE UNION {{x} \cup links[x] : x \in grow[n - 1]}
    IN grow[Cardinality(X)]

\* t, its base table, the base table of that one, and so on.
Chain(t) == Closure({t}, Table, [u \in Table |-> {BaseOf[u]} \ {NoTable}])

\* A class is not derived from itself, and a field is a member of one class.
ASSUME DeclarationAssumption ==
    /\ \A t \in Table : BaseOf[t] # NoTable => t \notin Chain(BaseOf[t])
    /\ \A t \in Table : IsInjective(FieldsOf[t])
    /\ \A t, u \in Table : t # u => Range(FieldsOf[t]) \cap Range(FieldsOf[u]) = {}

\* Only the root of a hierarchy has the __type column.
HasTypeColumn(t) == DerivedTables(t) # {} /\ BaseOf[t] = NoTable
=============================================================================
