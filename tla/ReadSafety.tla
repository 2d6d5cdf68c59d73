----------------------------- MODULE ReadSafety -----------------------------
(***************************************************************************)
(* What context.read() promises: a read of a stored object returns that    *)
(* object, with all that hangs on it and nothing else, whatever filter is  *)
(* set.  A read is regular if it keeps clear of the places where the code  *)
(* is known not to (README, section 3).                                    *)
(***************************************************************************)
EXTENDS ReadEngine

\* The excluded tables and fields of the call.
Excluded == Exclusions(setting)

-----------------------------------------------------------------------------
(* The object o of the world, as read through a member or a container      *)
(* element of table t that is (dyn) or is not a pointer.                   *)

ClassRead(o, t, dyn) == IF dyn /\ DerivedTables(t) # {} THEN ObjTable[o] ELSE t

\* A base table is passed by when it is excluded, a derived one is not: nothing
\* below it is read.
TablesRead(o, t, dyn) ==
    {u \in Chain(ClassRead(o, t, dyn)) :
        /\ ~IsExcluded(Excluded, u)
        /\ u \in Chain(t) \/ \A v \in Chain(u) : t \in Chain(v) => ~IsExcluded(Excluded, v)}

FieldsRead(o, t, dyn) ==
    UNION {Range(Kept(Excluded, FieldsOf[u])) : u \in TablesRead(o, t, dyn)}

Merge(f, g) == f @@ g

RECURSIVE Image(_, _, _, _)

\* What is in the heap once o was read at the place p.
Image(o, t, dyn, p) ==
    LET fields == FieldsRead(o, t, dyn)
        data   == {f \in fields : IsData(f)}
        own    == [class |-> ClassRead(o, t, dyn),
                   got   |-> [u \in TablesRead(o, t, dyn) |-> world.key[o][u]]
                             @@ [f \in data |-> world.data[o][f]]]
        Below1(f, i) == Image(world.member[o][f][i], RefOf[f], f \in PointerField,
                              IF IsMany(f) THEN p \o <<f, i>> ELSE Append(p, f))
        parts  == UNION {{Below1(f, i) : i \in DOMAIN world.member[o][f]} : f \in fields \ data}
    IN FoldSet(Merge, p :> own, parts)

\* The objects a call asks for.
Selects(o, clause) ==
    /\ clause.table \in Chain(ObjTable[o])
    /\ IF clause.field = NoField THEN world.key[o][clause.table] = clause.value
       ELSE world.data[o][clause.field] = clause.value

Asked ==
    {o \in Obj :
        /\ request.dest.table \in Chain(ObjTable[o])
        /\ world.key[o][request.dest.table] # Null
        /\ \A clause \in request.mods.where : Selects(o, clause)}

\* How many of them the limit lets through.
AskedCount ==
    LET n    == Cardinality(Asked)
        rest == IF request.mods.offset > n THEN 0
                ELSE IF request.mods.offset < 0 THEN n ELSE n - request.mods.offset
    IN IF request.mods.limit >= 0 /\ request.mods.limit < rest THEN request.mods.limit ELSE rest

\* The heap that the objects objs, in this order, make.
Answer(objs) ==
    FoldSet(Merge, NoHeap,
            {Image(objs[i], request.dest.table, request.dest.dyn,
                   IF IsContainer(request.dest) THEN <<i>> ELSE <<>>) : i \in DOMAIN objs})

-----------------------------------------------------------------------------
(* The regular reads.  A datum of Reached is a table that the call reads,  *)
(* the kind of context and the field it is read through.                   *)

TablesOf(r) == Chain(r.table) \cup IF r.dyn THEN Below(r.table) ELSE {}

FieldsUnder(r) ==
    UNION {Range(Kept(Excluded, FieldsOf[u])) : u \in TablesOf(r) \ Excluded}

Links(r) ==
    {IF IsMany(f) THEN ManyContext(f, <<>>) ELSE PartContext(f, <<>>, FALSE) :
        f \in {g \in FieldsUnder(r) : ~IsData(g)}}

Reached ==
    LET grow[n \in 0..Cardinality(Table)] ==
          IF n = 0 THEN {request.dest}
          ELSE UNION {{r} \cup Links(r) : r \in grow[n - 1]}
    IN grow[Cardinality(Table)]

IsPart(r) == r.place # <<>> /\ ~IsContainer(r)
FieldOf(r) == r.place[1]

\* has_value() peeks at the column of a derived table that is not selected
\* (table.cpp:106), and a SELECT of no column at all is no SELECT.
TablesSelected ==
    \A r \in Reached : /\ r.dyn => Excluded \cap Below(r.table) \subseteq {r.table}
                       /\ TablesOf(r) \ Excluded # {}

\* The part's base table is joined to a LEFT JOIN's empty row by an INNER JOIN,
\* which drops the owner's row (table.cpp:253).
NoNullPartWithBase ==
    \A r \in Reached : IsPart(r) /\ BaseOf[r.table] # NoTable =>
       \A o \in Obj : TableOf(FieldOf(r)) \in Chain(ObjTable[o]) => world.member[o][FieldOf(r)] # <<>>

\* The __type of a part is selected under the table's bare name and looked up
\* below the table the SELECT began with (table.cpp:284, 93).
NoPolymorphicPart ==
    \A r \in Reached : IsPart(r) /\ r.dyn => BaseOf[r.table] = NoTable /\ DerivedTables(r.table) = {}

\* A container of pointers throws for a class without derived classes
\* (read.h:190).
NoPlainPointers ==
    \A r \in Reached : r.kind = "pointers" => \E u \in Chain(r.table) : DerivedTables(u) # {}

\* A vector moves values that containers are still to be read into, but not
\* what such a value points to (read.h:207).
NoManyInMovedValues ==
    \A r \in Reached : r.kind = "values" /\ r.moves =>
       \A f \in FieldsUnder(r) : IsData(f) \/ f \in PointerField \ Container

\* The text of every value can be read back.
AllConvertible ==
    \A r \in Reached : \A f \in FieldsUnder(r) : IsData(f) => Convertible(f)

\* The call asks for as many objects as the destination takes, names no column
\* that is not selected from, and has no order_by, of which ORDER_BY is made.
ModifiersFit ==
    /\ request.dest.kind = "value" => AskedCount = 1
    /\ request.dest.kind \in {"optional", "pointer"} => AskedCount <= 1
    /\ \A clause \in request.mods.where :
          clause.table \in Chain(request.dest.table) \ (Excluded \ {request.dest.table})
    /\ ~request.mods.order

Regular ==
    /\ TablesSelected /\ NoNullPartWithBase /\ NoPolymorphicPart
    /\ NoPlainPointers /\ NoManyInMovedValues /\ AllConvertible /\ ModifiersFit

-----------------------------------------------------------------------------
\* The columns a SELECT names, the cells that are consumed and the objects that
\* are filled fit together (table.cpp:60, 235, 1594): a finished read has made
\* the objects that were asked for, with their classes, keys, values, parts and
\* elements in order, less what the filter excludes; nothing else was touched.
ReadMatches ==
    Idle /\ result = "done" /\ Regular =>
       \E objs \in [1..AskedCount -> Asked] :
          /\ \A i, j \in DOMAIN objs : objs[i] = objs[j] => i = j
          /\ heap = Answer(objs)

\* A regular read does not throw: no row is left over or read beyond its end
\* (table.cpp:193), no dataset is missing or one too many (read.h:61), and no
\* element that a container is read into later was moved by a growing vector
\* (read.h:198).
LegalReadSucceeds ==
    Idle /\ request # NoRequest /\ Regular => result = "done"
=============================================================================
