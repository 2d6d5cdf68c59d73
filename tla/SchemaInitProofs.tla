-------------------------- MODULE SchemaInitProofs --------------------------
(***************************************************************************)
(* What init() leaves behind, for every schema, every order of the tables  *)
(* and any number of objects.                                              *)
(*                                                                         *)
(* The invariant ties the statements that init() has still to send to what *)
(* the server has: whatever a complete schema needs is either among them,  *)
(* or there and safe from a DROP.                                          *)
(***************************************************************************)
EXTENDS SchemaInit, SchemaProofs, SequenceTheorems

\* The statements of init() that a complete schema needs, and their effects.
Owed == {S("schema"), S("use"), S("UuidToBin"), S("BinToUuid")}
        \cup [op : {"create", "alter"}, table : Table]

Effect(s) ==
    /\ s.op = "schema" => schema
    /\ s.op = "use" => using
    /\ s.op \in Function => s.op \in function
    /\ s.op = "create" => s.table \in tables
    /\ s.op = "alter" /\ References(s.table) # {} => s.table \in linked

Dropping == Head(todo).op = "drop"

Progress ==
    ~Quiet =>
       /\ result = "none"
       /\ \A i \in DOMAIN todo : i # 1 => todo[i].op # "drop"
       /\ \A s \in Owed : s \in Range(todo) \/ (Effect(s) /\ ~Dropping)

\* Once the schema was dropped there are no rows, and a table that is there
\* was made by a CREATE TABLE.
Emptied ==
    ~Quiet /\ recreate /\ ~Dropping =>
       rows = {} /\ \A t \in tables : text[t] # "insert"

InitInv == TypeOK /\ Progress /\ Emptied /\ InitCompletes

-----------------------------------------------------------------------------
\* The head and the tail of a sequence that is not empty.
LEMMA HeadTail ==
    ASSUME NEW T, NEW s \in Seq(T), s # <<>>
    PROVE  /\ Head(s) \in T /\ Tail(s) \in Seq(T)
           /\ Range(s) = {Head(s)} \cup Range(Tail(s))
           /\ Head(s) = s[1]
           /\ \A i \in DOMAIN Tail(s) : i + 1 \in DOMAIN s /\ Tail(s)[i] = s[i + 1]
<1>1. /\ Head(s) \in T /\ Tail(s) \in Seq(T)
      /\ Len(s) \in Nat \ {0} /\ Len(Tail(s)) = Len(s) - 1
      /\ Head(s) = s[1] /\ 1 \in DOMAIN s
      /\ \A i \in 1..Len(Tail(s)) : Tail(s)[i] = s[i + 1]
      /\ DOMAIN s = 1..Len(s) /\ DOMAIN Tail(s) = 1..Len(Tail(s))
  OBVIOUS
<1>2. ASSUME NEW x \in Range(s)
      PROVE  x = Head(s) \/ x \in Range(Tail(s))
  <2>1. PICK i \in 1..Len(s) : x = s[i]
    BY <1>1, <1>2 DEF Range
  <2>2. i # 1 => i - 1 \in 1..Len(Tail(s)) /\ Tail(s)[i - 1] = s[i]
    BY <1>1, <2>1
  <2>3. QED
    BY <1>1, <2>1, <2>2 DEF Range
<1>3. ASSUME NEW x \in Range(Tail(s))
      PROVE  x \in Range(s)
  BY <1>1, <1>3 DEF Range
<1>4. QED
  BY <1>1, <1>2, <1>3 DEF Range

\* init() has to send whatever a complete schema needs, and drops the schema
\* first or not at all.
LEMMA StatementsOfInit ==
    ASSUME order \in Orders, NEW drop \in BOOLEAN
    PROVE  /\ InitStatements(drop) \in Seq(Statement) \ {<<>>}
           /\ Owed \subseteq Range(InitStatements(drop))
           /\ drop => Head(InitStatements(drop)).op = "drop"
           /\ \A i \in DOMAIN InitStatements(drop) :
                 i # 1 \/ ~drop => InitStatements(drop)[i].op # "drop"
<1> DEFINE rest == <<S("schema"), S("use"), S("UuidToBin"), S("BinToUuid")>>
           head == IF drop THEN <<S("drop")>> ELSE <<>>
           tail == rest \o Creates \o Alters
<1>1. /\ Creates \in Seq(Statement) /\ Alters \in Seq(Statement)
      /\ \A i \in DOMAIN order : Creates[i].op # "drop" /\ Alters[i].op # "drop"
  <2>1. Cardinality(Table) \in Nat
    BY SchemaAssumption, FS_CardinalityType
  <2>2. order \in [1..Cardinality(Table) -> Table]
    BY DEF Orders
  <2>3. /\ Creates \in [1..Cardinality(Table) -> Statement]
        /\ Alters \in [1..Cardinality(Table) -> Statement]
    BY <2>2 DEF Creates, Alters, Statement
  <2>4. \A i \in DOMAIN order : Creates[i].op # "drop" /\ Alters[i].op # "drop"
    BY DEF Creates, Alters
  <2>5. QED
    BY <2>1, <2>3, <2>4, SeqDef
<1>2. rest \in Seq(Statement) /\ head \in Seq(Statement)
  <2>1. /\ S("drop") \in Statement /\ S("schema") \in Statement
        /\ S("use") \in Statement /\ S("UuidToBin") \in Statement
        /\ S("BinToUuid") \in Statement
    BY DEF Statement, S, Function
  <2>2. QED
    BY <2>1
<1>3. [op : {"create", "alter"}, table : Table] \subseteq Range(Creates) \cup Range(Alters)
  <2>1. ASSUME NEW s \in [op : {"create", "alter"}, table : Table]
        PROVE  s \in Range(Creates) \cup Range(Alters)
    <3>1. PICK i \in DOMAIN order : order[i] = s.table
      BY DEF Orders, Range
    <3>2. CASE s.op = "create"
      BY <3>1, <3>2 DEF Creates, Range
    <3>3. CASE s.op = "alter"
      BY <3>1, <3>3 DEF Alters, Range
    <3>4. QED
      BY <3>2, <3>3
  <2>2. QED
    BY <2>1
<1>4. /\ S("schema") \in Range(rest) /\ S("use") \in Range(rest)
      /\ S("UuidToBin") \in Range(rest) /\ S("BinToUuid") \in Range(rest)
  <2>1. /\ rest[1] = S("schema") /\ rest[2] = S("use")
        /\ rest[3] = S("UuidToBin") /\ rest[4] = S("BinToUuid")
    OBVIOUS
  <2>2. DOMAIN rest = 1..4
    OBVIOUS
  <2>3. QED
    BY <2>1, <2>2 DEF Range
<1> HIDE DEF rest, head
<1>assoc. \A s, t, u \in Seq(Statement) : (s \o t) \o u = s \o (t \o u)
  BY ConcatAssociative
<1>concat. \A s, t \in Seq(Statement) :
         /\ s \o t \in Seq(Statement)
         /\ Range(s \o t) = Range(s) \cup Range(t)
  BY ConcatProperties, RangeConcatenation
<1>5. /\ tail \in Seq(Statement) /\ rest \o Creates \in Seq(Statement)
      /\ Range(tail) = Range(rest) \cup Range(Creates) \cup Range(Alters)
  <2>1. /\ rest \o Creates \in Seq(Statement)
        /\ Range(rest \o Creates) = Range(rest) \cup Range(Creates)
    BY <1>1, <1>2, <1>concat
  <2>2. /\ tail \in Seq(Statement)
        /\ Range(tail) = Range(rest \o Creates) \cup Range(Alters)
    BY <1>1, <2>1, <1>concat
  <2>3. QED
    BY <2>1, <2>2
<1>6. \A s \in Range(tail) : s.op # "drop"
  <2>1. \A s \in Range(Creates) \cup Range(Alters) : s.op # "drop"
    BY <1>1 DEF Range, Creates, Alters
  <2>2. \A i \in DOMAIN rest : rest[i].op # "drop"
    BY DEF S, rest
  <2>3. \A s \in Range(rest) : s.op # "drop"
    BY <2>2 DEF Range
  <2>4. QED
    BY <1>5, <2>1, <2>3
<1> HIDE DEF tail
<1>7. /\ InitStatements(drop) = head \o tail
      /\ InitStatements(drop) \in Seq(Statement)
      /\ Range(InitStatements(drop)) = Range(head) \cup Range(tail)
  <2>1. InitStatements(drop) = head \o tail
    <3>1. (head \o rest) \o Creates = head \o (rest \o Creates)
      BY <1>1, <1>2, <1>assoc
    <3>2. (head \o (rest \o Creates)) \o Alters = head \o tail
      BY <1>1, <1>2, <1>5, <1>assoc DEF tail
    <3>3. QED
      BY <3>1, <3>2 DEF InitStatements, Preamble, head, rest
  <2>2. QED
    BY <1>2, <1>5, <1>concat, <2>1
<1>8. Owed \subseteq Range(InitStatements(drop))
  BY <1>3, <1>4, <1>5, <1>7 DEF Owed
<1>9. CASE drop
  <2>1. /\ InitStatements(drop)[1] = S("drop")
        /\ Len(InitStatements(drop)) = 1 + Len(tail)
        /\ \A i \in 1..1 + Len(tail) :
              i # 1 => i - 1 \in DOMAIN tail /\ InitStatements(drop)[i] = tail[i - 1]
    <3>1. head \in Seq(Statement) /\ Len(head) = 1 /\ head[1] = S("drop")
      BY <1>2, <1>9 DEF head
    <3>2. Len(tail) \in Nat /\ DOMAIN tail = 1..Len(tail)
      BY <1>5
    <3>3. /\ Len(head \o tail) = 1 + Len(tail)
          /\ \A i \in 1..1 + Len(tail) :
                (head \o tail)[i] = IF i <= 1 THEN head[i] ELSE tail[i - 1]
      <4>1. /\ Len(head \o tail) = Len(head) + Len(tail)
            /\ \A i \in 1..Len(head) + Len(tail) :
                  (head \o tail)[i] = IF i <= Len(head) THEN head[i]
                                      ELSE tail[i - Len(head)]
        BY <1>5, <3>1, ConcatProperties
      <4>2. QED
        BY <3>1, <4>1
    <3>4. QED
      BY <1>7, <3>1, <3>2, <3>3
  <2>2. DOMAIN InitStatements(drop) = 1..1 + Len(tail)
    BY <1>7, <2>1
  <2>3. InitStatements(drop) # <<>> /\ Head(InitStatements(drop)) = S("drop")
    BY <1>5, <1>7, <2>1
  <2>4. ASSUME NEW i \in DOMAIN InitStatements(drop), i # 1
        PROVE  InitStatements(drop)[i].op # "drop"
    <3>1. InitStatements(drop)[i] \in Range(tail)
      BY <2>1, <2>2, <2>4 DEF Range
    <3>2. QED
      BY <1>6, <3>1
  <2>5. Head(InitStatements(drop)).op = "drop"
    BY <2>3 DEF S
  <2>6. QED
    BY <1>7, <1>8, <1>9, <2>3, <2>4, <2>5
<1>10. CASE ~drop
  <2>1. InitStatements(drop) = tail
    <3>1. head = <<>>
      BY <1>10 DEF head
    <3>2. QED
      BY <1>5, <1>7, <3>1, ConcatEmptySeq
  <2>2. tail # <<>>
    BY <1>4, <1>5 DEF Range
  <2>3. QED
    BY <1>5, <1>6, <1>8, <1>10, <2>1, <2>2 DEF Range
<1>11. QED
  BY <1>9, <1>10

-----------------------------------------------------------------------------
\* Before the first init() nothing is sent and nothing was promised.
LEMMA InitInit == Init => InitInv
<1> SUFFICES ASSUME Init PROVE InitInv
  OBVIOUS
<1>1. TypeOK
  <2>1. order \in Orders /\ todo \in Seq(Statement)
    BY DEF Init
  <2>2. QED
    BY <2>1 DEF Init, TypeOK
<1>2. Progress /\ Emptied /\ InitCompletes
  BY DEF Init, Progress, Emptied, InitCompletes, Quiet
<1>3. QED
  BY <1>1, <1>2 DEF InitInv

\* The beginning of init(): everything is still to be sent.
LEMMA BeginPreserves ==
    ASSUME InitInv, NEW drop \in BOOLEAN, BeginInit(drop)
    PROVE  InitInv'
<1>1. /\ InitStatements(drop) \in Seq(Statement) \ {<<>>}
      /\ Owed \subseteq Range(InitStatements(drop))
      /\ drop => Head(InitStatements(drop)).op = "drop"
      /\ \A i \in DOMAIN InitStatements(drop) :
            i # 1 \/ ~drop => InitStatements(drop)[i].op # "drop"
  BY StatementsOfInit DEF InitInv, TypeOK
<1>2. TypeOK'
  BY <1>1 DEF InitInv, TypeOK, BeginInit, catalog, cache
<1>3. Progress'
  <2>1. \A i \in DOMAIN todo' : i # 1 => todo'[i].op # "drop"
    BY <1>1 DEF BeginInit
  <2>2. \A s \in Owed : s \in Range(todo')
    BY <1>1 DEF BeginInit
  <2>3. Owed' = Owed
    BY DEF Owed
  <2>4. QED
    BY <2>1, <2>2, <2>3 DEF Progress, BeginInit
<1>4. Emptied' /\ InitCompletes'
  BY <1>1 DEF Emptied, InitCompletes, Dropping, BeginInit
<1>5. QED
  BY <1>2, <1>3, <1>4 DEF InitInv

\* What is still to be sent after a statement of init(), and what the sent one
\* leaves behind.
LEMMA StatementAdvances ==
    ASSUME InitInv, InitStatement
    PROVE  \A s \in Owed : s \in Range(todo') \/ Effect(s)'
<1> DEFINE h == Head(todo)
<1>1. /\ todo \in Seq(Statement) /\ todo # <<>>
      /\ Range(todo) = {h} \cup Range(todo')
  BY HeadTail DEF InitInv, TypeOK, InitStatement, Quiet
<1>2. \A s \in Owed : s \in Range(todo) \/ (Effect(s) /\ ~Dropping)
  BY DEF InitInv, Progress, InitStatement
<1>3. ASSUME NEW s \in Owed, s \notin Range(todo')
      PROVE  Effect(s)'
  <2>1. CASE DropSchema
    <3>1. s.op # "drop" /\ h.op = "drop"
      BY <2>1 DEF Owed, S, DropSchema
    <3>2. QED
      BY <1>1, <1>2, <1>3, <3>1 DEF Dropping
  <2>2. CASE CreateSchema
    BY <1>1, <1>2, <1>3, <2>2 DEF Effect, CreateSchema, Owed, S, Function, References
  <2>3. CASE UseSchema
    BY <1>1, <1>2, <1>3, <2>3
    DEF Effect, UseSchema, Owed, S, Function, catalog, References
  <2>4. CASE CreateFunction
    BY <1>1, <1>2, <1>3, <2>4 DEF Effect, CreateFunction, Owed, S, Function, References
  <2>5. CASE CreateTable
    <3>1. h.table \in tables'
      BY <2>5 DEF CreateTable, InitStatement, Accepted, Accepts, catalog, Function
    <3>2. h.op = "create" /\ tables \subseteq tables'
          /\ UNCHANGED <<schema, function, linked, using>>
      BY <2>5 DEF CreateTable, catalog
    <3>3. QED
      BY <1>1, <1>2, <1>3, <3>1, <3>2 DEF Effect, Function, References
  <2>6. CASE AlterTable
    BY <1>1, <1>2, <1>3, <2>6 DEF Effect, AlterTable, Function, References
  <2>7. QED
    BY <2>1, <2>2, <2>3, <2>4, <2>5, <2>6 DEF InitStatement
<1>4. QED
  BY <1>3

\* What is known of the statement that is sent, and that it succeeds.
LEMMA SentStatement ==
    ASSUME InitInv, InitStatement
    PROVE  /\ Head(todo) \in Statement /\ todo' \in Seq(Statement)
           /\ Head(todo).op \in {"create", "alter"} => Head(todo).table \in Table
           /\ \A i \in DOMAIN todo' : todo'[i].op # "drop"
           /\ todo' # <<>> => Head(todo').op # "drop"
<1>1. /\ todo \in Seq(Statement) /\ todo # <<>> /\ todo' = Tail(todo)
      /\ \A i \in DOMAIN todo : i # 1 => todo[i].op # "drop"
  BY DEF InitInv, TypeOK, Progress, InitStatement, Quiet
<1>2. /\ Head(todo) \in Statement /\ todo' \in Seq(Statement)
      /\ \A i \in DOMAIN todo' : i + 1 \in DOMAIN todo /\ todo'[i] = todo[i + 1]
  BY <1>1, HeadTail
<1>3. Head(todo).op \in {"create", "alter"} => Head(todo).table \in Table
  BY <1>2 DEF Statement, Function
<1>4. ASSUME NEW i \in DOMAIN todo'
      PROVE  todo'[i].op # "drop"
  <2>1. i + 1 \in DOMAIN todo /\ i + 1 # 1 /\ todo'[i] = todo[i + 1]
    BY <1>2, <1>4
  <2>2. QED
    BY <1>1, <2>1
<1>5. todo' # <<>> => Head(todo').op # "drop"
  <2>1. todo' # <<>> => 1 \in DOMAIN todo' /\ Head(todo') = todo'[1]
    BY <1>2
  <2>2. QED
    BY <1>4, <2>1
<1>6. QED
  BY <1>2, <1>3, <1>4, <1>5

\* A statement of init() keeps the types: a row is put into a table that is there
\* and a foreign key added to one.
LEMMA StatementTypeOK ==
    ASSUME InitInv, InitStatement
    PROVE  TypeOK'
<1> DEFINE h == Head(todo)
<1>1. /\ h \in Statement /\ todo' \in Seq(Statement)
      /\ h.op \in {"create", "alter"} => h.table \in Table
  BY SentStatement
<1>2. /\ order' \in Orders' /\ recreate' \in BOOLEAN
      /\ result' \in {"none", "ok", "refused", "failed"}
      /\ stored' \in [Id -> Table \cup {NoTable}]
  BY DEF InitInv, TypeOK, InitStatement, Orders
<1>3. /\ schema' \in BOOLEAN /\ function' \subseteq Function
      /\ tables' \subseteq Table /\ linked' \subseteq tables'
      /\ rows' \subseteq tables' \X Id
      /\ using' \in BOOLEAN
      /\ text' \in [Table -> {"none", "create", "insert"}]
      /\ values' \in [Table -> Id \cup {Null}]
  <2>1. CASE DropSchema
    BY <2>1 DEF InitInv, TypeOK, DropSchema, cache
  <2>2. CASE CreateSchema
    BY <2>2 DEF InitInv, TypeOK, CreateSchema, cache
  <2>3. CASE UseSchema
    BY <2>3 DEF InitInv, TypeOK, UseSchema, catalog, cache
  <2>4. CASE CreateFunction
    BY <2>4 DEF InitInv, TypeOK, CreateFunction, cache
  <2>5. CASE CreateTable
    <3>1. h.op = "create" /\ h.table \in Table
      BY <1>1, <2>5 DEF CreateTable
    <3>2. CASE text[h.table] = "insert"
      <4>1. h.table \in tables /\ values[h.table] \in Id
        BY <3>1, <3>2 DEF InitInv, TypeOK, InitStatement, Accepted, Accepts, Function
      <4>2. rows' = rows \cup {<<h.table, values[h.table]>>}
            /\ UNCHANGED <<schema, function, tables, linked, using, text, values>>
        BY <2>5, <3>2 DEF CreateTable, catalog, cache
      <4>3. QED
        BY <4>1, <4>2 DEF InitInv, TypeOK
    <3>3. CASE text[h.table] # "insert"
      <4>1. /\ tables' = tables \cup {h.table}
            /\ text' = [text EXCEPT ![h.table] = "create"]
            /\ UNCHANGED <<schema, function, linked, rows, using, values>>
        BY <2>5, <3>3 DEF CreateTable
      <4>2. QED
        BY <3>1, <4>1 DEF InitInv, TypeOK
    <3>4. QED
      BY <3>2, <3>3
  <2>6. CASE AlterTable
    <3>1. h.op = "alter" /\ UNCHANGED <<schema, function, tables, rows, using, text, values>>
      BY <2>6 DEF AlterTable, cache
    <3>2. linked' \subseteq tables
      BY <2>6, <3>1 DEF InitInv, TypeOK, AlterTable, InitStatement, Accepted, Function
    <3>3. QED
      BY <3>1, <3>2 DEF InitInv, TypeOK
  <2>7. QED
    BY <2>1, <2>2, <2>3, <2>4, <2>5, <2>6 DEF InitStatement
<1>4. QED
  BY <1>1, <1>2, <1>3 DEF TypeOK

\* After a DROP, and after it, no statement of init() puts a row into a table.
LEMMA StatementEmptied ==
    ASSUME InitInv, InitStatement, recreate
    PROVE  rows' = {} /\ \A t \in tables' : text'[t] # "insert"
<1> DEFINE h == Head(todo)
<1>1. CASE DropSchema
  BY <1>1 DEF DropSchema
<1>2. CASE h.op # "drop"
  <2>1. rows = {} /\ \A t \in tables : text[t] # "insert"
    BY <1>2 DEF InitInv, Emptied, Dropping, InitStatement
  <2>2. CASE CreateTable
    <3>1. h.op = "create" /\ h.table \in Table
      BY <2>2, SentStatement DEF CreateTable
    <3>2. text[h.table] # "insert"
      BY <2>1, <3>1 DEF InitStatement, Accepted, Accepts, Function
    <3>3. /\ tables' = tables \cup {h.table} /\ rows' = rows
          /\ text' = [text EXCEPT ![h.table] = "create"]
      BY <2>2, <3>2 DEF CreateTable
    <3>4. QED
      BY <2>1, <3>1, <3>3 DEF InitInv, TypeOK
  <2>3. CASE CreateSchema \/ UseSchema \/ CreateFunction \/ AlterTable
    BY <2>1, <2>3
    DEF CreateSchema, UseSchema, CreateFunction, AlterTable, catalog, cache
  <2>4. QED
    BY <1>2, <2>2, <2>3 DEF InitStatement, DropSchema
<1>3. QED
  BY <1>1, <1>2
  DEF InitStatement, CreateSchema, UseSchema, CreateFunction, CreateTable, AlterTable,
      Function

\* A statement of init() preserves the invariant.
LEMMA StatementPreserves ==
    ASSUME InitInv, InitStatement
    PROVE  InitInv'
<1>1. TypeOK'
  BY StatementTypeOK
<1>2. \A s \in Owed : s \in Range(todo') \/ Effect(s)'
  BY StatementAdvances
<1>3. /\ result' = IF todo' = <<>> THEN "ok" ELSE "none"
      /\ recreate' = recreate
  BY DEF InitStatement
<1>4. Progress'
  <2>1. todo' # <<>> => ~Dropping'
    BY SentStatement DEF Dropping
  <2>2. \A i \in DOMAIN todo' : i # 1 => todo'[i].op # "drop"
    BY SentStatement
  <2>3. QED
    BY <1>2, <1>3, <2>1, <2>2 DEF Progress, Quiet
<1>5. Emptied'
  BY <1>3, StatementEmptied DEF Emptied
<1>6. InitCompletes'
  <2>1. SUFFICES ASSUME todo' = <<>> PROVE Complete'
    BY <1>3 DEF InitCompletes
  <2>2. \A s \in Owed : Effect(s)'
    BY <1>2, <2>1 DEF Range
  <2>3. schema' /\ Function \subseteq function'
    <3>1. S("schema") \in Owed /\ S("UuidToBin") \in Owed /\ S("BinToUuid") \in Owed
      BY DEF Owed
    <3>2. /\ S("schema").op = "schema" /\ S("UuidToBin").op = "UuidToBin"
          /\ S("BinToUuid").op = "BinToUuid"
      BY DEF S
    <3>3. QED
      BY <2>2, <3>1, <3>2 DEF Effect, Function
  <2>4. ASSUME NEW t \in Table
        PROVE  t \in tables' /\ (References(t) # {} => t \in linked')
    <3> DEFINE c == [op |-> "create", table |-> t]
               a == [op |-> "alter", table |-> t]
    <3>1. c \in Owed /\ a \in Owed
      BY DEF Owed
    <3>2. c.op = "create" /\ c.table = t /\ a.op = "alter" /\ a.table = t
      OBVIOUS
    <3> HIDE DEF c, a
    <3>3. t \in tables'
      BY <2>2, <3>1, <3>2 DEF Effect
    <3>4. References(t) # {} => t \in linked'
      BY <2>2, <3>1, <3>2 DEF Effect, References
    <3>5. QED
      BY <3>3, <3>4
  <2>5. tables' \subseteq Table /\ function' \subseteq Function
    BY <1>1 DEF TypeOK
  <2>6. QED
    BY <2>3, <2>4, <2>5 DEF Complete, References
<1>7. QED
  BY <1>1, <1>4, <1>5, <1>6 DEF InitInv

\* An init() that throws promises nothing.
LEMMA ThrowsPreserves ==
    ASSUME InitInv, InitThrows
    PROVE  InitInv'
<1>1. TypeOK'
  <2>1. todo' \in Seq(Statement)
    BY DEF InitThrows
  <2>2. text' \in [Table -> {"none", "create", "insert"}]
    BY DEF InitThrows, InitInv, TypeOK
  <2>3. result' \in {"refused", "failed"}
    BY DEF InitThrows
  <2>4. UNCHANGED <<order, schema, function, tables, linked, rows, using, values,
                    recreate, stored>>
    BY DEF InitThrows, catalog
  <2>5. QED
    BY <2>1, <2>2, <2>3, <2>4 DEF InitInv, TypeOK, Orders
<1>2. Progress' /\ Emptied' /\ InitCompletes'
  BY DEF InitThrows, Progress, Emptied, InitCompletes, Quiet
<1>3. QED
  BY <1>1, <1>2 DEF InitInv

\* Outside init() nothing takes a table, a function or a foreign key away.
LEMMA QuietPreserves ==
    ASSUME InitInv, TypeOK', Quiet, UNCHANGED <<catalog, todo, result>>
    PROVE  InitInv'
<1>1. Progress' /\ Emptied'
  BY DEF Progress, Emptied, Quiet
<1>2. InitCompletes'
  BY DEF InitInv, InitCompletes, Complete, References, catalog
<1>3. QED
  BY <1>1, <1>2 DEF InitInv

\* create() writes rows and takes over cached statements, nothing else.
LEMMA CreatePreserves ==
    ASSUME InitInv, NEW t \in Table, NEW k \in Id, Create(t, k)
    PROVE  InitInv'
<1>1. UNCHANGED <<order, schema, function, tables, linked, using, todo, recreate, result>>
  BY DEF Create, catalog, run
<1>2. rows' \subseteq tables' \X Id
  BY <1>1 DEF Create, InitInv, TypeOK
<1>3. /\ text' \in [Table -> {"none", "create", "insert"}]
      /\ values' \in [Table -> Id \cup {Null}]
      /\ stored' \in [Id -> Table \cup {NoTable}]
  BY DEF Create, InsertText, InsertValues, InitInv, TypeOK
<1>4. TypeOK'
  BY <1>1, <1>2, <1>3 DEF InitInv, TypeOK, Orders
<1>5. QED
  BY <1>1, <1>4, QuietPreserves DEF Create, catalog

\* A create() that throws has taken over the cached statements.
LEMMA CreateThrowsPreserves ==
    ASSUME InitInv, NEW t \in Table, NEW k \in Id, NEW u \in Chain(t),
           CreateThrows(t, k, u)
    PROVE  InitInv'
<1>1. UNCHANGED <<order, schema, function, tables, linked, rows, using, todo,
                  recreate, result, stored>>
  BY DEF CreateThrows, catalog, run
<1>2. /\ text' \in [Table -> {"none", "create", "insert"}]
      /\ values' \in [Table -> Id \cup {Null}]
  BY DEF CreateThrows, InsertText, InsertValues, InitInv, TypeOK
<1>3. TypeOK'
  BY <1>1, <1>2 DEF InitInv, TypeOK, Orders
<1>4. QED
  BY <1>1, <1>3, QuietPreserves DEF CreateThrows, catalog

\* destroy() takes rows away.
LEMMA DestroyPreserves ==
    ASSUME InitInv, NEW k \in Id, Destroy(k)
    PROVE  InitInv'
<1>1. UNCHANGED <<order, schema, function, tables, linked, using, text, values, todo,
                  recreate, result>>
  BY DEF Destroy, catalog, cache, run
<1>2. TypeOK'
  BY <1>1 DEF Destroy, InitInv, TypeOK, Orders
<1>3. QED
  BY <1>1, <1>2, QuietPreserves DEF Destroy, catalog

\* Another connection to the server only forgets USE.
LEMMA NewConnectionPreserves ==
    ASSUME InitInv, NewConnection
    PROVE  InitInv'
<1>1. UNCHANGED <<order, schema, function, tables, linked, rows, text, values, todo,
                  recreate, result, stored>>
  BY DEF NewConnection, catalog, cache, run
<1>2. TypeOK'
  BY <1>1 DEF NewConnection, InitInv, TypeOK, Orders
<1>3. QED
  BY <1>1, <1>2, QuietPreserves DEF NewConnection, catalog

\* A process that starts again has sent nothing and built nothing.
LEMMA RestartPreserves ==
    ASSUME InitInv, Restart
    PROVE  InitInv'
<1>1. UNCHANGED <<order, schema, function, tables, linked, rows, recreate, stored>>
  BY DEF Restart, catalog
<1>2. todo' \in Seq(Statement)
  BY DEF Restart
<1>3. TypeOK'
  BY <1>1, <1>2 DEF Restart, InitInv, TypeOK, Orders
<1>4. Progress' /\ Emptied' /\ InitCompletes'
  BY DEF Restart, Progress, Emptied, InitCompletes, Quiet
<1>5. QED
  BY <1>3, <1>4 DEF InitInv

\* Every step preserves the invariant.
LEMMA NextInitInv == InitInv /\ [Next]_vars => InitInv'
<1> SUFFICES ASSUME InitInv, [Next]_vars PROVE InitInv'
  OBVIOUS
<1>1. CASE \E drop \in BOOLEAN : BeginInit(drop)
  BY <1>1, BeginPreserves
<1>2. CASE InitStatement
  BY <1>2, StatementPreserves
<1>3. CASE InitThrows
  BY <1>3, ThrowsPreserves
<1>4. CASE \E t \in Table, k \in Id : Create(t, k)
  BY <1>4, CreatePreserves
<1>5. CASE \E t \in Table, k \in Id : \E u \in Chain(t) : CreateThrows(t, k, u)
  BY <1>5, CreateThrowsPreserves
<1>6. CASE \E k \in Id : Destroy(k)
  BY <1>6, DestroyPreserves
<1>7. CASE NewConnection
  BY <1>7, NewConnectionPreserves
<1>8. CASE Restart
  BY <1>8, RestartPreserves
<1>9. CASE UNCHANGED vars
  BY <1>9 DEF vars, catalog, cache, run, InitInv, TypeOK, Orders, Progress, Emptied,
              InitCompletes, Complete, Quiet, Dropping, Owed, Effect, References
<1>10. QED
  BY <1>1, <1>2, <1>3, <1>4, <1>5, <1>6, <1>7, <1>8, <1>9 DEF Next

\* InitInv is an invariant.
LEMMA InitInvariant == Spec => []InitInv
<1>1. Init => InitInv
  BY InitInit
<1>2. InitInv /\ [Next]_vars => InitInv'
  BY NextInitInv
<1>3. QED
  BY <1>1, <1>2, PTL DEF Spec

-----------------------------------------------------------------------------
\* The types of the model.
THEOREM InitTypeCorrect == Spec => []TypeOK
<1>1. InitInv => TypeOK
  BY DEF InitInv
<1>2. QED
  BY <1>1, InitInvariant, PTL

\* Whatever an earlier init() left undone, whatever was created in between and
\* wherever the process was interrupted: when schema_t::init() returns, the
\* schema, both functions, every table and every foreign key exist.
THEOREM InitLeavesCompleteSchema == Spec => []InitCompletes
<1>1. InitInv => InitCompletes
  BY DEF InitInv
<1>2. QED
  BY <1>1, InitInvariant, PTL

\* An init(true) that returns leaves an empty database, although a table
\* executes the INSERT of the last object created if it has one.
THEOREM RecreateLeavesNoRows == Spec => RecreateEmpties
<1>1. ASSUME InitInv, Next, recreate, result = "none", result' = "ok"
      PROVE  rows' = {}
  <2>1. InitStatement
    BY <1>1 DEF Next, BeginInit, InitThrows, Create, CreateThrows, Destroy,
                NewConnection, Restart, run
  <2>2. QED
    BY <1>1, <2>1, StatementEmptied
<1>2. InitInv /\ [Next]_vars =>
        [recreate /\ result = "none" /\ result' = "ok" => rows' = {}]_vars
  BY <1>1
<1>3. QED
  BY <1>2, InitInvariant, PTL DEF Spec, RecreateEmpties

-----------------------------------------------------------------------------
(***************************************************************************)
(* Why init() can be repeated.  Its statements are sent in the order of    *)
(* their ranks, so that whatever the next one needs has been sent; and the *)
(* rows of an object that was not destroyed are all there or none is: a    *)
(* DROP takes them all, and an INSERT that init() sends in the place of a  *)
(* CREATE TABLE is accepted for a destroyed object only.                   *)
(***************************************************************************)
Rank(s) == CASE s.op = "drop"       -> 0
             [] s.op = "schema"     -> 1
             [] s.op = "use"        -> 2
             [] s.op \in Function   -> 3
             [] s.op = "create"     -> 4
             [] s.op = "alter"      -> 5

Sorted(s) == \A i, j \in DOMAIN s : i <= j => Rank(s[i]) <= Rank(s[j])

HasRows(k) == Chain(stored[k]) \X {k} \subseteq rows

RowsTogether ==
    \A k \in Id : stored[k] # NoTable =>
       HasRows(k) \/ \A u \in Table : <<u, k>> \notin rows

InsertsKnown ==
    \A t \in tables :
       text[t] = "insert" /\ values[t] # Null /\ stored[values[t]] # NoTable
          => HasRows(values[t])

RepeatInv == InitInv /\ Sorted(todo) /\ RowsTogether /\ InsertsKnown

\* The chain of a table is closed under base tables.
LEMMA ChainClosed ==
    ASSUME NEW t \in Table
    PROVE  /\ t \in Chain(t) /\ Chain(t) \subseteq Table
           /\ \A u \in Chain(t) : BaseOf[u] # NoTable => BaseOf[u] \in Chain(t)
<1> DEFINE links == [u \in Table |-> {BaseOf[u]} \ {NoTable}]
<1>1. links \in [Table -> SUBSET Table]
  BY SchemaAssumption
<1>2. /\ Chain(t) \subseteq Table /\ {t} \cap Table \subseteq Chain(t)
      /\ \A u \in Chain(t) : links[u] \subseteq Chain(t)
  <2> HIDE DEF links
  <2>1. Chain(t) = Closure({t}, Table, links)
    BY DEF Chain, links
  <2>2. IsFiniteSet(Table)
    BY SchemaAssumption
  <2>3. /\ Closure({t}, Table, links) \subseteq Table
        /\ {t} \cap Table \subseteq Closure({t}, Table, links)
        /\ \A u \in Closure({t}, Table, links) : links[u] \subseteq Closure({t}, Table, links)
    BY <1>1, <2>2, ClosureClosed
  <2>. QED BY <2>1, <2>3
<1>. QED BY <1>2

\* A foreign key refers to a table of the schema.
LEMMA ReferencesType ==
    ASSUME NEW t \in Table
    PROVE  References(t) \subseteq Table
<1>1. BaseOf[t] \in Table \cup {NoTable}
  BY SchemaAssumption
<1>2. ASSUME NEW f \in Range(OneFields[t]) PROVE RefOf[f] \in Table \cup {NoTable}
  <2>1. OneFields[t] \in Seq({g \in Field : IsOne(g)})
    BY FieldVectors
  <2>2. f \in Field
    BY <2>1 DEF Range
  <2>. QED BY <2>2, SchemaAssumption
<1>3. ASSUME NEW f \in ForeignKeyFields(t) PROVE TableOf(f) \in Table
  <2>1. \E u \in Table : f \in Range(FieldsOf[u])
    BY SchemaAssumption DEF ForeignKeyFields
  <2>. QED BY <2>1 DEF TableOf
<1>. QED BY <1>1, <1>2, <1>3 DEF References

\* The rank of a statement says what it is.
LEMMA RankType ==
    ASSUME NEW s \in Statement
    PROVE  /\ Rank(s) \in 0..5
           /\ Rank(s) = 0 <=> s.op = "drop"
           /\ Rank(s) = 1 <=> s.op = "schema"
           /\ Rank(s) = 2 <=> s.op = "use"
           /\ Rank(s) = 3 <=> s.op \in Function
           /\ Rank(s) = 4 <=> s.op = "create"
           /\ Rank(s) = 5 <=> s.op = "alter"
<1>1. s.op \in {"drop", "schema", "use", "create", "alter"} \cup Function
  BY DEF Statement
<1>. QED BY <1>1 DEF Rank, Function

\* Two sorted sequences make a sorted one if the first ends where the second
\* begins.
LEMMA SortedConcat ==
    ASSUME NEW a \in Seq(Statement), NEW b \in Seq(Statement), NEW n \in Nat,
           Sorted(a), Sorted(b),
           \A i \in DOMAIN a : Rank(a[i]) <= n,
           \A i \in DOMAIN b : n <= Rank(b[i])
    PROVE  Sorted(a \o b)
<1>1. \A s \in Statement : Rank(s) \in Nat
  BY RankType
<1>2. /\ DOMAIN (a \o b) = 1..Len(a) + Len(b)
      /\ \A i \in 1..Len(a) + Len(b) :
            (a \o b)[i] = IF i <= Len(a) THEN a[i] ELSE b[i - Len(a)]
  OBVIOUS
<1>3. ASSUME NEW i \in DOMAIN (a \o b), NEW j \in DOMAIN (a \o b), i <= j
      PROVE  Rank((a \o b)[i]) <= Rank((a \o b)[j])
  <2>0. i \in Nat /\ j \in Nat /\ Len(a) \in Nat /\ Len(b) \in Nat
    BY <1>2
  <2>1. CASE j <= Len(a)
    <3>1. i \in DOMAIN a /\ j \in DOMAIN a /\ (a \o b)[i] = a[i] /\ (a \o b)[j] = a[j]
      BY <1>2, <1>3, <2>0, <2>1
    <3>. QED BY <3>1, <1>3 DEF Sorted
  <2>2. CASE i <= Len(a) /\ ~(j <= Len(a))
    <3>1. /\ i \in DOMAIN a /\ j - Len(a) \in DOMAIN b
          /\ (a \o b)[i] = a[i] /\ (a \o b)[j] = b[j - Len(a)]
      BY <1>2, <1>3, <2>0, <2>2
    <3>2. Rank(a[i]) <= n /\ n <= Rank(b[j - Len(a)])
      BY <3>1
    <3>3. Rank(a[i]) \in Nat /\ Rank(b[j - Len(a)]) \in Nat
      BY <1>1, <3>1
    <3>. QED BY <3>1, <3>2, <3>3
  <2>3. CASE ~(i <= Len(a))
    <3>1. /\ i - Len(a) \in DOMAIN b /\ j - Len(a) \in DOMAIN b
          /\ i - Len(a) <= j - Len(a)
          /\ (a \o b)[i] = b[i - Len(a)] /\ (a \o b)[j] = b[j - Len(a)]
      BY <1>2, <1>3, <2>0, <2>3
    <3>. QED BY <3>1 DEF Sorted
  <2>. QED BY <2>1, <2>2, <2>3
<1>. QED BY <1>3 DEF Sorted

\* init() sends its statements in the order of their ranks.
LEMMA StatementsSorted ==
    ASSUME order \in Orders, NEW drop \in BOOLEAN
    PROVE  Sorted(InitStatements(drop))
<1> DEFINE rest == <<S("schema"), S("use"), S("UuidToBin"), S("BinToUuid")>>
           head == IF drop THEN <<S("drop")>> ELSE <<>>
<1>1. /\ Creates \in Seq(Statement) /\ Alters \in Seq(Statement)
      /\ \A i \in DOMAIN Creates : Rank(Creates[i]) = 4
      /\ \A i \in DOMAIN Alters : Rank(Alters[i]) = 5
  <2>1. Cardinality(Table) \in Nat /\ order \in [1..Cardinality(Table) -> Table]
    BY SchemaAssumption, FS_CardinalityType DEF Orders
  <2>2. /\ Creates \in [1..Cardinality(Table) -> Statement]
        /\ Alters \in [1..Cardinality(Table) -> Statement]
        /\ \A i \in 1..Cardinality(Table) : Creates[i].op = "create" /\ Alters[i].op = "alter"
    BY <2>1 DEF Creates, Alters, Statement
  <2>3. Creates \in Seq(Statement) /\ Alters \in Seq(Statement)
    BY <2>1, <2>2, SeqDef
  <2>. QED BY <2>2, <2>3, RankType
<1>2. Sorted(Creates) /\ Sorted(Alters)
  BY <1>1 DEF Sorted
<1>3. /\ head \in Seq(Statement) /\ Sorted(head)
      /\ \A i \in DOMAIN head : Rank(head[i]) <= 0
  <2>1. S("drop") \in Statement /\ Rank(S("drop")) = 0
    BY DEF Statement, S, Rank, Function
  <2>. QED BY <2>1 DEF Sorted
<1>4. /\ rest \in Seq(Statement) /\ Sorted(rest)
      /\ \A i \in DOMAIN rest : 0 <= Rank(rest[i]) /\ Rank(rest[i]) <= 3
  <2>1. /\ S("schema") \in Statement /\ Rank(S("schema")) = 1
        /\ S("use") \in Statement /\ Rank(S("use")) = 2
        /\ S("UuidToBin") \in Statement /\ Rank(S("UuidToBin")) = 3
        /\ S("BinToUuid") \in Statement /\ Rank(S("BinToUuid")) = 3
    BY DEF Statement, S, Rank, Function
  <2> DEFINE r == [i \in 1..4 |-> IF i = 1 THEN 1 ELSE IF i = 2 THEN 2 ELSE 3]
  <2>2. /\ rest \in Seq(Statement) /\ DOMAIN rest = 1..4
        /\ \A i \in 1..4 : Rank(rest[i]) = r[i]
    BY <2>1
  <2>3. \A i, j \in 1..4 : 0 <= r[i] /\ r[i] <= 3 /\ (i <= j => r[i] <= r[j])
    OBVIOUS
  <2> HIDE DEF rest, r
  <2>. QED BY <2>2, <2>3 DEF Sorted
<1> HIDE DEF head, rest
<1>5. /\ head \o rest \in Seq(Statement) /\ Sorted(head \o rest)
      /\ \A i \in DOMAIN (head \o rest) : Rank((head \o rest)[i]) <= 4
  <2>1. Sorted(head \o rest)
    BY <1>3, <1>4, SortedConcat
  <2>2. ASSUME NEW i \in DOMAIN (head \o rest) PROVE Rank((head \o rest)[i]) <= 4
    <3>1. \/ i \in DOMAIN head /\ (head \o rest)[i] = head[i]
          \/ i - Len(head) \in DOMAIN rest /\ (head \o rest)[i] = rest[i - Len(head)]
      BY <1>3, <1>4
    <3>2. \A s \in Statement : Rank(s) \in Nat
      BY RankType
    <3>3. (head \o rest)[i] \in Statement
      BY <1>3, <1>4
    <3>. QED BY <1>3, <1>4, <3>1, <3>2, <3>3
  <2>. QED BY <1>3, <1>4, <2>1, <2>2
<1> DEFINE pre == head \o rest
<1> HIDE DEF pre
<1>6. /\ pre \o Creates \in Seq(Statement) /\ Sorted(pre \o Creates)
      /\ \A i \in DOMAIN (pre \o Creates) : Rank((pre \o Creates)[i]) <= 5
  <2>1. pre \in Seq(Statement) /\ Sorted(pre) /\ \A i \in DOMAIN pre : Rank(pre[i]) <= 4
    BY <1>5 DEF pre
  <2>2. \A i \in DOMAIN Creates : 4 <= Rank(Creates[i])
    BY <1>1
  <2>3. Sorted(pre \o Creates)
    BY <1>1, <1>2, <2>1, <2>2, SortedConcat
  <2>4. pre \o Creates \in Seq(Statement)
    BY <1>1, <2>1
  <2>5. \A i \in DOMAIN (pre \o Creates) : (pre \o Creates)[i] \in Statement
    BY <2>4
  <2>. QED BY <2>3, <2>4, <2>5, RankType
<1>7. Sorted((pre \o Creates) \o Alters)
  <2>1. \A i \in DOMAIN Alters : 5 <= Rank(Alters[i])
    BY <1>1
  <2>. QED BY <1>1, <1>2, <1>6, <2>1, SortedConcat
<1>. QED BY <1>7 DEF InitStatements, Preamble, pre, head, rest


\* After a statement the rest of them is sorted.
LEMMA SortedTail ==
    ASSUME NEW s \in Seq(Statement), s # <<>>, Sorted(s)
    PROVE  Sorted(Tail(s))
<1>1. \A i \in DOMAIN Tail(s) : i + 1 \in DOMAIN s /\ Tail(s)[i] = s[i + 1]
  BY HeadTail
<1>2. ASSUME NEW i \in DOMAIN Tail(s), NEW j \in DOMAIN Tail(s), i <= j
      PROVE  Rank(Tail(s)[i]) <= Rank(Tail(s)[j])
  <2>1. i + 1 <= j + 1
    BY <1>2
  <2>. QED BY <1>1, <2>1 DEF Sorted
<1>. QED BY <1>2 DEF Sorted

\* What has a smaller rank than the statement that is sent was sent before it.
LEMMA WasSent ==
    ASSUME InitInv, Sorted(todo), ~Quiet, NEW s \in Owed, Rank(s) < Rank(Head(todo))
    PROVE  Effect(s)
<1>1. todo \in Seq(Statement) /\ todo # <<>>
  BY DEF InitInv, TypeOK, Quiet
<1>2. ASSUME s \in Range(todo) PROVE FALSE
  <2>1. PICK i \in DOMAIN todo : todo[i] = s
    BY <1>2 DEF Range
  <2>2. 1 \in DOMAIN todo /\ Head(todo) = todo[1] /\ 1 <= i
    BY <1>1
  <2>3. Rank(Head(todo)) <= Rank(s)
    BY <2>1, <2>2 DEF Sorted
  <2>4. Rank(Head(todo)) \in Nat /\ Rank(s) \in Nat
    BY <1>1, <2>1, <2>2, RankType
  <2>. QED BY <2>3, <2>4
<1>. QED BY <1>2 DEF InitInv, Progress

\* If every row that is there is known and none of the statements was replaced,
\* the server accepts the next one.
LEMMA NextIsAccepted ==
    ASSUME RepeatInv, DestroyedStaysDestroyed, ~Quiet, \A t \in Table : text[t] # "insert"
    PROVE  Accepted(Head(todo))
<1> DEFINE h == Head(todo)
<1>1. h \in Statement /\ InitInv /\ Sorted(todo)
  BY HeadTail DEF RepeatInv, InitInv, TypeOK, Quiet
<1>2. /\ S("schema") \in Owed /\ S("use") \in Owed
      /\ S("schema").op = "schema" /\ S("use").op = "use"
      /\ Rank(S("schema")) = 1 /\ Rank(S("use")) = 2
  BY DEF Owed, S, Rank, Function
<1>3. h.op = "use" => schema
  <2> SUFFICES ASSUME h.op = "use" PROVE schema
    OBVIOUS
  <2>1. Rank(h) = 2
    BY <1>1, RankType
  <2>2. Effect(S("schema"))
    BY <1>1, <1>2, <2>1, WasSent
  <2>. QED BY <1>2, <2>2 DEF Effect
<1>4. h.op \in Function \cup {"create", "alter"} => using
  <2> SUFFICES ASSUME h.op \in Function \cup {"create", "alter"} PROVE using
    OBVIOUS
  <2>1. Rank(h) \in 3..5
    BY <1>1, RankType
  <2>2. Effect(S("use"))
    BY <1>1, <1>2, <2>1, WasSent
  <2>. QED BY <1>2, <2>2 DEF Effect
<1>5. h.op = "create" => h.table \in Table /\ text[h.table] # "insert"
  BY <1>1 DEF Statement, Function
<1>6. h.op = "alter" => /\ {h.table} \cup References(h.table) \subseteq tables
                        /\ HasBaseRows(h.table)
  <2> SUFFICES ASSUME h.op = "alter"
               PROVE  {h.table} \cup References(h.table) \subseteq tables /\ HasBaseRows(h.table)
    OBVIOUS
  <2>1. h.table \in Table /\ Rank(h) = 5
    BY <1>1, RankType DEF Statement, Function
  <2>2. ASSUME NEW t \in Table PROVE t \in tables
    <3> DEFINE c == [op |-> "create", table |-> t]
    <3>1. c \in Owed /\ c.op = "create" /\ c.table = t /\ c \in Statement
      BY DEF Owed, Statement
    <3> HIDE DEF c
    <3>2. Rank(c) = 4
      BY <3>1, RankType
    <3>3. Effect(c)
      BY <1>1, <2>1, <3>1, <3>2, WasSent
    <3>. QED BY <3>1, <3>3 DEF Effect
  <2>3. {h.table} \cup References(h.table) \subseteq tables
    BY <2>1, <2>2, ReferencesType
  <2>4. ASSUME BaseOf[h.table] # NoTable, NEW k \in Id, <<h.table, k>> \in rows
        PROVE  <<BaseOf[h.table], k>> \in rows
    <3>1. stored[k] # NoTable /\ h.table \in Chain(stored[k])
      BY <2>4 DEF DestroyedStaysDestroyed
    <3>2. stored[k] \in Table
      BY <1>1, <3>1 DEF InitInv, TypeOK
    <3>3. HasRows(k)
      BY <2>1, <2>4, <3>1 DEF RepeatInv, RowsTogether
    <3>4. BaseOf[h.table] \in Chain(stored[k])
      BY <2>4, <3>1, <3>2, ChainClosed
    <3>. QED BY <3>3, <3>4 DEF HasRows
  <2>. QED BY <2>3, <2>4 DEF HasBaseRows
<1>. QED BY <1>3, <1>4, <1>5, <1>6 DEF Accepted

-----------------------------------------------------------------------------
\* A statement of init() keeps the rows of an object together: a DROP takes
\* them all, and the server refuses the INSERT of one that is there.
LEMMA StatementKeepsRows ==
    ASSUME RepeatInv, InitStatement
    PROVE  RowsTogether' /\ InsertsKnown'
<1> DEFINE h == Head(todo)
<1>1. InitInv /\ RowsTogether /\ InsertsKnown /\ TypeOK
  BY DEF RepeatInv, InitInv
<1>2. stored' = stored
  BY DEF InitStatement
<1>3. CASE DropSchema
  <2>1. rows' = {} /\ tables' = {}
    BY <1>3 DEF DropSchema
  <2>. QED BY <2>1 DEF RowsTogether, InsertsKnown
<1>4. CASE UNCHANGED <<rows, tables, text, values>>
  BY <1>1, <1>2, <1>4 DEF RowsTogether, InsertsKnown, HasRows
<1>5. CASE CreateTable
  <2>1. h.op = "create" /\ h.table \in Table
    BY <1>1, <1>5, SentStatement DEF CreateTable
  <2>2. CASE text[h.table] = "insert"
    <3> DEFINE v == values[h.table]
    <3>1. /\ Accepts(h.table, v)
          /\ rows' = rows \cup {<<h.table, v>>}
          /\ UNCHANGED <<tables, text, values>>
      BY <1>5, <2>1, <2>2 DEF InitStatement, Accepted, CreateTable, catalog, cache, Function
    <3>2. v \in Id /\ h.table \in tables
      BY <1>1, <2>1, <3>1 DEF TypeOK, Accepts
    <3>3. stored[v] # NoTable => HasRows(v)
      BY <1>1, <2>2, <3>1, <3>2 DEF InsertsKnown, Accepts
    <3>4. ASSUME NEW k \in Id, HasRows(k) PROVE HasRows(k)'
      BY <1>2, <3>1, <3>4 DEF HasRows
    <3>5. ASSUME NEW k \in Id, stored'[k] # NoTable
          PROVE  HasRows(k)' \/ \A u \in Table : <<u, k>> \notin rows'
      <4>1. CASE k = v
        BY <1>2, <3>3, <3>4, <3>5, <4>1
      <4>2. CASE k # v
        <5>1. HasRows(k) \/ \A u \in Table : <<u, k>> \notin rows
          BY <1>1, <1>2, <3>5 DEF RowsTogether
        <5>. QED BY <3>1, <3>4, <4>2, <5>1
      <4>. QED BY <4>1, <4>2
    <3>6. ASSUME NEW t \in tables', text'[t] = "insert", values'[t] # Null,
                 stored'[values'[t]] # NoTable
          PROVE  HasRows(values[t])'
      <4>1. values[t] \in Id /\ HasRows(values[t])
        BY <1>1, <1>2, <3>1, <3>6 DEF InsertsKnown, TypeOK
      <4>. QED BY <1>2, <3>1, <4>1 DEF HasRows
    <3>. QED BY <3>1, <3>5, <3>6 DEF RowsTogether, InsertsKnown, HasRows
  <2>3. CASE text[h.table] # "insert"
    <3>1. /\ tables' = tables \cup {h.table}
          /\ text' = [text EXCEPT ![h.table] = "create"]
          /\ UNCHANGED <<rows, values>>
      BY <1>5, <2>3 DEF CreateTable
    <3>2. \A t \in tables' : text'[t] = "insert" => t \in tables /\ text[t] = "insert"
      BY <1>1, <2>1, <3>1 DEF TypeOK
    <3>. QED BY <1>1, <1>2, <3>1, <3>2 DEF RowsTogether, InsertsKnown, HasRows
  <2>. QED BY <2>2, <2>3
<1>. QED
  BY <1>3, <1>4, <1>5
  DEF InitStatement, CreateSchema, UseSchema, CreateFunction, AlterTable, catalog, cache

\* A new object has all its rows, and nobody else uses its name.
LEMMA CreateKeepsRows ==
    ASSUME RepeatInv, NEW t \in Table, NEW k \in Id, Create(t, k)
    PROVE  RowsTogether' /\ InsertsKnown'
<1>1. RowsTogether /\ InsertsKnown /\ TypeOK
  BY DEF RepeatInv, InitInv
<1>2. /\ rows' = rows \cup (Chain(t) \X {k})
      /\ stored' = [stored EXCEPT ![k] = t]
      /\ text' = InsertText(t) /\ values' = InsertValues(t, k, t)
      /\ UNCHANGED <<tables>>
  BY DEF Create, catalog
<1>3. /\ stored[k] = NoTable
      /\ \A u \in Table : <<u, k>> \notin rows /\ values[u] # k
  BY DEF Create, IsFresh
<1>4. stored'[k] = t /\ \A j \in Id \ {k} : stored'[j] = stored[j]
  BY <1>1, <1>2 DEF TypeOK
<1>5. HasRows(k)'
  BY <1>2, <1>4 DEF HasRows
<1>6. ASSUME NEW j \in Id \ {k}, HasRows(j) PROVE HasRows(j)'
  BY <1>2, <1>4, <1>6 DEF HasRows
<1>7. ASSUME NEW j \in Id, stored'[j] # NoTable
      PROVE  HasRows(j)' \/ \A u \in Table : <<u, j>> \notin rows'
  <2>1. CASE j = k
    BY <1>5, <2>1
  <2>2. CASE j # k
    <3>1. HasRows(j) \/ \A u \in Table : <<u, j>> \notin rows
      BY <1>1, <1>4, <1>7, <2>2 DEF RowsTogether
    <3>. QED BY <1>2, <1>6, <2>2, <3>1
  <2>. QED BY <2>1, <2>2
<1>8. ASSUME NEW u \in tables', text'[u] = "insert", values'[u] # Null,
             stored'[values'[u]] # NoTable
      PROVE  Chain(stored'[values'[u]]) \X {values'[u]} \subseteq rows'
  <2>0. u \in Table
    BY <1>1, <1>2, <1>8 DEF TypeOK
  <2>1. CASE u \in Chain(t)
    <3>1. values'[u] = k
      BY <1>2, <2>0, <2>1 DEF InsertValues
    <3>. QED BY <1>5, <3>1 DEF HasRows
  <2>2. CASE u \notin Chain(t)
    <3>1. values'[u] = values[u] /\ text'[u] = text[u]
      BY <1>2, <2>0, <2>2 DEF InsertValues, InsertText
    <3>2. values[u] \in Id \ {k}
      BY <1>1, <1>3, <1>8, <2>0, <3>1 DEF TypeOK
    <3>3. HasRows(values[u])
      BY <1>1, <1>2, <1>4, <1>8, <3>1, <3>2 DEF InsertsKnown
    <3>. QED BY <1>2, <1>4, <3>1, <3>2, <3>3 DEF HasRows
  <2>. QED BY <2>1, <2>2
<1>. QED BY <1>7, <1>8 DEF RowsTogether, InsertsKnown, HasRows

\* A create() that throws leaves values of an object that is not there.
LEMMA CreateThrowsKeepsRows ==
    ASSUME RepeatInv, NEW t \in Table, NEW k \in Id, NEW u \in Chain(t),
           CreateThrows(t, k, u)
    PROVE  RowsTogether' /\ InsertsKnown'
<1>1. RowsTogether /\ InsertsKnown /\ TypeOK
  BY DEF RepeatInv, InitInv
<1>2. /\ text' = InsertText(t) /\ values' = InsertValues(t, k, u)
      /\ UNCHANGED <<tables, rows, stored>> /\ stored[k] = NoTable
  BY DEF CreateThrows, IsFresh, catalog
<1>3. u \in Table
  BY ChainClosed
<1>4. ASSUME NEW v \in tables', text'[v] = "insert", values'[v] # Null,
             stored'[values'[v]] # NoTable
      PROVE  Chain(stored'[values'[v]]) \X {values'[v]} \subseteq rows'
  <2>0. v \in Table
    BY <1>1, <1>2, <1>4 DEF TypeOK
  <2>1. v \notin Chain(u) /\ v \notin Chain(t)
    BY <1>2, <1>4, <2>0 DEF InsertValues
  <2>2. values'[v] = values[v] /\ text'[v] = text[v]
    BY <1>2, <2>0, <2>1 DEF InsertValues, InsertText
  <2>. QED BY <1>1, <1>2, <1>4, <2>2 DEF InsertsKnown, HasRows
<1>. QED BY <1>1, <1>2, <1>4 DEF RowsTogether, InsertsKnown, HasRows

\* A destroyed object has no rows; the others have theirs.
LEMMA DestroyKeepsRows ==
    ASSUME RepeatInv, NEW k \in Id, Destroy(k)
    PROVE  RowsTogether' /\ InsertsKnown'
<1>1. RowsTogether /\ InsertsKnown /\ TypeOK
  BY DEF RepeatInv, InitInv
<1>2. /\ rows' = rows \ (Table \X {k})
      /\ stored' = [stored EXCEPT ![k] = NoTable]
      /\ UNCHANGED <<tables, text, values>>
  BY DEF Destroy, catalog, cache
<1>3. stored'[k] = NoTable /\ \A j \in Id \ {k} : stored'[j] = stored[j]
  BY <1>1, <1>2 DEF TypeOK
<1>4. ASSUME NEW j \in Id \ {k}, HasRows(j) PROVE HasRows(j)'
  BY <1>2, <1>3, <1>4 DEF HasRows
<1>5. ASSUME NEW j \in Id, stored'[j] # NoTable
      PROVE  HasRows(j)' \/ \A u \in Table : <<u, j>> \notin rows'
  <2>1. j \in Id \ {k}
    BY <1>3, <1>5
  <2>2. HasRows(j) \/ \A u \in Table : <<u, j>> \notin rows
    BY <1>1, <1>3, <1>5, <2>1 DEF RowsTogether
  <2>. QED BY <1>2, <1>4, <2>1, <2>2
<1>6. ASSUME NEW v \in tables', text'[v] = "insert", values'[v] # Null,
             stored'[values'[v]] # NoTable
      PROVE  Chain(stored'[values'[v]]) \X {values'[v]} \subseteq rows'
  <2>1. values[v] \in Id \ {k}
    BY <1>1, <1>2, <1>3, <1>6 DEF TypeOK
  <2>2. HasRows(values[v])
    BY <1>1, <1>2, <1>3, <1>6, <2>1 DEF InsertsKnown
  <2>. QED BY <1>2, <1>4, <2>1, <2>2 DEF HasRows
<1>. QED BY <1>5, <1>6 DEF RowsTogether, InsertsKnown, HasRows

\* Every step preserves the invariant.
LEMMA NextRepeatInv == RepeatInv /\ [Next]_vars => RepeatInv'
<1> SUFFICES ASSUME RepeatInv, [Next]_vars PROVE RepeatInv'
  OBVIOUS
<1>1. InitInv'
  BY NextInitInv DEF RepeatInv
<1>2. Sorted(<<>>)
  BY DEF Sorted
<1>3. Sorted(todo')
  <2>1. ASSUME NEW drop \in BOOLEAN, BeginInit(drop) PROVE Sorted(todo')
    BY <2>1, StatementsSorted DEF BeginInit, RepeatInv, InitInv, TypeOK
  <2>2. CASE InitStatement
    BY <2>2, SortedTail DEF InitStatement, RepeatInv, InitInv, TypeOK, Quiet
  <2>3. CASE InitThrows \/ Restart
    BY <1>2, <2>3 DEF InitThrows, Restart
  <2>4. CASE todo' = todo
    BY <2>4 DEF RepeatInv
  <2>. QED
    BY <2>1, <2>2, <2>3, <2>4
    DEF Next, Create, CreateThrows, Destroy, NewConnection, run, vars
<1>4. RowsTogether' /\ InsertsKnown'
  <2>1. CASE InitStatement
    BY <2>1, StatementKeepsRows
  <2>2. ASSUME NEW t \in Table, NEW k \in Id, Create(t, k)
        PROVE  RowsTogether' /\ InsertsKnown'
    BY <2>2, CreateKeepsRows
  <2>3. ASSUME NEW t \in Table, NEW k \in Id, NEW u \in Chain(t), CreateThrows(t, k, u)
        PROVE  RowsTogether' /\ InsertsKnown'
    BY <2>3, CreateThrowsKeepsRows
  <2>4. ASSUME NEW k \in Id, Destroy(k) PROVE RowsTogether' /\ InsertsKnown'
    BY <2>4, DestroyKeepsRows
  <2>5. CASE InitThrows
    <3>1. UNCHANGED <<tables, rows, values, stored>>
      BY <2>5 DEF InitThrows, catalog
    <3>2. \A t \in Table : text'[t] = "insert" => text[t] = "insert"
      BY <2>5 DEF InitThrows, RepeatInv, InitInv, TypeOK
    <3>3. tables \subseteq Table
      BY DEF RepeatInv, InitInv, TypeOK
    <3>. QED BY <3>1, <3>2, <3>3 DEF RepeatInv, RowsTogether, InsertsKnown, HasRows
  <2>6. CASE Restart
    <3>1. UNCHANGED <<tables, rows, stored>> /\ text' = [t \in Table |-> "none"]
      BY <2>6 DEF Restart, catalog
    <3>2. tables \subseteq Table
      BY DEF RepeatInv, InitInv, TypeOK
    <3>. QED BY <3>1, <3>2 DEF RepeatInv, RowsTogether, InsertsKnown, HasRows
  <2>7. CASE UNCHANGED <<tables, rows, text, values, stored>>
    BY <2>7 DEF RepeatInv, RowsTogether, InsertsKnown, HasRows
  <2>. QED
    BY <2>1, <2>2, <2>3, <2>4, <2>5, <2>6, <2>7
    DEF Next, BeginInit, NewConnection, vars, catalog, cache
<1>. QED BY <1>1, <1>3, <1>4 DEF RepeatInv

\* Whatever an earlier init() left and whatever failed, the server accepts every
\* statement of init() unless create() has replaced one of them or a row is
\* there that should not be.
THEOREM InitRepeatable == Spec => InitIsRepeatable
<1>1. Init => RepeatInv
  <2> SUFFICES ASSUME Init PROVE RepeatInv
    OBVIOUS
  <2>1. Sorted(todo)
    BY DEF Init, Sorted
  <2>2. RowsTogether /\ InsertsKnown
    BY DEF Init, RowsTogether, InsertsKnown
  <2>. QED BY <2>1, <2>2, InitInit DEF RepeatInv
<1>2. ASSUME RepeatInv, Next, result = "none", result' = "refused",
             \A t \in Table : text[t] # "insert", DestroyedStaysDestroyed
      PROVE  FALSE
  <2>1. InitThrows
    BY <1>2 DEF Next, BeginInit, InitStatement, Create, CreateThrows, Destroy,
                NewConnection, Restart, run
  <2>. QED BY <1>2, <2>1, NextIsAccepted DEF InitThrows
<1>3. RepeatInv /\ [Next]_vars =>
        [result = "none" /\ result' = "refused" =>
           (\E t \in Table : text[t] = "insert") \/ ~DestroyedStaysDestroyed]_vars
  BY <1>2
<1>4. RepeatInv /\ [Next]_vars => RepeatInv'
  BY NextRepeatInv
<1>. QED BY <1>1, <1>3, <1>4, PTL DEF Spec, InitIsRepeatable

=============================================================================
