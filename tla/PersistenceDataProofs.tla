----------------------- MODULE PersistenceDataProofs -----------------------
(***************************************************************************)
(* What the engine does to the rows, for every schema, object graph and    *)
(* filter: the keys in the database always point to rows of the tables     *)
(* they should, and an update keeps the values its filter excludes.        *)
(***************************************************************************)
EXTENDS PersistenceProofs

\* A foreign key column, of whatever table, is NULL or the key of a row.
LinksAreKept(d) ==
    \A k \in Rows(d) : \A f \in Field : ~IsData(f) => d[k].col[f] \in Rows(d) \cup {Null}

IsKept(d) == KeysAreKept(d) /\ LinksAreKept(d)

-----------------------------------------------------------------------------
\* e is what d becomes when the rows gone are deleted: with each row go those
\* that cannot be without it, the rest keep all but the keys of what is gone.
Deleted(d, e, gone) ==
    /\ Rows(e) = Rows(d) \ gone
    /\ \A k \in gone : Cascaded(d, k) \subseteq gone
    /\ \A k \in Rows(d) \ gone :
          e[k] = [d[k] EXCEPT !.col =
                    [f \in Field |-> IF ~IsData(f) /\ d[k].col[f] \in gone
                                     THEN Null ELSE d[k].col[f]]]

\* A DELETE does that.
LEMMA DeleteRowsParts ==
    ASSUME NEW d \in [Key -> Row \cup {NoRow}], NEW S
    PROVE  \E gone \in SUBSET Key : Deleted(d, DeleteRows(d, S), gone)
<1> DEFINE joined == Closure(S, Key, [k \in Key |-> Joined(d, k)])
           gone == Closure(joined, Key, [k \in Key |-> Cascaded(d, k)])
           new(k) == [d[k] EXCEPT !.col =
                        [f \in Field |-> IF ~IsData(f) /\ d[k].col[f] \in gone
                                         THEN Null ELSE d[k].col[f]]]
<1>1. /\ gone \subseteq Key
      /\ \A k \in gone : Cascaded(d, k) \subseteq gone
  <2>1. [k \in Key |-> Cascaded(d, k)] \in [Key -> SUBSET Key]
    BY DEF Cascaded, Rows
  <2> HIDE DEF joined
  <2>2. /\ gone \subseteq Key
        /\ \A k \in gone : [j \in Key |-> Cascaded(d, j)][k] \subseteq gone
    BY <2>1, DatabaseAssumption, ClosureClosed
  <2> HIDE DEF gone
  <2>. QED BY <2>2
<1>2. DeleteRows(d, S) = [k \in Key |-> IF k \in gone \/ d[k] = NoRow THEN NoRow ELSE new(k)]
  BY DEF DeleteRows
<1> HIDE DEF gone
<1>3. ASSUME NEW k \in Key, d[k] # NoRow PROVE new(k) # NoRow
  <2>1. d[k] \in Row
    BY <1>3
  <2>2. new(k) \in Row
    <3> DEFINE c == [f \in Field |-> IF ~IsData(f) /\ d[k].col[f] \in gone
                                     THEN Null ELSE d[k].col[f]]
    <3>1. c \in [Field -> Key \cup Val \cup {Null}]
      BY <2>1 DEF Row
    <3> HIDE DEF c
    <3>2. [d[k] EXCEPT !.col = c] \in Row
      BY <2>1, <3>1 DEF Row
    <3>. QED BY <3>2 DEF c
  <2>. QED BY <2>2, RowAssumption
<1> HIDE DEF new
<1>4. Rows(DeleteRows(d, S)) = Rows(d) \ gone
  BY <1>2, <1>3 DEF Rows
<1>5. \A k \in Rows(d) \ gone : DeleteRows(d, S)[k] = new(k)
  BY <1>2 DEF Rows
<1>6. Deleted(d, DeleteRows(d, S), gone)
  BY <1>1, <1>4, <1>5 DEF new, Deleted
<1>. QED BY <1>1, <1>6

\* The columns of a row that stays.
LEMMA DeletedRow ==
    ASSUME NEW d \in [Key -> Row \cup {NoRow}], NEW e, NEW gone, Deleted(d, e, gone),
           NEW k \in Rows(e)
    PROVE  /\ k \in Rows(d) /\ k \notin gone /\ d[k] \in Row
           /\ e[k].table = d[k].table /\ e[k].base = d[k].base /\ e[k].idx = d[k].idx
           /\ \A f \in Field : e[k].col[f] = IF ~IsData(f) /\ d[k].col[f] \in gone
                                             THEN Null ELSE d[k].col[f]
<1> DEFINE c == [f \in Field |-> IF ~IsData(f) /\ d[k].col[f] \in gone
                                 THEN Null ELSE d[k].col[f]]
<1>1. k \in Rows(d) /\ k \notin gone /\ d[k] \in Row
  BY DEF Deleted, Rows
<1>2. e[k] = [d[k] EXCEPT !.col = c]
  BY <1>1 DEF Deleted
<1>3. \A f \in Field : c[f] = IF ~IsData(f) /\ d[k].col[f] \in gone
                               THEN Null ELSE d[k].col[f]
  OBVIOUS
<1> HIDE DEF c
<1>4. /\ e[k].table = d[k].table /\ e[k].base = d[k].base /\ e[k].idx = d[k].idx
      /\ e[k].col = c
  BY <1>1, <1>2 DEF Row
<1>. QED BY <1>1, <1>3, <1>4

\* What a row needs it has in every database that keeps the rows.
LEMMA SatisfiesGrows ==
    ASSUME NEW d, NEW e, NEW row,
           \A t : RowsOf(d, t) \subseteq RowsOf(e, t),
           SatisfiesKeys(d, row)
    PROVE  SatisfiesKeys(e, row)
BY DEF SatisfiesKeys

\* The columns of a table are one fields of its own and many fields of others.
LEMMA ColumnKinds ==
    ASSUME NEW t \in Table
    PROVE  /\ \A f \in Range(OneFields[t]) : f \in Field /\ IsOne(f)
           /\ \A f \in ForeignKeyFields(t) : f \in Field /\ IsMany(f)
           /\ \A f \in Range(DataFields[t]) : f \in Field /\ IsData(f)
           /\ \A f \in Range(ManyFields[t]) : f \in Field /\ IsMany(f)
<1> DEFINE ones == {f \in Field : IsOne(f)}
           manies == {f \in Field : IsMany(f)}
           datas == {f \in Field : IsData(f)}
<1>1. \A X : \A s \in Seq(X) : Range(s) \subseteq X
  BY DEF Range
<1>2. /\ OneFields[t] \in Seq(ones) /\ ManyFields[t] \in Seq(manies)
      /\ DataFields[t] \in Seq(datas)
  BY FieldVectors
<1> HIDE DEF ones, manies, datas
<1>3. /\ Range(OneFields[t]) \subseteq ones /\ Range(ManyFields[t]) \subseteq manies
      /\ Range(DataFields[t]) \subseteq datas
  BY <1>1, <1>2
<1>. QED BY <1>3 DEF ones, manies, datas, ForeignKeyFields

\* A DELETE leaves no key behind that points nowhere.
LEMMA DeleteRowsKeeps ==
    ASSUME NEW d \in [Key -> Row \cup {NoRow}], NEW S, IsKept(d)
    PROVE  IsKept(DeleteRows(d, S))
<1> DEFINE e == DeleteRows(d, S)
<1>1. PICK gone \in SUBSET Key : Deleted(d, e, gone)
  BY DeleteRowsParts
<1> HIDE DEF e
<1>2. ASSUME NEW k \in Rows(e)
      PROVE  /\ k \in Rows(d) /\ k \notin gone /\ d[k] \in Row
             /\ e[k].table = d[k].table /\ e[k].base = d[k].base
             /\ \A f \in Field : e[k].col[f] = IF ~IsData(f) /\ d[k].col[f] \in gone
                                               THEN Null ELSE d[k].col[f]
  BY <1>1, DeletedRow
<1>3. ASSUME NEW t PROVE RowsOf(e, t) = RowsOf(d, t) \ gone
  BY <1>1, <1>2 DEF RowsOf, Deleted
<1>4. ASSUME NEW k \in Rows(e) PROVE SatisfiesKeys(e, e[k])
  <2> DEFINE row == d[k]
             t == row.table
  <2>1. /\ k \in Rows(d) /\ k \notin gone /\ row \in Row /\ t \in Table
        /\ e[k].table = t /\ e[k].base = row.base
        /\ \A f \in Field : e[k].col[f] = IF ~IsData(f) /\ row.col[f] \in gone
                                          THEN Null ELSE row.col[f]
    BY <1>2 DEF Row
  <2>2. SatisfiesKeys(d, row)
    BY <2>1 DEF IsKept, KeysAreKept
  <2> HIDE DEF row
  <2>3. BaseOf[t] # NoTable => e[k].base \in RowsOf(e, BaseOf[t])
    <3> SUFFICES ASSUME BaseOf[t] # NoTable PROVE row.base \in RowsOf(e, BaseOf[t])
      BY <2>1
    <3>1. row.base \in RowsOf(d, BaseOf[t])
      BY <2>2 DEF SatisfiesKeys
    <3>2. row.base \notin gone
      <4>1. k \in Cascaded(d, row.base)
        BY <2>1 DEF Cascaded, row
      <4>. QED BY <1>1, <2>1, <4>1 DEF Deleted
    <3>. QED BY <1>3, <3>1, <3>2
  <2>4. ASSUME NEW f \in Range(OneFields[t]) \cup ForeignKeyFields(t)
        PROVE  \/ e[k].col[f] = Null /\ (IsMany(f) \/ f \in NullableField)
               \/ e[k].col[f] \in RowsOf(e, TargetOf(f))
    <3>1. f \in Field /\ ~IsData(f)
      BY <2>1, ColumnKinds DEF IsOne, IsMany, IsData
    <3>2. \/ row.col[f] = Null /\ (IsMany(f) \/ f \in NullableField)
          \/ row.col[f] \in RowsOf(d, TargetOf(f))
      BY <2>2 DEF SatisfiesKeys
    <3>3. CASE row.col[f] \in gone
      <4>1. e[k].col[f] = Null
        BY <2>1, <3>1, <3>3
      <4>2. IsMany(f) \/ f \in NullableField
        <5>1. SUFFICES ASSUME ~IsMany(f), f \notin NullableField PROVE FALSE
          OBVIOUS
        <5>2. f \in Range(OneFields[t])
          BY <2>1, <5>1, ColumnKinds
        <5>3. k \in Cascaded(d, row.col[f])
          BY <2>1, <5>1, <5>2 DEF Cascaded, row
        <5>. QED BY <1>1, <2>1, <3>3, <5>3 DEF Deleted
      <4>. QED BY <4>1, <4>2
    <3>4. CASE row.col[f] \notin gone
      <4>1. e[k].col[f] = row.col[f]
        BY <2>1, <3>1, <3>4
      <4>. QED BY <1>3, <3>2, <3>4, <4>1
    <3>. QED BY <3>3, <3>4
  <2>. QED BY <2>1, <2>3, <2>4 DEF SatisfiesKeys
<1>5. ASSUME NEW k \in Rows(e), NEW f \in Field, ~IsData(f)
      PROVE  e[k].col[f] \in Rows(e) \cup {Null}
  <2>1. d[k].col[f] \in Rows(d) \cup {Null}
    BY <1>2, <1>5 DEF IsKept, LinksAreKept
  <2>. QED BY <1>1, <1>2, <1>5, <2>1 DEF Deleted
<1>6. KeysAreKept(e)
  BY <1>4 DEF KeysAreKept
<1>7. LinksAreKept(e)
  BY <1>5 DEF LinksAreKept
<1>. QED BY <1>6, <1>7 DEF IsKept, e

\* Nor does the statement that takes the elements from their owner.
LEMMA UnlinkedKeeps ==
    ASSUME TypeOK, NEW f \in Field, IsMany(f), NEW k, IsKept(db)
    PROVE  /\ IsKept(Unlinked(f, k))
           /\ Rows(Unlinked(f, k)) = Rows(db)
           /\ \A r \in Rows(db) : \A g \in Field : g # f =>
                 /\ Unlinked(f, k)[r].col[g] = db[r].col[g]
                 /\ Unlinked(f, k)[r].idx[g] = db[r].idx[g]
<1> DEFINE e == Unlinked(f, k)
<1>1. db \in [Key -> Row \cup {NoRow}]
  BY DEF TypeOK
<1>2. ASSUME NEW r \in Rows(db)
      PROVE  /\ db[r] \in Row /\ e[r] \in Row
             /\ e[r].table = db[r].table /\ e[r].base = db[r].base
             /\ \A g \in Field : g # f => e[r].col[g] = db[r].col[g] /\ e[r].idx[g] = db[r].idx[g]
             /\ e[r].col[f] \in {db[r].col[f], Null}
  <2>1. r \in Key /\ db[r] \in Row
    BY <1>1 DEF Rows
  <2> DEFINE row == db[r]
             cut == [row EXCEPT !.col[f] = Null, !.idx[f] = 0]
  <2>2. e[r] \in {row, cut}
    BY <2>1 DEF Unlinked
  <2>3. /\ cut \in Row /\ cut.table = row.table /\ cut.base = row.base
        /\ \A g \in Field : g # f => cut.col[g] = row.col[g] /\ cut.idx[g] = row.idx[g]
        /\ cut.col[f] = Null
    <3> HIDE DEF row
    <3>1. row \in Row
      BY <2>1 DEF row
    <3>. QED BY <3>1 DEF Row
  <2> HIDE DEF e, cut
  <2>. QED BY <2>1, <2>2, <2>3
<1>3. Rows(e) = Rows(db)
  <2>1. DOMAIN e = Key /\ \A r \in Key : db[r] = NoRow => e[r] = NoRow
    BY DEF Unlinked, RowsOf, Rows
  <2> HIDE DEF e
  <2>. QED BY <1>2, <2>1, RowAssumption DEF Rows
<1> HIDE DEF e
<1>4. \A t : RowsOf(e, t) = RowsOf(db, t)
  BY <1>2, <1>3 DEF RowsOf
<1>5. ASSUME NEW r \in Rows(e) PROVE SatisfiesKeys(e, e[r])
  <2>1. SatisfiesKeys(db, db[r])
    BY <1>3 DEF IsKept, KeysAreKept
  <2> DEFINE t == db[r].table
  <2>2. t \in Table
    BY <1>2, <1>3 DEF Row
  <2>3. ASSUME NEW g \in Range(OneFields[t]) \cup ForeignKeyFields(t)
        PROVE  \/ e[r].col[g] = Null /\ (IsMany(g) \/ g \in NullableField)
               \/ e[r].col[g] \in RowsOf(e, TargetOf(g))
    <3>1. g \in Field
      BY <2>2, ColumnKinds
    <3>2. CASE g = f
      BY <1>2, <1>3, <1>4, <2>1, <3>2 DEF SatisfiesKeys
    <3>3. CASE g # f
      BY <1>2, <1>3, <1>4, <2>1, <3>1, <3>3 DEF SatisfiesKeys
    <3>. QED BY <3>2, <3>3
  <2>. QED BY <1>2, <1>3, <1>4, <2>1, <2>3 DEF SatisfiesKeys
<1>6. LinksAreKept(e)
  BY <1>2, <1>3 DEF IsKept, LinksAreKept
<1>. QED BY <1>2, <1>3, <1>5, <1>6 DEF IsKept, KeysAreKept, e

\* Nor does a row that satisfies its keys, new or in the place of one of its
\* table.
LEMMA WriteKeeps ==
    ASSUME NEW d \in [Key -> Row \cup {NoRow}], IsKept(d), NEW k \in Key, NEW row \in Row,
           SatisfiesKeys(d, row),
           k \in Rows(d) => d[k].table = row.table,
           \A f \in Field : ~IsData(f) => row.col[f] \in Rows(d) \cup {Null}
    PROVE  /\ IsKept([d EXCEPT ![k] = row])
           /\ Rows([d EXCEPT ![k] = row]) = Rows(d) \cup {k}
<1> DEFINE e == [d EXCEPT ![k] = row]
<1>1. /\ e[k] = row /\ DOMAIN e = Key
      /\ \A r \in Key : r # k => e[r] = d[r]
  OBVIOUS
<1>2. row # NoRow
  BY RowAssumption
<1> HIDE DEF e
<1>3. Rows(e) = Rows(d) \cup {k}
  BY <1>1, <1>2 DEF Rows
<1>4. \A t : RowsOf(d, t) \subseteq RowsOf(e, t)
  BY <1>1, <1>3 DEF RowsOf, Rows
<1>5. ASSUME NEW r \in Rows(e) PROVE SatisfiesKeys(e, e[r])
  <2>1. CASE r = k
    BY <1>1, <1>4, <2>1, SatisfiesGrows
  <2>2. CASE r # k
    <3>1. r \in Rows(d) /\ e[r] = d[r]
      BY <1>1, <1>3, <2>2 DEF Rows
    <3>2. SatisfiesKeys(d, d[r])
      BY <3>1 DEF IsKept, KeysAreKept
    <3>. QED BY <1>4, <3>1, <3>2, SatisfiesGrows
  <2>. QED BY <2>1, <2>2
<1>6. LinksAreKept(e)
  <2>1. ASSUME NEW r \in Rows(e), NEW f \in Field, ~IsData(f)
        PROVE  e[r].col[f] \in Rows(e) \cup {Null}
    <3>1. CASE r = k
      BY <1>1, <1>3, <2>1, <3>1
    <3>2. CASE r # k
      <4>1. r \in Rows(d) /\ e[r] = d[r]
        BY <1>1, <1>3, <3>2 DEF Rows
      <4>. QED BY <1>3, <2>1, <4>1 DEF IsKept, LinksAreKept
    <3>. QED BY <3>1, <3>2
  <2>. QED BY <2>1 DEF LinksAreKept
<1>. QED BY <1>3, <1>5, <1>6 DEF IsKept, KeysAreKept, e

-----------------------------------------------------------------------------
\* A function that has a new key and has not written its row.
Pending(f) ==
    f.kind = "exec" /\ ~f.ctx.upd /\ f.pc \in {"base", "one", "after", "write"}

\* The keys of such functions name no rows, nor did they when the call began,
\* and no two functions have the same.
KeysAreFresh ==
    /\ \A n \in DOMAIN stack :
         Pending(stack[n]) => stack[n].pk \notin Rows(db) \cup Rows(call.before)
    /\ \A m, n \in DOMAIN stack :
         m # n /\ Pending(stack[m]) /\ Pending(stack[n]) => stack[m].pk # stack[n].pk

\* A pending function is the one that ran, or its key is a new one.
Handed(f) == (Pending(Top) /\ f.pk = Top.pk) \/ f.pk \notin KnownKeys

\* The head of the stack is replaced; only the last of the new frames may be
\* pending, and only the key of a pending head may become a row.
LEMMA FreshReplaced ==
    ASSUME EngineInv, KeysAreFresh, ~Idle, UNCHANGED call,
           NEW X, NEW front \in Seq(X), stack' = front \o Rest,
           \A n \in DOMAIN front : Pending(front[n]) => n = Len(front) /\ Handed(front[n]),
           \A k \in Rows(db') \ Rows(db) :
              /\ Pending(Top) /\ k = Top.pk
              /\ \A n \in DOMAIN front : ~Pending(front[n])
    PROVE  KeysAreFresh'
<1>1. /\ Rest \in Seq(Frame) /\ Len(stack) = Len(Rest) + 1 /\ Top = stack[1]
      /\ \A n \in 1..Len(Rest) : Rest[n] = stack[n + 1]
      /\ stack \in Seq(Frame)
  BY StackParts DEF EngineInv, TypeOK
<1> HIDE DEF Frame
<1> DEFINE Y == X \cup Frame
<1>2. front \in Seq(Y) /\ Rest \in Seq(Y)
  BY <1>1
<1> DEFINE L == Len(front)
<1>3. /\ L \in Nat /\ DOMAIN front = 1..L /\ Len(Rest) \in Nat
      /\ DOMAIN stack' = 1..(L + Len(Rest))
      /\ \A n \in 1..L : stack'[n] = front[n]
      /\ \A n \in 1..Len(Rest) : stack'[n + L] = Rest[n]
  BY <1>2
<1> HIDE DEF Y, L
<1>4. ASSUME NEW n \in DOMAIN stack'
      PROVE  \/ n \in DOMAIN front /\ stack'[n] = front[n]
             \/ \E m \in DOMAIN stack : m # 1 /\ n = m + L - 1 /\ stack'[n] = stack[m]
  <2>1. CASE n \in 1..L
    BY <1>3, <2>1
  <2>2. CASE n \notin 1..L
    <3>1. n \in 1..(L + Len(Rest))
      BY <1>3
    <3>2. n - L \in 1..Len(Rest) /\ (n - L) + L = n
      BY <1>3, <2>2, <3>1
    <3>3. PICK i \in 1..Len(Rest) : i + L = n
      BY <3>2
    <3>4. stack'[n] = Rest[i] /\ Rest[i] = stack[i + 1]
      BY <1>1, <1>3, <3>3
    <3>5. i + 1 \in DOMAIN stack /\ i + 1 # 1 /\ n = (i + 1) + L - 1
      BY <1>1, <1>3, <3>3
    <3>. QED BY <3>4, <3>5
  <2>. QED BY <2>1, <2>2
<1>5. 1 \in DOMAIN stack
  BY <1>1, <1>3
<1>6. ASSUME NEW m \in DOMAIN stack, Pending(stack[m])
      PROVE  stack[m].pk \in KnownKeys
  BY <1>6 DEF KnownKeys, Pending
<1>7. Rows(db) \subseteq KnownKeys /\ Rows(call.before) \subseteq KnownKeys
  BY DEF KnownKeys
<1>8. ASSUME NEW n \in DOMAIN stack', Pending(stack'[n])
      PROVE  stack'[n].pk \notin Rows(db') \cup Rows(call.before)
  <2>1. CASE n \in DOMAIN front /\ stack'[n] = front[n]
    <3>1. Handed(front[n]) /\ Rows(db') \subseteq Rows(db)
      BY <1>8, <2>1
    <3>2. front[n].pk \notin Rows(db) \cup Rows(call.before)
      BY <1>1, <1>5, <1>7, <3>1 DEF Handed, KeysAreFresh
    <3>. QED BY <2>1, <3>1, <3>2
  <2>2. CASE \E m \in DOMAIN stack : m # 1 /\ stack'[n] = stack[m]
    <3>1. PICK m \in DOMAIN stack : m # 1 /\ stack'[n] = stack[m]
      BY <2>2
    <3>2. stack[m].pk \notin Rows(db) \cup Rows(call.before)
      BY <1>8, <3>1 DEF KeysAreFresh
    <3>3. Pending(Top) => stack[m].pk # Top.pk
      BY <1>1, <1>5, <1>8, <3>1 DEF KeysAreFresh
    <3>. QED BY <3>1, <3>2, <3>3
  <2>. QED BY <1>4, <2>1, <2>2
<1>9. ASSUME NEW i \in DOMAIN front, NEW m \in DOMAIN stack, m # 1,
             Pending(front[i]), Pending(stack[m])
      PROVE  front[i].pk # stack[m].pk
  <2>1. Handed(front[i])
    BY <1>9
  <2>. QED BY <1>1, <1>5, <1>6, <1>9, <2>1 DEF Handed, KeysAreFresh
<1>10. ASSUME NEW i \in DOMAIN stack', NEW j \in DOMAIN stack', i # j,
              Pending(stack'[i]), Pending(stack'[j])
       PROVE  stack'[i].pk # stack'[j].pk
  <2> DEFINE Pushed(n) == n \in DOMAIN front /\ stack'[n] = front[n]
             Kept(n, m) == m # 1 /\ n = m + L - 1 /\ stack'[n] = stack[m]
  <2>1. ~(Pushed(i) /\ Pushed(j))
    BY <1>10
  <2>2. CASE Pushed(i) /\ \E m \in DOMAIN stack : Kept(j, m)
    BY <1>9, <1>10, <2>2
  <2>3. CASE Pushed(j) /\ \E m \in DOMAIN stack : Kept(i, m)
    BY <1>9, <1>10, <2>3
  <2>4. CASE \E m, n \in DOMAIN stack : Kept(i, m) /\ Kept(j, n)
    <3>1. PICK m, n \in DOMAIN stack : Kept(i, m) /\ Kept(j, n)
      BY <2>4
    <3>2. m # n
      BY <1>10, <3>1
    <3>. QED BY <1>10, <3>1, <3>2 DEF KeysAreFresh
  <2>5. Pushed(i) \/ \E m \in DOMAIN stack : Kept(i, m)
    BY <1>4
  <2>6. Pushed(j) \/ \E m \in DOMAIN stack : Kept(j, m)
    BY <1>4
  <2> HIDE DEF Pushed, Kept
  <2>. QED BY <2>1, <2>2, <2>3, <2>4, <2>5, <2>6
<1>. QED BY <1>8, <1>10 DEF KeysAreFresh

\* The function that runs goes on, calls another or returns.
LEMMA FreshGoto ==
    ASSUME EngineInv, KeysAreFresh, ~Idle, UNCHANGED call,
           NEW frame, Goto(frame),
           Pending(frame) => Handed(frame),
           \A k \in Rows(db') \ Rows(db) : Pending(Top) /\ k = Top.pk /\ ~Pending(frame)
    PROVE  KeysAreFresh'
<1> DEFINE front == <<frame>>
<1>1. /\ front \in Seq({frame}) /\ stack' = front \o Rest /\ DOMAIN front = {1}
      /\ Len(front) = 1 /\ front[1] = frame
  BY DEF Goto
<1> HIDE DEF front
<1>2. \A n \in DOMAIN front : Pending(front[n]) => n = Len(front) /\ Handed(front[n])
  BY <1>1
<1>3. \A k \in Rows(db') \ Rows(db) :
         Pending(Top) /\ k = Top.pk /\ \A n \in DOMAIN front : ~Pending(front[n])
  BY <1>1
<1>. QED BY <1>1, <1>2, <1>3, FreshReplaced

\* A function is called that has no key yet.
LEMMA FreshPush ==
    ASSUME EngineInv, KeysAreFresh, ~Idle, UNCHANGED call,
           NEW frame, NEW inner, Push(inner, frame),
           Pending(frame) => Handed(frame), ~Pending(inner), Rows(db') \subseteq Rows(db)
    PROVE  KeysAreFresh'
<1> DEFINE front == <<inner, frame>>
<1>1. /\ front \in Seq({inner, frame}) /\ stack' = front \o Rest /\ DOMAIN front = {1, 2}
      /\ Len(front) = 2 /\ front[1] = inner /\ front[2] = frame
  BY DEF Push
<1> HIDE DEF front
<1>2. \A n \in DOMAIN front : Pending(front[n]) => n = Len(front) /\ Handed(front[n])
  BY <1>1
<1>3. Rows(db') \ Rows(db) = {}
  OBVIOUS
<1>. QED BY <1>1, <1>2, <1>3, FreshReplaced

\* A function returns.
LEMMA FreshReturn ==
    ASSUME EngineInv, KeysAreFresh, ~Idle, UNCHANGED <<call, db>>, stack' = Rest
    PROVE  KeysAreFresh'
<1>1. <<>> \in Seq(Frame) /\ DOMAIN <<>> = {} /\ stack' = <<>> \o Rest
  <2>1. Rest \in Seq(Frame)
    BY StackParts DEF EngineInv
  <2> HIDE DEF Frame
  <2>. QED BY <2>1
<1>2. Rows(db') \ Rows(db) = {}
  OBVIOUS
<1> HIDE DEF Frame
<1>. QED BY <1>1, <1>2, FreshReplaced

\* The cleanups come before what follows.
LEMMA FreshCleanups ==
    ASSUME EngineInv, KeysAreFresh, ~Idle, UNCHANGED call,
           NEW X, NEW front \in Seq(X), stack' = front \o Rest,
           \A f \in X : ~Pending(f), Rows(db') \subseteq Rows(db)
    PROVE  KeysAreFresh'
<1>1. \A n \in DOMAIN front : ~Pending(front[n])
  OBVIOUS
<1>2. Rows(db') \ Rows(db) = {}
  OBVIOUS
<1>. QED BY <1>1, <1>2, FreshReplaced

\* Only the function that inserts a row adds one.
LEMMA WrittenRows ==
    ASSUME EngineInv, ExecWrite, ~Aborts
    PROVE  /\ ~(IF Top.ctx.upd THEN UpdateFails ELSE InsertFails)
           /\ Top \in ExecFrames /\ Top.pk \in Key /\ DataOK
           /\ \E row \in Row :
                 /\ row = WrittenRow(IF Top.ctx.upd THEN db[Top.pk] ELSE EmptyRow(Top.table))
                 /\ db' = [db EXCEPT ![Top.pk] = row]
           /\ IF Top.ctx.upd THEN Top.pk \in RowsOf(db, Top.table) ELSE Pending(Top)
           /\ Goto([Top EXCEPT !.pc = "many", !.i = 1])
           /\ UNCHANGED <<call, filter>>
<1>1. ~Idle /\ Top.kind = "exec" /\ Top.pc = "write"
  BY DEF ExecWrite, At
<1>2. /\ Top \in ExecFrames /\ DataOK /\ FrameSettled(Top, key)
      /\ Top.obj \in Obj /\ Top.table \in Table
  BY <1>1, ExecTop
<1>3. ~(IF Top.ctx.upd THEN UpdateFails ELSE InsertFails)
  BY <1>1 DEF ExecWrite, Throw, Aborts
<1> DEFINE old == IF Top.ctx.upd THEN db[Top.pk] ELSE EmptyRow(Top.table)
<1>4. /\ db' = [db EXCEPT ![Top.pk] = WrittenRow(old)]
      /\ Goto([Top EXCEPT !.pc = "many", !.i = 1])
      /\ UNCHANGED <<counter, held, spent, ret, member, data, filter, call, roots>>
  BY <1>3 DEF ExecWrite, Executes
<1>5. Top.pk \in Key
  BY <1>1, <1>2 DEF FrameSettled
<1>6. Top.ctx.upd => Top.pk \in RowsOf(db, Top.table)
  BY <1>3 DEF UpdateFails
<1>7. old \in Row
  <2>1. CASE Top.ctx.upd
    <3>1. db[Top.pk] # NoRow
      BY <1>6, <2>1 DEF RowsOf, Rows
    <3>. QED BY <1>2, <1>5, <2>1, <3>1 DEF DataOK
  <2>2. CASE ~Top.ctx.upd
    BY <1>2, <2>2 DEF EmptyRow, Row
  <2>. QED BY <2>1, <2>2
<1> HIDE DEF old
<1>8. WrittenRow(old) \in Row
  BY <1>1, <1>7, WrittenRowType
<1>9. \E row \in Row : row = WrittenRow(old) /\ db' = [db EXCEPT ![Top.pk] = row]
  BY <1>4, <1>8
<1>10. ~Top.ctx.upd => Pending(Top)
  BY <1>1 DEF Pending
<1>. QED BY <1>2, <1>3, <1>4, <1>5, <1>6, <1>9, <1>10 DEF old

\* What the other steps of the engine do to the rows.
LEMMA DataSteps ==
    ASSUME EngineInv, Step, ~Aborts, ~ExecWrite
    PROVE  /\ filter' = filter
           /\ \/ db' = db
              \/ \E S : db' = DeleteRows(db, S)
              \/ \E f \in Field : IsMany(f) /\ f \notin filter /\ \E k : db' = Unlinked(f, k)
<1>1. CASE ApplyBegin \/ ApplyEnd \/ EachBegin \/ EachNext \/ ExecKey \/ ExecBase \/ ExecOne
           \/ ExecCleanup \/ DestroyBegin \/ DestroyEnd
  BY <1>1 DEF ApplyBegin, ApplyEnd, EachBegin, EachNext, ExecKey, ExecBase, ExecOne, ExecCleanup,
     DestroyBegin, DestroyEnd, At, Throw, Aborts, mem
<1>2. CASE ExecAfter
  <2>1. /\ UNCHANGED mem
        /\ \E f : db' = IF Top.ctx.upd THEN DeleteRows(db, OldPart(f)) ELSE db
    BY <1>2 DEF ExecAfter, Executes, At, Throw, Aborts
  <2>. QED BY <2>1 DEF mem
<1>3. CASE Cleanup \/ DestroyDelete
  BY <1>3 DEF Cleanup, Executes, DestroyDelete, mem
<1>4. CASE ExecMany
  <2>1. ~Idle /\ Top.kind = "exec"
    BY <1>4 DEF ExecMany, At
  <2>2. Top.table \in Table /\ Top.i \in Nat
    BY <2>1, ExecTop
  <2>3. PICK i : i = NextField(ManyFields[Top.table], SkipsMany)
    OBVIOUS
  <2>4. CASE i = 0
    BY <1>4, <2>3, <2>4 DEF ExecMany, mem
  <2>5. CASE i # 0
    <3>1. PICK f : f = ManyFields[Top.table][i]
      OBVIOUS
    <3>2. /\ UNCHANGED mem
          /\ db' = IF Top.ctx.upd THEN Unlinked(f, Top.pk) ELSE db
      BY <1>4, <2>3, <2>5, <3>1 DEF ExecMany, Executes
    <3>3. f \in {g \in Field : IsMany(g)} /\ ~SkipsMany(f)
      <4>1. ManyFields[Top.table] \in Seq({g \in Field : IsMany(g)})
        BY <2>2, FieldVectors
      <4>0. Len(ManyFields[Top.table]) \in Nat
        BY <4>1
      <4>2. i \in Top.i..Len(ManyFields[Top.table]) /\ ~SkipsMany(ManyFields[Top.table][i])
        BY <2>2, <2>3, <2>5, <4>0, NextMany
      <4>. QED BY <2>2, <2>5, <3>1, <4>1, <4>2
    <3>. QED BY <3>2, <3>3 DEF mem, SkipsMany, Skips, IsExcluded
  <2>. QED BY <2>4, <2>5
<1>. QED BY <1>1, <1>2, <1>3, <1>4 DEF Step

\* Every step of the engine keeps the new keys new.
LEMMA StepKeepsFresh ==
    ASSUME EngineInv, KeysAreFresh, Step
    PROVE  KeysAreFresh'
<1>1. CASE Aborts
  BY <1>1 DEF Aborts, Abort, KeysAreFresh
<1>2. ~Idle /\ (Top.kind = "exec" => Top \in ExecFrames)
  BY TopFrame DEF Step, ApplyBegin, ApplyEnd, EachBegin, EachNext, ExecKey, ExecBase, ExecOne,
     ExecAfter, ExecWrite, ExecMany, ExecCleanup, Cleanup, DestroyBegin, DestroyDelete,
     DestroyEnd, At
<1>3. CASE ApplyBegin /\ ~Aborts
  <2>1. PICK ctx : /\ Push(ExecFrame(Top.obj, ObjTable[Top.obj], ctx), [Top EXCEPT !.pc = "end"])
                   /\ UNCHANGED <<db, call>>
    BY <1>3 DEF ApplyBegin, At, Throw, Aborts
  <2>2. Top \in ApplyFrames
    BY <1>2, <1>3, TopFrame DEF ApplyBegin, At
  <2>3. ~Pending([Top EXCEPT !.pc = "end"])
    BY <2>2 DEF Pending, ApplyFrames
  <2>4. ~Pending(ExecFrame(Top.obj, ObjTable[Top.obj], ctx))
    BY DEF Pending, ExecFrame
  <2>. QED BY <1>2, <2>1, <2>3, <2>4, FreshPush
<1>4. CASE ApplyEnd \/ DestroyEnd
  <2>1. stack' = Rest /\ db' = db /\ (Rest # <<>> => call' = call)
    BY <1>4 DEF ApplyEnd, DestroyEnd, Return, Finish
  <2>2. Rest = <<>> => KeysAreFresh'
    BY <2>1 DEF KeysAreFresh
  <2>. QED BY <1>2, <2>1, <2>2, FreshReturn
<1>5. CASE (EachBegin \/ DestroyBegin) /\ ~Aborts
  <2>1. /\ Goto([Top EXCEPT !.pc = "next"]) \/ Goto([Top EXCEPT !.pc = "delete"])
        /\ UNCHANGED <<db, call>> /\ Top.kind \in {"each", "destroy"}
    BY <1>5 DEF EachBegin, DestroyBegin, At, Throw, Aborts
  <2>2. PICK pc : Goto([Top EXCEPT !.pc = pc])
    BY <2>1
  <2>3. ~Pending([Top EXCEPT !.pc = pc])
    <3>1. Top \in EachFrames \cup DestroyFrames
      BY <1>2, <2>1, TopFrame
    <3>. QED BY <2>1, <3>1 DEF Pending, EachFrames, DestroyFrames
  <2>. QED BY <1>2, <2>1, <2>2, <2>3, FreshGoto
<1>6. CASE EachNext
  <2>1. Top \in EachFrames /\ Top.kind = "each"
    BY <1>2, <1>6, TopFrame DEF EachNext, At
  <2>2. CASE Top.n < Len(Top.objs)
    <3>1. PICK ctx : Push(ApplyFrame(Top.objs[Top.n + 1], Top.table, ctx, Top.strict),
                          [Top EXCEPT !.n = @ + 1])
      BY <1>6, <2>2 DEF EachNext
    <3>2. UNCHANGED <<db, call>>
      BY <1>6, <2>2 DEF EachNext
    <3>3. ~Pending([Top EXCEPT !.n = @ + 1])
      BY <2>1 DEF Pending, EachFrames
    <3>4. ~Pending(ApplyFrame(Top.objs[Top.n + 1], Top.table, ctx, Top.strict))
      BY DEF Pending, ApplyFrame
    <3>. QED BY <1>2, <3>1, <3>2, <3>3, <3>4, FreshPush
  <2>3. CASE ~(Top.n < Len(Top.objs))
    <3>1. stack' = Rest /\ db' = db /\ (Rest # <<>> => call' = call)
      BY <1>6, <2>3 DEF EachNext, Return, Finish
    <3>2. Rest = <<>> => KeysAreFresh'
      BY <3>1 DEF KeysAreFresh
    <3>. QED BY <1>2, <3>1, <3>2, FreshReturn
  <2>. QED BY <2>2, <2>3
<1>7. CASE ExecKey /\ ~Aborts
  <2>1. /\ \E k : /\ ~Top.ctx.upd => k \in FreshKeys(Top.obj, Top.table)
                  /\ Goto([Top EXCEPT !.pc = "base", !.pk = k])
        /\ UNCHANGED <<db, call>> /\ Top \in ExecFrames
    BY <1>2, <1>7 DEF ExecKey, At, Throw, Aborts
  <2>2. PICK k : /\ ~Top.ctx.upd => k \in FreshKeys(Top.obj, Top.table)
                 /\ Goto([Top EXCEPT !.pc = "base", !.pk = k])
    BY <2>1
  <2>3. PICK frame : frame = [Top EXCEPT !.pc = "base", !.pk = k]
    OBVIOUS
  <2>4. frame.ctx = Top.ctx /\ frame.pk = k
    BY <2>1, <2>3 DEF ExecFrames
  <2>5. Pending(frame) => Handed(frame)
    BY <2>2, <2>4 DEF Pending, Handed, FreshKeys
  <2>6. Goto(frame) /\ UNCHANGED call /\ Rows(db') \ Rows(db) = {}
    BY <2>1, <2>2, <2>3
  <2>. QED BY <1>2, <2>5, <2>6, FreshGoto
<1>8. ASSUME Top \in ExecFrames, Top.pc \in {"base", "one", "after"},
             NEW frame, frame.ctx = Top.ctx, frame.pk = Top.pk
      PROVE  Pending(frame) => Handed(frame)
  <2>1. Top.kind = "exec"
    BY <1>8 DEF ExecFrames
  <2>. QED BY <1>8, <2>1 DEF Pending, Handed
<1>9. CASE ExecBase
  <2>1. /\ Top \in ExecFrames /\ Top.pc = "base" /\ UNCHANGED <<db, call>>
        /\ \E ctx : \/ Push(ExecFrame(Top.obj, BaseOf[Top.table], ctx), [Top EXCEPT !.pc = "one"])
                    \/ Goto([Top EXCEPT !.pc = "one"])
    BY <1>2, <1>9 DEF ExecBase, At
  <2>2. PICK frame : frame = [Top EXCEPT !.pc = "one"]
    OBVIOUS
  <2>2a. frame.ctx = Top.ctx /\ frame.pk = Top.pk
    BY <2>1, <2>2 DEF ExecFrames
  <2>3. Pending(frame) => Handed(frame)
    BY <1>8, <2>1, <2>2a
  <2>4. \A ctx : ~Pending(ExecFrame(Top.obj, BaseOf[Top.table], ctx))
    BY DEF Pending, ExecFrame
  <2>5. Rows(db') \ Rows(db) = {} /\ Rows(db') \subseteq Rows(db) /\ UNCHANGED call
    BY <2>1
  <2>6. \A ctx : Push(ExecFrame(Top.obj, BaseOf[Top.table], ctx), frame) => KeysAreFresh'
    BY <1>2, <2>3, <2>4, <2>5, FreshPush
  <2>7. Goto(frame) => KeysAreFresh'
    BY <1>2, <2>3, <2>5, FreshGoto
  <2>. QED BY <2>1, <2>2, <2>6, <2>7
<1>10. CASE ExecOne
  <2>1. /\ Top \in ExecFrames /\ Top.pc = "one" /\ UNCHANGED <<db, call>>
    BY <1>2, <1>10 DEF ExecOne, At
  <2>2. \/ stack' = Rest
        \/ Goto([Top EXCEPT !.pc = "write"])
        \/ \E i : Goto([Top EXCEPT !.pc = "after", !.i = i])
        \/ \E i, o, t : Push(ApplyFrame(o, t, Top.ctx, FALSE), [Top EXCEPT !.pc = "after", !.i = i])
    BY <1>10 DEF ExecOne, Return
  <2>3. Rows(db') \ Rows(db) = {} /\ Rows(db') \subseteq Rows(db) /\ UNCHANGED call
    BY <2>1
  <2>4. CASE stack' = Rest
    BY <1>2, <2>1, <2>4, FreshReturn
  <2>5. CASE Goto([Top EXCEPT !.pc = "write"])
    <3>1. PICK frame : frame = [Top EXCEPT !.pc = "write"]
      OBVIOUS
    <3>1a. frame.ctx = Top.ctx /\ frame.pk = Top.pk
      BY <2>1, <3>1 DEF ExecFrames
    <3>2. Pending(frame) => Handed(frame)
      BY <1>8, <2>1, <3>1a
    <3>. QED BY <1>2, <2>3, <2>5, <3>1, <3>2, FreshGoto
  <2>6. ASSUME NEW i, NEW o, NEW t,
               \/ Goto([Top EXCEPT !.pc = "after", !.i = i])
               \/ Push(ApplyFrame(o, t, Top.ctx, FALSE), [Top EXCEPT !.pc = "after", !.i = i])
        PROVE  KeysAreFresh'
    <3>1. PICK frame : frame = [Top EXCEPT !.pc = "after", !.i = i]
      OBVIOUS
    <3>1a. frame.ctx = Top.ctx /\ frame.pk = Top.pk
      BY <2>1, <3>1 DEF ExecFrames
    <3>2. Pending(frame) => Handed(frame)
      BY <1>8, <2>1, <3>1a
    <3>3. ~Pending(ApplyFrame(o, t, Top.ctx, FALSE))
      BY DEF Pending, ApplyFrame
    <3>4. Goto(frame) => KeysAreFresh'
      BY <1>2, <2>3, <3>2, FreshGoto
    <3>5. Push(ApplyFrame(o, t, Top.ctx, FALSE), frame) => KeysAreFresh'
      BY <1>2, <2>3, <3>2, <3>3, FreshPush
    <3>. QED BY <2>6, <3>1, <3>4, <3>5
  <2>. QED BY <2>2, <2>4, <2>5, <2>6
<1>11. CASE ExecAfter /\ ~Aborts
  <2>1. /\ Top \in ExecFrames /\ Top.pc = "after" /\ UNCHANGED call
        /\ \E f : /\ Goto([Top EXCEPT !.pc = "one", !.i = @ + 1, !.cols[f] = ret])
                  /\ db' = IF Top.ctx.upd THEN DeleteRows(db, OldPart(f)) ELSE db
    BY <1>2, <1>11 DEF ExecAfter, Executes, At, Throw, Aborts
  <2>2. PICK f : /\ Goto([Top EXCEPT !.pc = "one", !.i = @ + 1, !.cols[f] = ret])
                 /\ db' = IF Top.ctx.upd THEN DeleteRows(db, OldPart(f)) ELSE db
    BY <2>1
  <2>3. PICK i, cols : i = Top.i + 1 /\ cols = [Top.cols EXCEPT ![f] = ret]
    OBVIOUS
  <2>4. PICK frame : frame = [Top EXCEPT !.pc = "one", !.i = i, !.cols = cols]
    OBVIOUS
  <2>5. Goto(frame)
    BY <2>2, <2>3, <2>4
  <2>6. Pending(frame) => Handed(frame)
    <3>1. frame.ctx = Top.ctx /\ frame.pk = Top.pk
      BY <2>1, <2>4 DEF ExecFrames
    <3>. QED BY <1>8, <2>1, <3>1
  <2>7. Rows(db') \ Rows(db) = {}
    <3>1. db \in [Key -> Row \cup {NoRow}]
      BY DEF EngineInv, TypeOK
    <3>. QED BY <2>2, <3>1, DeleteRowsParts DEF Deleted
  <2>. QED BY <1>2, <2>1, <2>5, <2>6, <2>7, FreshGoto
<1>12. CASE ExecWrite /\ ~Aborts
  <2>1. PICK row \in Row : db' = [db EXCEPT ![Top.pk] = row]
    BY <1>12, WrittenRows
  <2>2. /\ Top \in ExecFrames /\ Goto([Top EXCEPT !.pc = "many", !.i = 1]) /\ UNCHANGED call
        /\ IF Top.ctx.upd THEN Top.pk \in Rows(db) ELSE Pending(Top)
        /\ DataOK
    BY <1>12, WrittenRows DEF RowsOf
  <2>3. PICK frame : frame = [Top EXCEPT !.pc = "many", !.i = 1]
    OBVIOUS
  <2>4. ~Pending(frame)
    BY <2>2, <2>3 DEF Pending, ExecFrames
  <2>5. Rows(db') \subseteq Rows(db) \cup {Top.pk}
    BY <2>1, <2>2 DEF Rows, DataOK
  <2>6. \A k \in Rows(db') \ Rows(db) : Pending(Top) /\ k = Top.pk /\ ~Pending(frame)
    BY <2>2, <2>4, <2>5
  <2>. QED BY <1>2, <2>2, <2>3, <2>4, <2>6, FreshGoto
<1>13. CASE ExecMany
  <2>1. Top \in ExecFrames
    BY <1>2, <1>13 DEF ExecMany, At
  <2>2. /\ UNCHANGED call
        /\ \/ stack' = Rest /\ db' = db
           \/ \E i, objs, t, ctx :
                 Push(EachFrame(objs, t, ctx, FALSE), [Top EXCEPT !.pc = "cleanup", !.i = i])
    BY <1>13 DEF ExecMany, Executes, Return
  <2>3. CASE stack' = Rest /\ db' = db
    BY <1>2, <2>2, <2>3, FreshReturn
  <2>4. ASSUME NEW i, NEW objs, NEW t, NEW ctx,
               Push(EachFrame(objs, t, ctx, FALSE), [Top EXCEPT !.pc = "cleanup", !.i = i])
        PROVE  KeysAreFresh'
    <3>1. ~Pending([Top EXCEPT !.pc = "cleanup", !.i = i])
      BY <2>1 DEF Pending, ExecFrames
    <3>2. ~Pending(EachFrame(objs, t, ctx, FALSE))
      BY DEF Pending, EachFrame
    <3>3. Rows(db') \subseteq Rows(db)
      <4>1. ~Aborts /\ ~ExecWrite
        <5>1. ~ExecWrite
          BY <1>13 DEF ExecWrite, ExecMany, At
        <5>2. stack' # <<>>
          <6>1. stack' = <<EachFrame(objs, t, ctx, FALSE), [Top EXCEPT !.pc = "cleanup", !.i = i]>> \o Rest
            BY <2>4 DEF Push
          <6>2. PICK a, b : stack' = <<a, b>> \o Rest
            BY <6>1
          <6>3. Rest \in Seq(Frame)
            BY <1>2, StackParts DEF EngineInv
          <6>4. Rest \in Seq(Frame \cup {a, b}) /\ <<a, b>> \in Seq(Frame \cup {a, b})
            <7> HIDE DEF Frame
            <7>. QED BY <6>3
          <6> HIDE DEF Frame
          <6>. QED BY <6>2, <6>4
        <5>. QED BY <5>1, <5>2 DEF Aborts, Abort
      <4>2. db \in [Key -> Row \cup {NoRow}] /\ TypeOK
        BY DEF EngineInv, TypeOK
      <4>4. \/ db' = db
            \/ \E S : db' = DeleteRows(db, S)
            \/ \E f \in Field : IsMany(f) /\ \E k : db' = Unlinked(f, k)
        BY <1>13, <4>1, DataSteps DEF Step
      <4>5. \A S : Rows(DeleteRows(db, S)) \subseteq Rows(db)
        BY <4>2, DeleteRowsParts DEF Deleted
      <4>6. \A f, k : Rows(Unlinked(f, k)) \subseteq Rows(db)
        BY DEF Rows, RowsOf, Unlinked
      <4>. QED BY <4>4, <4>5, <4>6
    <3>. QED BY <1>2, <2>2, <2>4, <3>1, <3>2, <3>3, FreshPush
  <2>. QED BY <2>2, <2>3, <2>4
<1>14. CASE ExecCleanup
  <2>1. /\ Top \in ExecFrames /\ UNCHANGED <<db, call>>
        /\ \E i : \/ Goto([Top EXCEPT !.pc = "many", !.i = i])
                  \/ \E t : Push(CleanupFrame(t, TRUE, TRUE), [Top EXCEPT !.pc = "many", !.i = i])
    BY <1>2, <1>14 DEF ExecCleanup, At
  <2>2. \A i : ~Pending([Top EXCEPT !.pc = "many", !.i = i])
    BY <2>1 DEF Pending, ExecFrames
  <2>3. \A t : ~Pending(CleanupFrame(t, TRUE, TRUE))
    BY DEF Pending, CleanupFrame
  <2>4. Rows(db') \ Rows(db) = {} /\ Rows(db') \subseteq Rows(db) /\ UNCHANGED call
    BY <2>1
  <2>5. ASSUME NEW i, Goto([Top EXCEPT !.pc = "many", !.i = i]) PROVE KeysAreFresh'
    BY <1>2, <2>2, <2>4, <2>5, FreshGoto
  <2>6. ASSUME NEW i, NEW t, Push(CleanupFrame(t, TRUE, TRUE), [Top EXCEPT !.pc = "many", !.i = i])
        PROVE  KeysAreFresh'
    BY <1>2, <2>2, <2>3, <2>4, <2>6, FreshPush
  <2>. QED BY <2>1, <2>5, <2>6
<1>15. db \in [Key -> Row \cup {NoRow}]
  BY DEF EngineInv, TypeOK
<1>16. \A S : Rows(DeleteRows(db, S)) \subseteq Rows(db)
  BY <1>15, DeleteRowsParts DEF Deleted
<1>17. CASE Cleanup
  <2> DEFINE front == CleanupsOfMany(Top.table)
                      \o (IF Top.up THEN CleanupsOfBase(Top.table) ELSE <<>>)
                      \o (IF Top.down THEN CleanupsOfDerived(Top.table) ELSE <<>>)
  <2>1. Top \in CleanupFrames
    BY <1>2, <1>17, TopFrame DEF Cleanup, At
  <2>2. front \in Seq(CleanupFrames)
    <3>1. Top.table \in Table
      BY <2>1 DEF CleanupFrames
    <3>2. <<>> \in Seq(CleanupFrames)
      OBVIOUS
    <3>. QED BY <3>1, <3>2, CleanupsType, ConcatType
  <2>3. stack' = front \o Rest /\ UNCHANGED call /\ Rows(db') \subseteq Rows(db)
    <3>1. CleanupsOfMany(Top.table) \in Seq(CleanupFrames)
      BY <2>1, CleanupsType DEF CleanupFrames
    <3>. QED BY <1>16, <1>17 DEF Cleanup, Executes
  <2>4. \A f \in CleanupFrames : ~Pending(f)
    BY DEF Pending, CleanupFrames
  <2> HIDE DEF front, CleanupFrames
  <2>. QED BY <1>2, <2>2, <2>3, <2>4, FreshCleanups
<1>18. CASE DestroyDelete
  <2>1. Top \in DestroyFrames /\ Top.kind = "destroy"
    BY <1>2, <1>18, TopFrame DEF DestroyDelete, At
  <2>2. PICK frame : frame = [Top EXCEPT !.pc = "end"]
    OBVIOUS
  <2>3. ~Pending(frame)
    BY <2>1, <2>2 DEF Pending, DestroyFrames
  <2> DEFINE X == CleanupFrames \cup {frame}
             many == CleanupsOfMany(ObjTable[Top.obj])
             front == many \o <<frame>>
  <2>4. many \in Seq(X)
    <3>1. ObjTable[Top.obj] \in Table
      BY <2>1, PersistenceAssumption DEF DestroyFrames
    <3>2. many \in Seq(CleanupFrames)
      BY <3>1, CleanupsType
    <3> HIDE DEF many, CleanupFrames
    <3>. QED BY <3>2
  <2>5. Rest \in Seq(Frame)
    BY <1>2, StackParts DEF EngineInv
  <2>6. stack' = many \o <<frame>> \o Rest /\ UNCHANGED call /\ Rows(db') \subseteq Rows(db)
    BY <1>16, <1>18, <2>2 DEF DestroyDelete, Executes
  <2>7. \A f \in X : ~Pending(f)
    BY <2>3 DEF Pending, CleanupFrames
  <2>8. <<frame>> \in Seq(X)
    OBVIOUS
  <2> HIDE DEF many, X
  <2>9. front \in Seq(X)
    BY <2>4, <2>8, ConcatType
  <2>10. stack' = front \o Rest
    BY <2>6
  <2> HIDE DEF front
  <2>. QED BY <1>2, <2>6, <2>7, <2>9, <2>10, FreshCleanups
<1>. QED BY <1>1, <1>3, <1>4, <1>5, <1>6, <1>7, <1>9, <1>10, <1>11, <1>12, <1>13, <1>14, <1>17,
            <1>18 DEF Step

-----------------------------------------------------------------------------
\* An update whose filter excludes a many field follows it only from an object
\* it has created, and an object that is created has a new key.
OwnerIsNew(ctx) ==
    call.op = "update" /\ ctx.owner \in Field \cap filter => ctx.ownerKey \in Key \ Rows(call.before)

KeyIsNew(f) == ~f.ctx.upd /\ f.pc # "key" => f.pk \notin Rows(call.before)

Marked(f) ==
    /\ f.kind \in {"apply", "each", "exec"} => OwnerIsNew(f.ctx)
    /\ f.kind = "exec" => KeyIsNew(f)

FramesAreMarked == \A n \in DOMAIN stack : Marked(stack[n])

\* The head of the stack is replaced by frames that are marked.
LEMMA MarkedReplaced ==
    ASSUME EngineInv, FramesAreMarked, ~Idle, UNCHANGED <<call, filter>>,
           NEW X, \A f \in X : Marked(f),
           NEW front \in Seq(X), stack' = front \o Rest
    PROVE  FramesAreMarked'
<1>1. /\ Rest \in Seq(Frame) /\ stack \in Seq(Frame) /\ Len(stack) = Len(Rest) + 1
      /\ \A n \in 1..Len(Rest) : Rest[n] = stack[n + 1]
  BY StackParts DEF EngineInv, TypeOK
<1> HIDE DEF Frame
<1> DEFINE Y == {f \in X \cup Frame : Marked(f)}
<1>2. front \in Seq(Y)
  OBVIOUS
<1>3. Rest \in Seq(Y)
  <2>1. \A n \in 1..Len(Rest) : n + 1 \in DOMAIN stack
    BY <1>1
  <2>2. \A n \in 1..Len(Rest) : Rest[n] \in Frame /\ Marked(Rest[n])
    <3>1. \A n \in 1..Len(Rest) : Marked(stack[n + 1])
      BY <2>1 DEF FramesAreMarked
    <3>. QED BY <1>1, <3>1
  <2>3. \A n \in 1..Len(Rest) : Rest[n] \in Y
    BY <2>2
  <2> HIDE DEF Y
  <2>. QED BY <1>1, <2>3
<1>4. \A f \in Y : Marked(f)
  OBVIOUS
<1> HIDE DEF Y
<1>5. stack' \in Seq(Y)
  BY <1>2, <1>3
<1>6. \A n \in DOMAIN stack' : Marked(stack'[n])
  BY <1>4, <1>5
<1>. QED BY <1>6 DEF FramesAreMarked, Marked, OwnerIsNew, KeyIsNew

\* The function that runs is marked; it goes on, calls another or returns.
LEMMA MarkedTop ==
    ASSUME EngineInv, FramesAreMarked, ~Idle
    PROVE  Marked(Top)
<1>1. Top = stack[1] /\ stack \in Seq(Frame) /\ stack # <<>>
  BY StackParts DEF EngineInv, TypeOK, Idle
<1> HIDE DEF Frame
<1>2. 1 \in DOMAIN stack
  BY <1>1
<1>. QED BY <1>1, <1>2 DEF FramesAreMarked

\* A function goes on,
LEMMA MarkedGoto ==
    ASSUME EngineInv, FramesAreMarked, ~Idle, UNCHANGED <<call, filter>>,
           NEW frame, Marked(frame), Goto(frame)
    PROVE  FramesAreMarked'
<1>1. <<frame>> \in Seq({frame}) /\ stack' = <<frame>> \o Rest
  BY DEF Goto
<1>. QED BY <1>1, MarkedReplaced

\* calls another one,
LEMMA MarkedPush ==
    ASSUME EngineInv, FramesAreMarked, ~Idle, UNCHANGED <<call, filter>>,
           NEW frame, Marked(frame), NEW inner, Marked(inner), Push(inner, frame)
    PROVE  FramesAreMarked'
<1>1. <<inner, frame>> \in Seq({inner, frame}) /\ stack' = <<inner, frame>> \o Rest
  BY DEF Push
<1>. QED BY <1>1, MarkedReplaced

\* or returns.
LEMMA MarkedReturn ==
    ASSUME EngineInv, FramesAreMarked, ~Idle, UNCHANGED filter,
           stack' = Rest, Rest # <<>> => UNCHANGED call
    PROVE  FramesAreMarked'
<1>1. CASE Rest = <<>>
  BY <1>1 DEF FramesAreMarked
<1>2. CASE Rest # <<>>
  <2>1. <<>> \in Seq({}) /\ stack' = <<>> \o Rest
    <3>1. Rest \in Seq(Frame)
      BY StackParts DEF EngineInv
    <3> HIDE DEF Frame
    <3>. QED BY <3>1
  <2>. QED BY <1>2, <2>1, MarkedReplaced
<1>. QED BY <1>1, <1>2

\* Frames made of a marked one.
LEMMA MarkedFrames ==
    ASSUME NEW ctx, OwnerIsNew(ctx)
    PROVE  /\ \A o, t, strict : Marked(ApplyFrame(o, t, ctx, strict))
           /\ \A objs, t, strict : Marked(EachFrame(objs, t, ctx, strict))
           /\ \A o, t : Marked(ExecFrame(o, t, ctx))
BY DEF Marked, KeyIsNew, ApplyFrame, EachFrame, ExecFrame

\* What a function keeps while it goes on keeps its frame marked.
LEMMA MarkedGoesOn ==
    ASSUME EngineInv, FramesAreMarked, ~Idle
    PROVE  /\ \A pc : Top.kind \in {"apply", "each", "destroy"} => Marked([Top EXCEPT !.pc = pc])
           /\ \A n : Top.kind = "each" => Marked([Top EXCEPT !.n = n])
           /\ \A frame : /\ Top.kind = "exec" /\ Top.pc # "key" /\ frame.kind = "exec"
                         /\ frame.ctx = Top.ctx /\ frame.pk = Top.pk
                         => Marked(frame)
<1>1. Marked(Top) /\ Top \in Frame
  BY MarkedTop, TopFrame
<1>2. /\ Top.kind = "apply" => Top \in ApplyFrames
      /\ Top.kind = "each" => Top \in EachFrames
      /\ Top.kind = "destroy" => Top \in DestroyFrames
  BY TopFrame
<1>3. ASSUME NEW pc, Top.kind \in {"apply", "each", "destroy"}
      PROVE  Marked([Top EXCEPT !.pc = pc])
  BY <1>1, <1>2, <1>3 DEF Marked, ApplyFrames, EachFrames, DestroyFrames
<1>4. ASSUME NEW n, Top.kind = "each" PROVE Marked([Top EXCEPT !.n = n])
  BY <1>1, <1>2, <1>4 DEF Marked, EachFrames
<1>5. ASSUME NEW frame, Top.kind = "exec", Top.pc # "key", frame.kind = "exec",
             frame.ctx = Top.ctx, frame.pk = Top.pk
      PROVE  Marked(frame)
  BY <1>1, <1>5 DEF Marked, KeyIsNew
<1>. QED BY <1>3, <1>4, <1>5

\* Every step of the engine keeps the frames so.
LEMMA StepKeepsMarked ==
    ASSUME EngineInv, FramesAreMarked, Step
    PROVE  FramesAreMarked'
<1>1. CASE Aborts
  BY <1>1 DEF Aborts, Abort, FramesAreMarked
<1>2. /\ ~Idle /\ Marked(Top)
      /\ Top.kind = "exec" => Top \in ExecFrames /\ Top.table \in Table /\ Top.i \in Nat
  <2>1. ~Idle
    BY DEF Step, ApplyBegin, ApplyEnd, EachBegin, EachNext, ExecKey, ExecBase, ExecOne,
       ExecAfter, ExecWrite, ExecMany, ExecCleanup, Cleanup, DestroyBegin, DestroyDelete,
       DestroyEnd, At
  <2>. QED BY <2>1, MarkedTop, ExecTop
<1>3. ~Aborts => UNCHANGED filter
  BY DataSteps, WrittenRows
<1>4. CASE ApplyBegin /\ ~Aborts
  <2>1. Top.kind = "apply" /\ Top \in ApplyFrames
    BY <1>2, <1>4, TopFrame DEF ApplyBegin, At
  <2>2. PICK ctx : /\ ctx = Top.ctx \/ ctx = [Top.ctx EXCEPT !.upd = ~@]
                   /\ Push(ExecFrame(Top.obj, ObjTable[Top.obj], ctx), [Top EXCEPT !.pc = "end"])
                   /\ UNCHANGED call
    <3> DEFINE fits == HasDefaultKey(Top.obj, Top.table) # Top.ctx.upd
               next == IF fits THEN Top.ctx ELSE [Top.ctx EXCEPT !.upd = ~@]
    <3>1. next = Top.ctx \/ next = [Top.ctx EXCEPT !.upd = ~@]
      OBVIOUS
    <3>2. /\ Push(ExecFrame(Top.obj, ObjTable[Top.obj], next), [Top EXCEPT !.pc = "end"])
          /\ UNCHANGED call
      BY <1>2, <1>4 DEF ApplyBegin, Throw, Aborts
    <3>. QED BY <3>1, <3>2
  <2>3. OwnerIsNew(ctx)
    <3>1. ctx.owner = Top.ctx.owner /\ ctx.ownerKey = Top.ctx.ownerKey
      BY <2>1, <2>2 DEF ApplyFrames, Context
    <3>. QED BY <1>2, <2>1, <3>1 DEF Marked, OwnerIsNew
  <2>4. Marked(ExecFrame(Top.obj, ObjTable[Top.obj], ctx)) /\ Marked([Top EXCEPT !.pc = "end"])
    BY <1>2, <2>1, <2>3, MarkedFrames, MarkedGoesOn
  <2>. QED BY <1>2, <1>3, <1>4, <2>2, <2>4, MarkedPush
<1>5. CASE (ApplyEnd \/ DestroyEnd) /\ ~Aborts
  <2>1. stack' = Rest /\ (Rest # <<>> => UNCHANGED call)
    BY <1>5 DEF ApplyEnd, DestroyEnd, Return, Finish
  <2>. QED BY <1>2, <1>3, <1>5, <2>1, MarkedReturn
<1>6. CASE (EachBegin \/ DestroyBegin) /\ ~Aborts
  <2>1. PICK pc : Goto([Top EXCEPT !.pc = pc]) /\ UNCHANGED call /\ Top.kind \in {"each", "destroy"}
    BY <1>6 DEF EachBegin, DestroyBegin, At, Throw, Aborts
  <2>2. Marked([Top EXCEPT !.pc = pc])
    BY <1>2, <2>1, MarkedGoesOn
  <2>. QED BY <1>2, <1>3, <1>6, <2>1, <2>2, MarkedGoto
<1>7. CASE EachNext /\ ~Aborts
  <2>1. Top.kind = "each" /\ Top \in EachFrames
    BY <1>2, <1>7, TopFrame DEF EachNext, At
  <2>2. CASE Top.n < Len(Top.objs)
    <3> DEFINE ctx == [Top.ctx EXCEPT !.index = Top.n]
    <3>1. /\ Push(ApplyFrame(Top.objs[Top.n + 1], Top.table, ctx, Top.strict),
                  [Top EXCEPT !.n = Top.n + 1])
          /\ UNCHANGED call
      BY <1>7, <2>2 DEF EachNext
    <3>2. OwnerIsNew(ctx)
      <4>1. ctx.owner = Top.ctx.owner /\ ctx.ownerKey = Top.ctx.ownerKey
        BY <2>1 DEF EachFrames, Context
      <4>. QED BY <1>2, <2>1, <4>1 DEF Marked, OwnerIsNew
    <3> HIDE DEF ctx
    <3>3. Marked(ApplyFrame(Top.objs[Top.n + 1], Top.table, ctx, Top.strict))
      BY <3>2, MarkedFrames
    <3>4. Marked([Top EXCEPT !.n = Top.n + 1])
      BY <1>2, <2>1, MarkedGoesOn
    <3>. QED BY <1>2, <1>3, <1>7, <3>1, <3>3, <3>4, MarkedPush
  <2>3. CASE ~(Top.n < Len(Top.objs))
    <3>1. stack' = Rest /\ (Rest # <<>> => UNCHANGED call)
      BY <1>7, <2>3 DEF EachNext, Return, Finish
    <3>. QED BY <1>2, <1>3, <1>7, <3>1, MarkedReturn
  <2>. QED BY <2>2, <2>3
<1>8. CASE ExecKey /\ ~Aborts
  <2>1. /\ \E k : /\ ~Top.ctx.upd => k \in FreshKeys(Top.obj, Top.table)
                  /\ Goto([Top EXCEPT !.pc = "base", !.pk = k])
        /\ UNCHANGED call /\ Top \in ExecFrames /\ Top.kind = "exec"
    BY <1>2, <1>8 DEF ExecKey, At, Throw, Aborts
  <2>2. PICK k : /\ ~Top.ctx.upd => k \in FreshKeys(Top.obj, Top.table)
                 /\ Goto([Top EXCEPT !.pc = "base", !.pk = k])
    BY <2>1
  <2>3. PICK frame : frame = [Top EXCEPT !.pc = "base", !.pk = k]
    OBVIOUS
  <2>4. frame.kind = "exec" /\ frame.ctx = Top.ctx /\ frame.pk = k
    BY <2>1, <2>3 DEF ExecFrames
  <2>5. Rows(call.before) \subseteq KnownKeys
    BY DEF KnownKeys
  <2>6. Marked(frame)
    BY <1>2, <2>1, <2>2, <2>4, <2>5 DEF Marked, KeyIsNew, FreshKeys
  <2>. QED BY <1>2, <1>3, <1>8, <2>1, <2>2, <2>3, <2>6, MarkedGoto
<1>9. ASSUME NEW pc, NEW i, NEW cols, NEW frame, Top.kind = "exec", Top.pc # "key",
             \/ frame = [Top EXCEPT !.pc = pc]
             \/ frame = [Top EXCEPT !.pc = pc, !.i = i]
             \/ frame = [Top EXCEPT !.pc = pc, !.i = i, !.cols = cols]
      PROVE  Marked(frame)
  <2>1. frame.kind = "exec" /\ frame.ctx = Top.ctx /\ frame.pk = Top.pk
    BY <1>2, <1>9 DEF ExecFrames
  <2>. QED BY <1>2, <1>9, <2>1, MarkedGoesOn
<1>10. CASE ExecBase /\ ~Aborts
  <2>1. PICK ctx : /\ ctx = [Top.ctx EXCEPT !.derived = IF @ = NoTable THEN Top.table ELSE @]
                   /\ \/ Push(ExecFrame(Top.obj, BaseOf[Top.table], ctx), [Top EXCEPT !.pc = "one"])
                      \/ Goto([Top EXCEPT !.pc = "one"])
                   /\ UNCHANGED call /\ Top.kind = "exec" /\ Top.pc = "base"
    BY <1>10 DEF ExecBase, At
  <2>2. OwnerIsNew(ctx)
    <3>1. ctx.owner = Top.ctx.owner /\ ctx.ownerKey = Top.ctx.ownerKey
      BY <1>2, <2>1 DEF ExecFrames, Context
    <3>. QED BY <1>2, <2>1, <3>1 DEF Marked, OwnerIsNew
  <2>3. Marked(ExecFrame(Top.obj, BaseOf[Top.table], ctx)) /\ Marked([Top EXCEPT !.pc = "one"])
    BY <1>9, <2>1, <2>2, MarkedFrames
  <2>. QED BY <1>2, <1>3, <1>10, <2>1, <2>3, MarkedPush, MarkedGoto
<1>11. CASE ExecOne /\ ~Aborts
  <2>1. Top.kind = "exec" /\ Top.pc = "one" /\ UNCHANGED call /\ OwnerIsNew(Top.ctx)
    BY <1>2, <1>11 DEF ExecOne, At, Marked
  <2>2. \/ stack' = Rest
        \/ Goto([Top EXCEPT !.pc = "write"])
        \/ \E i : Goto([Top EXCEPT !.pc = "after", !.i = i])
        \/ \E i, o, t : Push(ApplyFrame(o, t, Top.ctx, FALSE), [Top EXCEPT !.pc = "after", !.i = i])
    BY <1>11 DEF ExecOne, Return
  <2>3. Marked([Top EXCEPT !.pc = "write"]) /\ \A i : Marked([Top EXCEPT !.pc = "after", !.i = i])
    BY <1>9, <2>1
  <2>4. \A o, t : Marked(ApplyFrame(o, t, Top.ctx, FALSE))
    BY <2>1, MarkedFrames
  <2>5. CASE stack' = Rest
    BY <1>2, <1>3, <1>11, <2>1, <2>5, MarkedReturn
  <2>6. CASE Goto([Top EXCEPT !.pc = "write"])
    BY <1>2, <1>3, <1>11, <2>1, <2>3, <2>6, MarkedGoto
  <2>7. CASE \E i : Goto([Top EXCEPT !.pc = "after", !.i = i])
    BY <1>2, <1>3, <1>11, <2>1, <2>3, <2>7, MarkedGoto
  <2>8. CASE \E i, o, t : Push(ApplyFrame(o, t, Top.ctx, FALSE), [Top EXCEPT !.pc = "after", !.i = i])
    BY <1>2, <1>3, <1>11, <2>1, <2>3, <2>4, <2>8, MarkedPush
  <2>. QED BY <2>2, <2>5, <2>6, <2>7, <2>8
<1>12. CASE ExecAfter /\ ~Aborts
  <2>1. /\ Top.kind = "exec" /\ Top.pc = "after" /\ UNCHANGED call
        /\ \E f : Goto([Top EXCEPT !.pc = "one", !.i = @ + 1, !.cols[f] = ret])
    BY <1>12 DEF ExecAfter, At, Throw, Aborts
  <2>2. PICK f : Goto([Top EXCEPT !.pc = "one", !.i = @ + 1, !.cols[f] = ret])
    BY <2>1
  <2>3. PICK i, cols : i = Top.i + 1 /\ cols = [Top.cols EXCEPT ![f] = ret]
    OBVIOUS
  <2>4. Goto([Top EXCEPT !.pc = "one", !.i = i, !.cols = cols])
    BY <2>2, <2>3
  <2>5. Marked([Top EXCEPT !.pc = "one", !.i = i, !.cols = cols])
    BY <1>9, <2>1
  <2>. QED BY <1>2, <1>3, <1>12, <2>1, <2>4, <2>5, MarkedGoto
<1>13. CASE ExecWrite /\ ~Aborts
  <2>1. Top.kind = "exec" /\ Top.pc = "write" /\ Goto([Top EXCEPT !.pc = "many", !.i = 1])
        /\ UNCHANGED call
    BY <1>13, WrittenRows DEF ExecWrite, Executes, At
  <2>2. Marked([Top EXCEPT !.pc = "many", !.i = 1])
    BY <1>9, <2>1
  <2>. QED BY <1>2, <1>3, <1>13, <2>1, <2>2, MarkedGoto
<1>14. CASE ExecMany /\ ~Aborts
  <2>1. Top.kind = "exec" /\ Top.pc = "many" /\ UNCHANGED call /\ Top \in ExecFrames
    BY <1>2, <1>14 DEF ExecMany, At
  <2>2. PICK i : i = NextField(ManyFields[Top.table], SkipsMany)
    OBVIOUS
  <2>3. CASE i = 0
    <3>1. stack' = Rest
      BY <1>14, <2>2, <2>3 DEF ExecMany, Executes, Return
    <3>. QED BY <1>2, <1>3, <1>14, <2>1, <3>1, MarkedReturn
  <2>4. CASE i # 0
    <3> DEFINE f == ManyFields[Top.table][i]
    <3>1. PICK ctx : /\ ctx = [Top.ctx EXCEPT !.owner = f, !.ownerKey = Top.pk, !.derived = NoTable]
                     /\ Push(EachFrame(member[Top.obj][f], RefOf[f], ctx, FALSE),
                             [Top EXCEPT !.pc = "cleanup", !.i = i])
      BY <1>14, <2>2, <2>4 DEF ExecMany, Executes
    <3>2. OwnerIsNew(ctx)
      <4>1. ctx.owner = f /\ ctx.ownerKey = Top.pk
        BY <2>1, <3>1 DEF ExecFrames, Context
      <4>2. ~SkipsMany(f)
        <5>1. Len(ManyFields[Top.table]) \in Nat
          BY <1>2, <2>1, FieldVectors
        <5>. QED BY <1>2, <2>1, <2>2, <2>4, <5>1, NextMany
      <4>3. Top.pk \in Key /\ (~Top.ctx.upd => Top.pk \notin Rows(call.before))
        BY <1>2, <2>1, TopFrame DEF Marked, KeyIsNew, FrameSettled
      <4>. QED BY <4>1, <4>2, <4>3 DEF OwnerIsNew, SkipsMany, Skips, IsExcluded
    <3>3. Marked([Top EXCEPT !.pc = "cleanup", !.i = i])
      BY <1>9, <2>1
    <3>4. Marked(EachFrame(member[Top.obj][f], RefOf[f], ctx, FALSE))
      BY <3>2, MarkedFrames
    <3>. QED BY <1>2, <1>3, <1>14, <2>1, <3>1, <3>3, <3>4, MarkedPush
  <2>. QED BY <2>3, <2>4
<1>15. \A t, down, up : Marked(CleanupFrame(t, down, up))
  BY DEF Marked, CleanupFrame
<1>16. CASE ExecCleanup /\ ~Aborts
  <2>1. PICK i, t : /\ \/ Goto([Top EXCEPT !.pc = "many", !.i = i])
                       \/ Push(CleanupFrame(t, TRUE, TRUE), [Top EXCEPT !.pc = "many", !.i = i])
                    /\ UNCHANGED call /\ Top.kind = "exec" /\ Top.pc = "cleanup"
    BY <1>16 DEF ExecCleanup, At
  <2>2. Marked([Top EXCEPT !.pc = "many", !.i = i])
    BY <1>9, <2>1
  <2>. QED BY <1>2, <1>3, <1>15, <1>16, <2>1, <2>2, MarkedPush, MarkedGoto
<1>17. \A f \in CleanupFrames : Marked(f)
  BY DEF CleanupFrames, Marked
<1>18. CASE Cleanup /\ ~Aborts
  <2> DEFINE front == CleanupsOfMany(Top.table)
                      \o (IF Top.up THEN CleanupsOfBase(Top.table) ELSE <<>>)
                      \o (IF Top.down THEN CleanupsOfDerived(Top.table) ELSE <<>>)
  <2>1. Top \in CleanupFrames
    BY <1>2, <1>18, TopFrame DEF Cleanup, At
  <2>2. front \in Seq(CleanupFrames)
    <3>1. Top.table \in Table
      BY <2>1 DEF CleanupFrames
    <3>2. <<>> \in Seq(CleanupFrames)
      OBVIOUS
    <3>. QED BY <3>1, <3>2, CleanupsType, ConcatType
  <2>3. stack' = front \o Rest /\ UNCHANGED call
    BY <1>18 DEF Cleanup, Executes
  <2> HIDE DEF front, CleanupFrames
  <2>. QED BY <1>2, <1>3, <1>17, <1>18, <2>2, <2>3, MarkedReplaced
<1>19. CASE DestroyDelete /\ ~Aborts
  <2>1. Top \in DestroyFrames /\ Top.kind = "destroy"
    BY <1>2, <1>19, TopFrame DEF DestroyDelete, At
  <2>2. PICK frame : frame = [Top EXCEPT !.pc = "end"] /\ Marked(frame)
    <3>1. Marked([Top EXCEPT !.pc = "end"])
      BY <1>2, <2>1, MarkedGoesOn
    <3>. QED BY <3>1
  <2> DEFINE X == CleanupFrames \cup {frame}
             many == CleanupsOfMany(ObjTable[Top.obj])
             front == many \o <<frame>>
  <2>3. many \in Seq(X)
    <3>1. ObjTable[Top.obj] \in Table
      BY <2>1, PersistenceAssumption DEF DestroyFrames
    <3>2. many \in Seq(CleanupFrames)
      BY <3>1, CleanupsType
    <3> HIDE DEF many, CleanupFrames
    <3>. QED BY <3>2
  <2>4. stack' = many \o <<frame>> \o Rest /\ UNCHANGED call
    BY <1>19, <2>2 DEF DestroyDelete, Executes
  <2>5. \A f \in X : Marked(f)
    BY <1>17, <2>2
  <2>6. <<frame>> \in Seq(X) /\ Rest \in Seq(Frame)
    BY <1>2, StackParts DEF EngineInv
  <2> HIDE DEF many, X, Frame
  <2>7. front \in Seq(X)
    BY <2>3, <2>6, ConcatType
  <2>8. stack' = front \o Rest
    BY <2>4
  <2> HIDE DEF front
  <2>. QED BY <1>2, <1>3, <1>19, <2>4, <2>5, <2>7, <2>8, MarkedReplaced
<1>. QED BY <1>1, <1>4, <1>5, <1>6, <1>7, <1>8, <1>10, <1>11, <1>12, <1>13, <1>14, <1>16, <1>18,
            <1>19 DEF Step

-----------------------------------------------------------------------------
\* The rows the session sees, those others see, and those a failed call would
\* come back to.
RowsAreKept == IsKept(db) /\ IsKept(durable) /\ IsKept(call.before)

\* While an update runs, and when it has ended, the rows it found and has kept
\* have the values the filter excludes.
UpdateKeeps ==
    call.op = "update" /\ call.result \in {"none", "ok"} =>
       \A k \in Rows(db) \cap Rows(call.before) : \A f \in Field :
          f \in filter /\ ~IsMany(f) => ColumnIsKept(k, f)

DataInv == EngineInv /\ KeysAreFresh /\ FramesAreMarked /\ RowsAreKept /\ UpdateKeeps

\* A statement sets columns of its table, the excluded ones only in an INSERT.
LEMMA WrittenColumns ==
    ASSUME EngineInv, ~Idle, Top.kind = "exec", NEW old \in Row, old.table = Top.table,
           NEW row \in Row, row = WrittenRow(old), NEW f \in Field
    PROVE  /\ row.table = Top.table
           /\ ~IsMany(f) => row.idx[f] = old.idx[f]
           /\ Top.ctx.upd /\ f \in filter /\ ~IsMany(f) => row.col[f] = old.col[f]
           /\ \/ row.col[f] = old.col[f]
              \/ IsData(f)
              \/ f \in Range(OneFields[Top.table]) \cup ForeignKeyFields(Top.table)
           /\ IsMany(f) => \/ row.col[f] = old.col[f] /\ row.idx[f] = old.idx[f]
                           \/ f = Top.ctx.owner /\ row.col[f] = Top.ctx.ownerKey
<1>1. Top.table \in Table
  BY ExecTop
<1>2. /\ \A g \in DataColumns : IsData(g) /\ ~(Top.ctx.upd /\ g \in filter)
      /\ \A g \in OneColumns : /\ IsOne(g) /\ ~(Top.ctx.upd /\ g \in filter)
                               /\ g \in Range(OneFields[Top.table])
      /\ \A g \in OwnerColumns : IsMany(g) /\ g \in ForeignKeyFields(Top.table)
  BY <1>1, ColumnKinds DEF DataColumns, OneColumns, OwnerColumns, Skips, IsExcluded
<1> DEFINE col == [g \in Field |-> CASE g \in DataColumns  -> data[Top.obj][g]
                                     [] g \in OneColumns   -> Top.cols[g]
                                     [] g \in OwnerColumns -> Top.ctx.ownerKey
                                     [] OTHER              -> old.col[g]]
           idx == [g \in Field |-> IF g \in OwnerColumns THEN Top.ctx.index ELSE old.idx[g]]
           base == IF SetsBase THEN key[Top.obj][BaseOf[Top.table]] ELSE old.base
           type == IF ~Top.ctx.upd /\ HasTypeColumn(Top.table)
                   THEN IF Top.ctx.derived = NoTable THEN Top.table ELSE Top.ctx.derived
                   ELSE old.type
<1>3. row = [old EXCEPT !.base = base, !.col = col, !.idx = idx, !.type = type]
  BY DEF WrittenRow, Row
<1>4. /\ f \notin OwnerColumns => idx[f] = old.idx[f]
      /\ f \notin DataColumns \cup OneColumns \cup OwnerColumns => col[f] = old.col[f]
      /\ f \in OwnerColumns \ (DataColumns \cup OneColumns) => col[f] = Top.ctx.ownerKey
  OBVIOUS
<1> HIDE DEF base, type, col, idx
<1>5. row.table = old.table /\ row.col = col /\ row.idx = idx
  BY <1>3 DEF Row
<1>6. row.table = Top.table /\ (~IsMany(f) => row.idx[f] = old.idx[f])
  BY <1>2, <1>4, <1>5
<1>7. f \in DataColumns \cup OneColumns \cup OwnerColumns \/ row.col[f] = old.col[f]
  BY <1>4, <1>5
<1>8. ASSUME IsMany(f)
      PROVE  \/ row.col[f] = old.col[f] /\ row.idx[f] = old.idx[f]
             \/ f = Top.ctx.owner /\ row.col[f] = Top.ctx.ownerKey
  <2>1. f \notin DataColumns \cup OneColumns
    BY <1>2, <1>8 DEF IsMany, IsOne, IsData
  <2>. QED BY <1>4, <1>5, <2>1 DEF OwnerColumns
<1>. QED BY <1>2, <1>6, <1>7, <1>8

\* The row the engine writes and the row it takes the place of.
LEMMA WriteParts ==
    ASSUME EngineInv, KeysAreFresh, ExecWrite, ~Aborts
    PROVE  \E row \in Row, old \in Row :
              /\ db' = [db EXCEPT ![Top.pk] = row]
              /\ SatisfiesKeys(db, row)
              /\ old.table = Top.table /\ row = WrittenRow(old)
              /\ IF Top.ctx.upd
                 THEN Top.pk \in Rows(db) /\ old = db[Top.pk]
                 ELSE /\ Top.pk \notin Rows(db) \cup Rows(call.before)
                      /\ old = EmptyRow(Top.table)
<1>1. /\ ~(IF Top.ctx.upd THEN UpdateFails ELSE InsertFails)
      /\ Top \in ExecFrames /\ Top.pk \in Key /\ DataOK
      /\ IF Top.ctx.upd THEN Top.pk \in RowsOf(db, Top.table) ELSE Pending(Top)
  BY WrittenRows
<1> DEFINE old == IF Top.ctx.upd THEN db[Top.pk] ELSE EmptyRow(Top.table)
<1>2. PICK row \in Row : row = WrittenRow(old) /\ db' = [db EXCEPT ![Top.pk] = row]
  BY WrittenRows
<1>3. old \in Row /\ old.table = Top.table
  <2>1. CASE Top.ctx.upd
    BY <1>1, <2>1 DEF RowsOf, Rows, DataOK
  <2>2. CASE ~Top.ctx.upd
    BY <1>1, <2>2 DEF EmptyRow, Row, ExecFrames
  <2>. QED BY <2>1, <2>2
<1>4. SatisfiesKeys(db, row)
  BY <1>1, <1>2 DEF UpdateFails, InsertFails
<1>5. ~Top.ctx.upd => Top.pk \notin Rows(db) \cup Rows(call.before)
  <2>1. ~Idle
    BY DEF ExecWrite, At
  <2>2. 1 \in DOMAIN stack /\ Top = stack[1]
    <3>1. stack \in Seq(Frame) /\ stack # <<>>
      BY <2>1 DEF EngineInv, TypeOK, Idle
    <3> HIDE DEF Frame
    <3>. QED BY <3>1 DEF Top
  <2>. QED BY <1>1, <2>2 DEF KeysAreFresh
<1>6. Top.ctx.upd => Top.pk \in Rows(db)
  BY <1>1 DEF RowsOf
<1>. QED BY <1>2, <1>3, <1>4, <1>5, <1>6

\* Every step of the engine keeps the rows whole.
LEMMA StepKeepsRows ==
    ASSUME DataInv, Step
    PROVE  RowsAreKept'
<1>1. EngineInv /\ TypeOK /\ db \in [Key -> Row \cup {NoRow}] /\ KeysAreFresh /\ RowsAreKept
  BY DEF DataInv, EngineInv, TypeOK
<1>2. durable' \in {db, db', durable} /\ call'.before = call.before
  <2>1. CASE Locks \/ Works
    BY <2>1 DEF Locks, Works
  <2>2. CASE Ends \/ Aborts
    BY <1>1, <2>2 DEF Ends, Finish, CommitAndLeave, Aborts, Abort, TypeOK
  <2>. QED BY <1>1, <2>1, <2>2, StepParts
<1>3. IsKept(db')
  <2>1. CASE Aborts
    BY <1>1, <2>1 DEF Aborts, Abort, RowsAreKept
  <2>2. CASE ExecWrite /\ ~Aborts
    <3>1. PICK row \in Row, old \in Row :
              /\ db' = [db EXCEPT ![Top.pk] = row]
              /\ SatisfiesKeys(db, row)
              /\ old.table = Top.table /\ row = WrittenRow(old)
              /\ IF Top.ctx.upd
                 THEN Top.pk \in Rows(db) /\ old = db[Top.pk]
                 ELSE /\ Top.pk \notin Rows(db) \cup Rows(call.before)
                      /\ old = EmptyRow(Top.table)
      BY <1>1, <2>2, WriteParts
    <3>2. Top.pk \in Key /\ ~Idle /\ Top.kind = "exec"
      BY <1>1, <2>2, WrittenRows DEF ExecWrite, At
    <3>3. row.table = Top.table
      BY <1>1, <3>1, <3>2, WrittenColumns DEF WrittenRow, Row
    <3>4. Top.pk \in Rows(db) => db[Top.pk].table = row.table
      BY <3>1, <3>3
    <3>5. ASSUME NEW f \in Field, ~IsData(f) PROVE row.col[f] \in Rows(db) \cup {Null}
      <4>1. CASE row.col[f] = old.col[f]
        <5>1. CASE Top.ctx.upd
          BY <1>1, <3>1, <3>5, <4>1, <5>1 DEF RowsAreKept, IsKept, LinksAreKept
        <5>2. CASE ~Top.ctx.upd
          BY <3>1, <4>1, <5>2 DEF EmptyRow
        <5>. QED BY <5>1, <5>2
      <4>2. CASE f \in Range(OneFields[Top.table]) \cup ForeignKeyFields(Top.table)
        BY <3>1, <3>3, <4>2 DEF SatisfiesKeys, RowsOf
      <4>. QED BY <1>1, <3>1, <3>2, <3>5, <4>1, <4>2, WrittenColumns
    <3>. QED BY <1>1, <3>1, <3>2, <3>4, <3>5, WriteKeeps DEF RowsAreKept
  <2>3. CASE ~ExecWrite /\ ~Aborts
    <3>1. \/ db' = db
          \/ \E S : db' = DeleteRows(db, S)
          \/ \E f \in Field : IsMany(f) /\ \E k : db' = Unlinked(f, k)
      BY <1>1, <2>3, DataSteps
    <3>2. CASE \E S : db' = DeleteRows(db, S)
      BY <1>1, <3>2, DeleteRowsKeeps DEF RowsAreKept
    <3>3. CASE \E f \in Field : IsMany(f) /\ \E k : db' = Unlinked(f, k)
      BY <1>1, <3>3, UnlinkedKeeps DEF RowsAreKept
    <3>. QED BY <1>1, <3>1, <3>2, <3>3 DEF RowsAreKept
  <2>. QED BY <2>1, <2>2, <2>3
<1>. QED BY <1>1, <1>2, <1>3 DEF RowsAreKept

\* A row that stays keeps a value its filter excludes if the step keeps it, or
\* sets it to NULL because the row it pointed to goes.
LEMMA StepKeepsValues ==
    ASSUME DataInv, Step
    PROVE  UpdateKeeps'
<1>1. EngineInv /\ TypeOK /\ db \in [Key -> Row \cup {NoRow}] /\ KeysAreFresh /\ RowsAreKept
      /\ UpdateKeeps
  BY DEF DataInv, EngineInv, TypeOK
<1>2. ~Idle /\ call.result = "none"
  <2>1. ~Idle
    BY DEF Step, ApplyBegin, ApplyEnd, EachBegin, EachNext, ExecKey, ExecBase, ExecOne,
       ExecAfter, ExecWrite, ExecMany, ExecCleanup, Cleanup, DestroyBegin, DestroyDelete,
       DestroyEnd, At
  <2>. QED BY <1>1, <2>1, RunningCall
<1>3. CASE Aborts
  <2>1. call'.result \in {"error", "failed"}
    BY <1>1, <1>3 DEF Aborts, Abort, TypeOK
  <2>. QED BY <2>1 DEF UpdateKeeps
<1>4. ASSUME ~Aborts
      PROVE  call'.before = call.before /\ call'.op = call.op
  <2>1. CASE Locks \/ Works
    BY <2>1 DEF Locks, Works
  <2>2. CASE Ends
    BY <1>1, <2>2 DEF Ends, Finish, TypeOK
  <2>. QED BY <1>1, <1>4, <2>1, <2>2, StepParts
<1>5. ASSUME ~Aborts, filter' = filter, Rows(db') \cap Rows(call.before) \subseteq Rows(db),
             \A r \in Rows(call.before) : r \notin Rows(db) => r \notin Rows(db'),
             \A k \in Rows(db') \cap Rows(call.before) : \A f \in Field :
                f \in filter /\ ~IsMany(f) /\ call.op = "update" =>
                   /\ db'[k].idx[f] = db[k].idx[f]
                   /\ \/ db'[k].col[f] = db[k].col[f]
                      \/ /\ db'[k].col[f] = Null /\ ~IsData(f)
                         /\ db[k].col[f] \notin Rows(db')
      PROVE  UpdateKeeps'
  <2>1. SUFFICES ASSUME call.op = "update",
                        NEW k \in Rows(db') \cap Rows(call.before), NEW f \in Field,
                        f \in filter, ~IsMany(f)
                 PROVE  ColumnIsKept(k, f)'
    BY <1>4, <1>5 DEF UpdateKeeps
  <2> DEFINE was == call.before[k].col[f]
  <2>2. /\ db[k].idx[f] = call.before[k].idx[f]
        /\ \/ db[k].col[f] = was
           \/ db[k].col[f] = Null /\ ~IsData(f) /\ was \notin Rows(db)
    BY <1>1, <1>2, <1>5, <2>1 DEF UpdateKeeps, ColumnIsKept
  <2>3. /\ db'[k].idx[f] = db[k].idx[f]
        /\ \/ db'[k].col[f] = db[k].col[f]
           \/ db'[k].col[f] = Null /\ ~IsData(f) /\ db[k].col[f] \notin Rows(db')
    BY <1>5, <2>1
  <2>4. ~IsData(f) => was \in Rows(call.before) \cup {Null}
    BY <1>1, <2>1 DEF RowsAreKept, IsKept, LinksAreKept
  <2>5. Null \notin Rows(db')
    BY DatabaseAssumption DEF Rows
  <2>6. ~IsData(f) /\ was \notin Rows(db) => was \notin Rows(db')
    BY <1>5, <2>4, <2>5
  <2>7. /\ db'[k].idx[f] = call.before[k].idx[f]
        /\ \/ db'[k].col[f] = was
           \/ db'[k].col[f] = Null /\ ~IsData(f) /\ was \notin Rows(db')
    BY <2>2, <2>3, <2>6
  <2>. QED BY <1>4, <1>5, <2>7 DEF ColumnIsKept
<1>6. CASE ExecWrite /\ ~Aborts
  <2>1. PICK row \in Row, old \in Row :
            /\ db' = [db EXCEPT ![Top.pk] = row]
            /\ SatisfiesKeys(db, row)
            /\ old.table = Top.table /\ row = WrittenRow(old)
            /\ IF Top.ctx.upd
               THEN Top.pk \in Rows(db) /\ old = db[Top.pk]
               ELSE /\ Top.pk \notin Rows(db) \cup Rows(call.before)
                    /\ old = EmptyRow(Top.table)
    BY <1>1, <1>6, WriteParts
  <2>2. Top.pk \in Key /\ Top.kind = "exec" /\ filter' = filter
    BY <1>1, <1>6, WrittenRows DEF ExecWrite, At
  <2>3. /\ Rows(db') \subseteq Rows(db) \cup {Top.pk}
        /\ \A k \in Key : k # Top.pk => db'[k] = db[k]
        /\ db'[Top.pk] = row
    BY <1>1, <2>1, <2>2 DEF Rows
  <2>4. Top.pk \in Rows(call.before) => Top.ctx.upd /\ Top.pk \in Rows(db) /\ old = db[Top.pk]
    BY <2>1
  <2>5. ASSUME NEW k \in Rows(db') \cap Rows(call.before), NEW f \in Field,
               f \in filter, ~IsMany(f)
        PROVE  db'[k].idx[f] = db[k].idx[f] /\ db'[k].col[f] = db[k].col[f]
    <3>1. CASE k # Top.pk
      BY <2>3, <3>1 DEF Rows
    <3>2. CASE k = Top.pk
      BY <1>1, <1>2, <2>1, <2>2, <2>3, <2>4, <2>5, <3>2, WrittenColumns
    <3>. QED BY <3>1, <3>2
  <2>6. /\ Rows(db') \cap Rows(call.before) \subseteq Rows(db)
        /\ \A r \in Rows(call.before) : r \notin Rows(db) => r \notin Rows(db')
    BY <2>3, <2>4
  <2>. QED BY <1>5, <1>6, <2>2, <2>5, <2>6
<1>7. CASE ~ExecWrite /\ ~Aborts
  <2>1. /\ filter' = filter
        /\ \/ db' = db
           \/ \E S : db' = DeleteRows(db, S)
           \/ \E f \in Field : IsMany(f) /\ \E k : db' = Unlinked(f, k)
    BY <1>1, <1>7, DataSteps
  <2>2. CASE db' = db
    BY <1>5, <1>7, <2>1, <2>2
  <2>3. CASE \E S : db' = DeleteRows(db, S)
    <3>1. PICK gone \in SUBSET Key : Deleted(db, db', gone)
      BY <1>1, <2>3, DeleteRowsParts
    <3>2. Rows(db') = Rows(db) \ gone
      BY <3>1 DEF Deleted
    <3>3. ASSUME NEW k \in Rows(db'), NEW f \in Field
          PROVE  /\ db'[k].idx[f] = db[k].idx[f]
                 /\ \/ db'[k].col[f] = db[k].col[f]
                    \/ /\ db'[k].col[f] = Null /\ ~IsData(f)
                       /\ db[k].col[f] \notin Rows(db')
      <4>1. /\ db'[k].idx = db[k].idx
            /\ db'[k].col[f] = IF ~IsData(f) /\ db[k].col[f] \in gone
                               THEN Null ELSE db[k].col[f]
        BY <1>1, <3>1, DeletedRow
      <4>. QED BY <3>2, <4>1
    <3>. QED BY <1>5, <1>7, <2>1, <3>2, <3>3
  <2>4. CASE \E f \in Field : IsMany(f) /\ \E k : db' = Unlinked(f, k)
    <3>1. PICK f \in Field : IsMany(f) /\ \E k : db' = Unlinked(f, k)
      BY <2>4
    <3>2. /\ Rows(db') = Rows(db)
          /\ \A r \in Rows(db) : \A g \in Field : g # f =>
                db'[r].col[g] = db[r].col[g] /\ db'[r].idx[g] = db[r].idx[g]
      BY <1>1, <3>1, UnlinkedKeeps DEF RowsAreKept
    <3>. QED BY <1>5, <1>7, <2>1, <3>1, <3>2
  <2>. QED BY <2>1, <2>2, <2>3, <2>4
<1>. QED BY <1>3, <1>6, <1>7

-----------------------------------------------------------------------------
\* An empty database points nowhere.
LEMMA NoRowsAreKept == IsKept(NoRows) /\ Rows(NoRows) = {}
<1>1. Rows(NoRows) = {}
  BY DEF Rows, NoRows
<1>. QED BY <1>1 DEF IsKept, KeysAreKept, LinksAreKept

\* There is nothing to keep at first.
LEMMA InitData == Init => DataInv
<1> SUFFICES ASSUME Init PROVE DataInv
  OBVIOUS
<1>1. KeysAreFresh /\ FramesAreMarked
  BY DEF Init, KeysAreFresh, FramesAreMarked
<1>2. RowsAreKept /\ UpdateKeeps
  BY NoRowsAreKept DEF Init, NoCall, RowsAreKept, UpdateKeeps
<1>. QED BY <1>1, <1>2, InitEngine DEF DataInv

\* A call begins with nobody's element.
Unowned(f) == f.kind # "exec" /\ (f.kind \in {"apply", "each"} => f.ctx.owner = NoField)

\* Every step keeps it.
LEMMA NextData ==
    ASSUME DataInv, [Next]_vars
    PROVE  DataInv'
<1>1. EngineInv /\ KeysAreFresh /\ FramesAreMarked /\ RowsAreKept /\ UpdateKeeps /\ EngineInv'
  BY NextEngine DEF DataInv
<1>2. CASE Step
  BY <1>1, <1>2, StepKeepsFresh, StepKeepsMarked, StepKeepsRows, StepKeepsValues DEF DataInv
<1>3. CASE StatementFails
  <2>1. Abort("failed") /\ TypeOK
    BY <1>1, <1>3 DEF StatementFails, EngineInv
  <2>2. KeysAreFresh' /\ FramesAreMarked'
    BY <2>1 DEF Abort, KeysAreFresh, FramesAreMarked
  <2>3. call'.result = "failed" /\ call'.before = call.before
    BY <2>1 DEF Abort, TypeOK
  <2>4. RowsAreKept'
    BY <1>1, <2>1, <2>3 DEF Abort, RowsAreKept
  <2>5. UpdateKeeps'
    BY <2>3 DEF UpdateKeeps
  <2>. QED BY <1>1, <2>2, <2>4, <2>5 DEF DataInv
<1>4. CASE Edit \/ TakeLock \/ CommitLock \/ ReleaseLock
  <2>1. stack' = <<>> /\ call' = NoCall
    BY <1>4 DEF Edit, TakeLock, CommitLock, ReleaseLock, Idle
  <2>2. /\ db' \in {db, durable} /\ durable' \in {db, durable}
    BY <1>4 DEF Edit, TakeLock, CommitLock, ReleaseLock
  <2>3. NoCall.before = NoRows /\ NoCall.op = "none"
    BY DEF NoCall
  <2>4. KeysAreFresh' /\ FramesAreMarked'
    BY <2>1 DEF KeysAreFresh, FramesAreMarked
  <2>5. RowsAreKept'
    BY <1>1, <2>1, <2>2, <2>3, NoRowsAreKept DEF RowsAreKept
  <2>6. UpdateKeeps'
    BY <2>1, <2>3 DEF UpdateKeeps
  <2>. QED BY <1>1, <2>4, <2>5, <2>6 DEF DataInv
<1>5. CASE Calls
  <2>0. PICK op, objs, t, frame : Begin(op, objs, t, frame) /\ Unowned(frame)
    <3>1. ASSUME NEW upd \in BOOLEAN, NEW o, NEW t, CallObject(upd, o, t)
          PROVE  \E op, frame : Begin(op, <<o>>, t, frame) /\ Unowned(frame)
      BY <3>1 DEF CallObject, CreateOrUpdate, ApplyFrame, Unowned, NoOwner
    <3>2. ASSUME NEW o, NEW t, CallDestroy(o, t)
          PROVE  \E op, frame : Begin(op, <<o>>, t, frame) /\ Unowned(frame)
      BY <3>2 DEF CallDestroy, DestroyFrame, Unowned
    <3>3. ASSUME NEW upd \in BOOLEAN, NEW objs, NEW t, CallGroup(upd, objs, t)
          PROVE  \E op, frame : Begin(op, objs, t, frame) /\ Unowned(frame)
      BY <3>3 DEF CallGroup, CreateOrUpdate, EachFrame, Unowned, NoOwner
    <3>4. \/ \E upd \in BOOLEAN : \E o, t : CallObject(upd, o, t)
          \/ \E o, t : CallDestroy(o, t)
          \/ \E upd \in BOOLEAN : \E objs, t : CallGroup(upd, objs, t)
      BY <1>5 DEF Calls
    <3>. QED BY <3>1, <3>2, <3>3, <3>4
  <2>1. /\ UNCHANGED <<db, durable>> /\ call'.before = db
        /\ stack' = <<frame>> /\ ~Pending(frame) /\ Marked(frame)'
    BY <2>0, SchemaAssumption DEF Begin, Pending, Unowned, Marked, OwnerIsNew
  <2>2. KeysAreFresh' /\ FramesAreMarked'
    <3>1. \A n \in DOMAIN stack' : ~Pending(stack'[n])
      BY <2>1
    <3>2. FramesAreMarked'
      BY <2>1 DEF FramesAreMarked, Marked, OwnerIsNew, KeyIsNew
    <3>. QED BY <3>1, <3>2 DEF KeysAreFresh
  <2>3. RowsAreKept'
    BY <1>1, <2>1 DEF RowsAreKept
  <2>4. UpdateKeeps'
    BY <2>1 DEF UpdateKeeps, ColumnIsKept
  <2>. QED BY <1>1, <2>2, <2>3, <2>4 DEF DataInv
<1>6. CASE UNCHANGED vars
  <2>1. KeysAreFresh' /\ RowsAreKept' /\ UpdateKeeps'
    BY <1>1, <1>6 DEF vars, KeysAreFresh, RowsAreKept, UpdateKeeps, ColumnIsKept
  <2>2. FramesAreMarked'
    BY <1>1, <1>6 DEF vars, FramesAreMarked, Marked, OwnerIsNew, KeyIsNew
  <2>. QED BY <1>1, <2>1, <2>2 DEF DataInv
<1>. QED BY <1>2, <1>3, <1>4, <1>5, <1>6 DEF Next

\* The engine's invariant, its new keys, its rows and what an update keeps.
THEOREM DataCorrect == Spec => []DataInv
<1>. QED BY InitData, NextData, PTL DEF Spec

\* At every step, within a call too, every foreign key of a row, committed or
\* not, points to a row of the table it should or is a NULL its column allows:
\* no INSERT takes the key of another row, no DELETE leaves a key behind.
THEOREM KeysCorrect == Spec => [](KeysAreKept(db) /\ KeysAreKept(durable))
<1>1. DataInv => KeysAreKept(db) /\ KeysAreKept(durable)
  BY DEF DataInv, RowsAreKept, IsKept
<1>. QED BY <1>1, DataCorrect, PTL

\* An update that succeeds leaves the excluded data fields and keys of parts as
\* they were in every row it keeps, however deep in the objects the row is and
\* whatever the update inserts, deletes and writes on its way.
THEOREM ExcludedCorrect == Spec => []ExcludedValuesAreKept
<1>1. DataInv => ExcludedValuesAreKept
  BY DEF DataInv, UpdateKeeps, ExcludedValuesAreKept, ColumnsAreKept
<1>. QED BY <1>1, DataCorrect, PTL

\* A statement of an update leaves the elements of an excluded container, unless
\* it gives them to an owner the call has created or deletes their owner.
LEMMA StepKeepsElements ==
    ASSUME DataInv, Step, ~Aborts, call.op = "update",
           NEW k \in Rows(db) \cap Rows(db'), NEW f \in Field \cap filter, IsMany(f)
    PROVE  ElementStays(k, f)
<1>1. EngineInv /\ KeysAreFresh /\ FramesAreMarked /\ RowsAreKept /\ TypeOK
      /\ db \in [Key -> Row \cup {NoRow}]
  BY DEF DataInv, EngineInv, TypeOK
<1>2. CASE ExecWrite
  <2>1. PICK row \in Row, old \in Row :
            /\ db' = [db EXCEPT ![Top.pk] = row]
            /\ old.table = Top.table /\ row = WrittenRow(old)
            /\ IF Top.ctx.upd THEN old = db[Top.pk] ELSE Top.pk \notin Rows(db)
    BY <1>1, <1>2, WriteParts
  <2>2. Top.pk \in Key /\ Top.kind = "exec" /\ ~Idle
    BY <1>1, <1>2, WrittenRows DEF ExecWrite, At
  <2>3. CASE k # Top.pk
    <3>1. db'[k] = db[k]
      BY <1>1, <2>1, <2>2, <2>3 DEF Rows
    <3>. QED BY <3>1 DEF ElementStays
  <2>4. CASE k = Top.pk
    <3>1. db'[k] = row /\ old = db[k]
      BY <1>1, <2>1, <2>2, <2>4
    <3>2. OwnerIsNew(Top.ctx)
      BY <1>1, <2>2, MarkedTop DEF Marked
    <3>3. \/ row.col[f] = old.col[f] /\ row.idx[f] = old.idx[f]
          \/ f = Top.ctx.owner /\ row.col[f] = Top.ctx.ownerKey
      BY <1>1, <2>1, <2>2, WrittenColumns
    <3>. QED BY <3>1, <3>2, <3>3 DEF OwnerIsNew, ElementStays
  <2>. QED BY <2>3, <2>4
<1>3. CASE ~ExecWrite
  <2>1. \/ db' = db
        \/ \E S : db' = DeleteRows(db, S)
        \/ \E g \in Field : IsMany(g) /\ g \notin filter /\ \E o : db' = Unlinked(g, o)
    BY <1>1, <1>3, DataSteps
  <2>2. CASE db' = db
    BY <2>2 DEF ElementStays
  <2>3. CASE \E S : db' = DeleteRows(db, S)
    <3>1. PICK gone \in SUBSET Key : Deleted(db, db', gone)
      BY <1>1, <2>3, DeleteRowsParts
    <3>2. /\ db'[k].idx = db[k].idx
          /\ db'[k].col[f] = IF ~IsData(f) /\ db[k].col[f] \in gone THEN Null ELSE db[k].col[f]
      BY <1>1, <3>1, DeletedRow
    <3>3. \A o \in gone : o \notin Rows(db')
      BY <3>1 DEF Deleted
    <3>. QED BY <3>2, <3>3 DEF ElementStays
  <2>4. CASE \E g \in Field : IsMany(g) /\ g \notin filter /\ \E o : db' = Unlinked(g, o)
    <3>1. PICK g \in Field : IsMany(g) /\ g \notin filter /\ \E o : db' = Unlinked(g, o)
      BY <2>4
    <3>2. db'[k].col[f] = db[k].col[f] /\ db'[k].idx[f] = db[k].idx[f]
      BY <1>1, <3>1, UnlinkedKeeps DEF RowsAreKept
    <3>. QED BY <3>2 DEF ElementStays
  <2>. QED BY <2>1, <2>2, <2>3, <2>4
<1>. QED BY <1>2, <1>3

\* No statement of an update takes an element from its owner through a container
\* its filter excludes, or gives it to another object that was there before.
THEOREM ElementsCorrect == Spec => ExcludedElementsStay
<1>1. ASSUME DataInv, [Next]_vars, ~Idle, call.op = "update", call'.result \in {"none", "ok"},
             NEW k \in Rows(db) \cap Rows(db'), NEW f \in Field \cap filter, IsMany(f)
      PROVE  ElementStays(k, f)
  <2>1. CASE Step
    <3>1. ~Aborts
      <4>1. ASSUME NEW result \in {"error", "failed"}, Abort(result)
            PROVE  call'.result = result
        BY <1>1, <4>1 DEF Abort, DataInv, EngineInv, TypeOK
      <4>. QED BY <1>1, <4>1 DEF Aborts
    <3>. QED BY <1>1, <2>1, <3>1, StepKeepsElements
  <2>2. CASE StatementFails
    <3>1. call'.result = "failed"
      BY <1>1, <2>2 DEF StatementFails, Abort, DataInv, EngineInv, TypeOK
    <3>. QED BY <1>1, <3>1
  <2>3. CASE Edit \/ TakeLock \/ CommitLock \/ ReleaseLock \/ Calls
    BY <1>1, <2>3 DEF Edit, TakeLock, CommitLock, ReleaseLock, Calls, Idle
  <2>4. CASE UNCHANGED vars
    BY <2>4 DEF vars, ElementStays
  <2>. QED BY <1>1, <2>1, <2>2, <2>3, <2>4 DEF Next
<1>2. DataInv /\ [Next]_vars =>
        [~Idle /\ call.op = "update" /\ call'.result \in {"none", "ok"} =>
           \A k \in Rows(db) \cap Rows(db'), f \in Field \cap filter :
              IsMany(f) => ElementStays(k, f)]_vars
  BY <1>1
<1>. QED BY <1>2, DataCorrect, PTL DEF Spec, ExcludedElementsStay

=============================================================================
