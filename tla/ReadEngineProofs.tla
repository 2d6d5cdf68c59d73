-------------------------- MODULE ReadEngineProofs --------------------------
(***************************************************************************)
(* For every schema, every world of stored objects and every sequence of   *)
(* calls: a read takes all cells of its rows, it writes where nothing was  *)
(* read yet, and its statements fit the filter that is set.                *)
(***************************************************************************)
EXTENDS ReadEngine, SelectReadProofs

-----------------------------------------------------------------------------
(* The steps of a row: where they write, and what they put on the list.    *)

\* The contexts make_read_context() and foreign_read() make, and what is saved
\* of the calls under way.
Place == Seq(Nat \cup Field)
ReadContext ==
    [kind : {"value", "optional", "pointer", "values", "pointers", "fake"}, dyn : BOOLEAN,
     table : Table, place : Place, moves : BOOLEAN, count : Nat]
Frame == [ctx : ReadContext, skip : BOOLEAN]

Many == {f \in Field : IsMany(f)}

\* The places at p and in what is there, but for what further containers hold.
Spot(p) ==
    {x \in Place : /\ Len(p) <= Len(x) /\ \A k \in 1..Len(p) : x[k] = p[k]
                   /\ \A k \in Len(p) + 1..Len(x) : x[k] \notin Many}

\* The containers in what is there.
Beyond(p) ==
    {x \in Place : /\ Len(p) < Len(x) /\ \A k \in 1..Len(p) : x[k] = p[k]
                   /\ \A k \in Len(p) + 1..Len(x) - 1 : x[k] \notin Many
                   /\ x[Len(x)] \in Many}

\* The extractor's state; the last string is thrown when a row has ended.
Reader(s) ==
    /\ IsState(s)
    /\ s.skip \in BOOLEAN /\ s.ctx \in ReadContext /\ s.saved \in Seq(Frame)
    /\ \E X : s.pending \in Seq(X)
    /\ s.err # "not completely read"

\* From s to r nothing was written but at p and in what is there.
Wrote(p, s, r) ==
    /\ \A x \in DOMAIN s.heap : x \in DOMAIN r.heap /\ (x \notin Spot(p) => r.heap[x] = s.heap[x])
    /\ \A x \in DOMAIN r.heap : x \in DOMAIN s.heap \/ x \in Spot(p)

\* From s to r containers came on the list that are fields of the dataset at d, or
\* lie in such fields; these are in F, and no two containers are at one place.
Added(s, r) == Len(s.pending) + 1..Len(r.pending)
Adds(F, d, s, r) ==
    /\ Len(s.pending) <= Len(r.pending)
    /\ \A i \in 1..Len(s.pending) : r.pending[i] = s.pending[i]
    /\ \A i \in Added(s, r) : /\ r.pending[i].ctx \in ReadContext
                              /\ r.pending[i].ctx.place \in Beyond(d)
                              /\ r.pending[i].ctx.place[Len(d) + 1] \in F
    /\ \A i, j \in Added(s, r) : i # j => r.pending[i].ctx.place # r.pending[j].ctx.place

\* Steps that read fields of the dataset that is there.
ReadsOn(F, s, r) ==
    /\ Reader(r) /\ Wrote(s.ctx.place, s, r)
    /\ ~Failed(r) => /\ r.ctx = s.ctx /\ r.saved = s.saved /\ r.skip = s.skip
                     /\ s.skip => r.pending = s.pending
                     /\ Adds(F, Dataset(s.ctx), s, r)

\* Steps that make a dataset first, unless there is none.
Makes(F, s, r) ==
    /\ Reader(r) /\ Wrote(s.ctx.place, s, r)
    /\ ~Failed(r) => /\ r.ctx = [s.ctx EXCEPT !.count = r.ctx.count] /\ r.saved = s.saved
                     /\ \/ r.ctx.count = s.ctx.count
                        \/ /\ r.ctx.count = s.ctx.count + 1
                           /\ IsContainer(s.ctx) \/ s.ctx.count = 0
                     /\ s.skip => r.skip
                     /\ r.skip => r.pending = s.pending
                     /\ Adds(F, Dataset(r.ctx), s, r)

Sure(s, r) == ~Failed(r) => r.skip \/ r.ctx.count = s.ctx.count + 1

\* Such steps, wherever they start.
Reading(F, p) ==
    /\ p \in Seq(WalkStep)
    /\ \A q, s : Reader(s) /\ ~Failed(s) => ReadsOn(F, s, Run(q, s, p))
Making(F, p) ==
    /\ p \in Seq(WalkStep)
    /\ \A q, s : Reader(s) /\ ~Failed(s) => Makes(F, s, Run(q, s, p))
Surely(p) == \A q, s : Reader(s) /\ ~Failed(s) => Sure(s, Run(q, s, p))

-----------------------------------------------------------------------------
\* The list of the containers to be read has a length.
LEMMA PendingLength ==
    ASSUME NEW s, Reader(s)
    PROVE  Len(s.pending) \in Nat
<1>1. PICK X : s.pending \in Seq(X)
  BY DEF Reader
<1>. QED BY <1>1

\* Containers of a dataset that are put on the list first and others that follow are
\* in different places if they are in different fields.
LEMMA AddsThen ==
    ASSUME NEW s, NEW m, NEW r, Reader(s), Reader(m), Reader(r), NEW d \in Place, NEW F, NEW G,
           F \cap G = {}, Adds(F, d, s, m), Adds(G, d, m, r)
    PROVE  Adds(F \cup G, d, s, r)
<1>1. Len(s.pending) \in Nat /\ Len(m.pending) \in Nat /\ Len(r.pending) \in Nat
  BY PendingLength
<1>2. Len(s.pending) <= Len(m.pending) /\ Len(m.pending) <= Len(r.pending)
  BY DEF Adds
<1>3. ASSUME NEW i \in 1..Len(s.pending) PROVE r.pending[i] = s.pending[i]
  <2>1. i \in 1..Len(m.pending)
    BY <1>1, <1>2
  <2>. QED BY <2>1 DEF Adds
<1>4. ASSUME NEW i \in Added(s, r)
      PROVE  \/ i \in Added(s, m) /\ r.pending[i] = m.pending[i]
             \/ i \in Added(m, r)
  <2>1. CASE i <= Len(m.pending)
    <3>1. i \in Added(s, m) /\ i \in 1..Len(m.pending)
      BY <1>1, <2>1 DEF Added
    <3>. QED BY <3>1 DEF Adds
  <2>2. CASE ~(i <= Len(m.pending))
    BY <1>1, <2>2 DEF Added
  <2>. QED BY <2>1, <2>2
<1>5. ASSUME NEW i \in Added(s, r)
      PROVE  /\ r.pending[i].ctx \in ReadContext /\ r.pending[i].ctx.place \in Beyond(d)
             /\ r.pending[i].ctx.place[Len(d) + 1] \in F \cup G
  BY <1>4 DEF Adds
<1>6. ASSUME NEW i \in Added(s, r), NEW j \in Added(s, r), i # j,
             r.pending[i].ctx.place = r.pending[j].ctx.place
      PROVE  FALSE
  <2>0. \A k \in Added(s, r) :
           IF k \in Added(m, r) THEN r.pending[k].ctx.place[Len(d) + 1] \in G
           ELSE r.pending[k].ctx.place[Len(d) + 1] \in F
    BY <1>4 DEF Adds
  <2>1. CASE i \in Added(m, r) /\ j \in Added(m, r)
    BY <1>6, <2>1 DEF Adds
  <2>2. CASE i \in Added(m, r) /\ j \notin Added(m, r)
    BY <1>6, <2>0, <2>2
  <2>3. CASE i \notin Added(m, r) /\ j \in Added(m, r)
    BY <1>6, <2>0, <2>3
  <2>4. CASE i \notin Added(m, r) /\ j \notin Added(m, r)
    BY <1>4, <1>6, <2>4 DEF Adds
  <2>. QED BY <2>1, <2>2, <2>3, <2>4
<1>. QED BY <1>1, <1>2, <1>3, <1>5, <1>6 DEF Adds

\* Containers in some fields are containers in more fields.
LEMMA AddsWider ==
    ASSUME NEW s, NEW r, NEW d, NEW F, NEW G, F \subseteq G, Adds(F, d, s, r)
    PROVE  Adds(G, d, s, r)
BY DEF Adds

\* Nothing is added if the list is the same.
LEMMA AddsNone ==
    ASSUME NEW s, Reader(s), NEW r, r.pending = s.pending, NEW d, NEW F
    PROVE  Adds(F, d, s, r)
<1>1. Len(s.pending) \in Nat
  BY PendingLength
<1>2. Added(s, r) = {}
  BY <1>1 DEF Added
<1>. QED BY <1>1, <1>2 DEF Adds

\* Two pieces of reading that write at one place write nowhere else together.
LEMMA WroteThen ==
    ASSUME NEW s, NEW m, NEW r, NEW p, Wrote(p, s, m), Wrote(p, m, r)
    PROVE  Wrote(p, s, r)
BY DEF Wrote

\* The dataset of a context is at its place or in the container there.
LEMMA DatasetSpot ==
    ASSUME NEW ctx \in ReadContext
    PROVE  Dataset(ctx) \in Spot(ctx.place)
<1>1. ctx.place \in Place /\ ctx.count \in Nat /\ Len(ctx.place) \in Nat
  BY DEF ReadContext, Place
<1>2. CASE ~IsContainer(ctx)
  BY <1>1, <1>2 DEF Dataset, Spot
<1>3. CASE IsContainer(ctx)
  <2>1. /\ Append(ctx.place, ctx.count) \in Place
        /\ Len(Append(ctx.place, ctx.count)) = Len(ctx.place) + 1
        /\ \A k \in 1..Len(ctx.place) : Append(ctx.place, ctx.count)[k] = ctx.place[k]
        /\ Append(ctx.place, ctx.count)[Len(ctx.place) + 1] = ctx.count
    BY <1>1, AppendProperties DEF Place
  <2>2. ctx.count \notin Many
    BY <1>1, ReadAssumption DEF Many
  <2>3. Dataset(ctx) = Append(ctx.place, ctx.count)
    BY <1>3 DEF Dataset
  <2> HIDE DEF Place
  <2>4. \A k \in Len(ctx.place) + 1..Len(ctx.place) + 1 : k = Len(ctx.place) + 1
    BY <1>1
  <2>5. \A k \in Len(ctx.place) + 1..Len(Dataset(ctx)) : Dataset(ctx)[k] \notin Many
    BY <2>1, <2>2, <2>3, <2>4
  <2>6. /\ Dataset(ctx) \in Place /\ Len(ctx.place) <= Len(Dataset(ctx))
        /\ \A k \in 1..Len(ctx.place) : Dataset(ctx)[k] = ctx.place[k]
    BY <1>1, <2>1, <2>3
  <2>. QED BY <2>5, <2>6 DEF Spot
<1>. QED BY <1>2, <1>3

\* Two pieces that read different fields of a dataset read both.
LEMMA ReadsThen ==
    ASSUME NEW s, NEW m, NEW r, NEW F, NEW G, F \cap G = {}, Reader(s),
           ReadsOn(F, s, m), ~Failed(m), ReadsOn(G, m, r)
    PROVE  ReadsOn(F \cup G, s, r)
<1>1. Reader(m) /\ Reader(r) /\ m.ctx = s.ctx
  BY DEF ReadsOn
<1>2. Wrote(s.ctx.place, s, r)
  BY <1>1, WroteThen DEF ReadsOn
<1>3. Dataset(s.ctx) \in Place
  BY DatasetSpot DEF Reader, Spot
<1>4. ASSUME ~Failed(r) PROVE Adds(F \cup G, Dataset(s.ctx), s, r)
  <2>1. Adds(F, Dataset(s.ctx), s, m) /\ Adds(G, Dataset(s.ctx), m, r)
    BY <1>1, <1>4 DEF ReadsOn
  <2>. QED BY <1>1, <1>3, <2>1, AddsThen
<1>. QED BY <1>1, <1>2, <1>4 DEF ReadsOn

\* A piece that makes a dataset, and one that reads other fields of it, make a
\* dataset with both.
LEMMA MakesThen ==
    ASSUME NEW s, NEW m, NEW r, NEW F, NEW G, F \cap G = {}, Reader(s),
           Makes(F, s, m), ~Failed(m), ReadsOn(G, m, r)
    PROVE  Makes(F \cup G, s, r) /\ (Sure(s, m) => Sure(s, r))
<1>1. /\ Reader(m) /\ Reader(r) /\ m.ctx = [s.ctx EXCEPT !.count = m.ctx.count]
      /\ ~Failed(r) => r.ctx = m.ctx /\ r.skip = m.skip
  BY DEF Makes, ReadsOn
<1>2. m.ctx.place = s.ctx.place
  BY <1>1 DEF Reader, ReadContext
<1>3. Wrote(s.ctx.place, s, r)
  BY <1>2, WroteThen DEF Makes, ReadsOn
<1>4. Dataset(m.ctx) \in Place
  BY <1>1, DatasetSpot DEF Reader, Spot
<1>5. ASSUME ~Failed(r) PROVE Adds(F \cup G, Dataset(r.ctx), s, r)
  <2>1. Adds(F, Dataset(m.ctx), s, m) /\ Adds(G, Dataset(m.ctx), m, r)
    BY <1>5 DEF Makes, ReadsOn
  <2>. QED BY <1>1, <1>4, <1>5, <2>1, AddsThen
<1>6. Sure(s, m) => Sure(s, r)
  BY <1>1 DEF Sure
<1>. QED BY <1>1, <1>3, <1>5, <1>6 DEF Makes, ReadsOn

\* For a piece that fails it does not matter which fields it was to read.
LEMMA MakesFailed ==
    ASSUME NEW s, NEW r, NEW F, NEW G, Failed(r)
    PROVE  /\ Makes(F, s, r) => Makes(G, s, r)
           /\ ReadsOn(F, s, r) => ReadsOn(G, s, r)
           /\ Sure(s, r)
BY DEF Makes, ReadsOn, Sure

-----------------------------------------------------------------------------
\* Doing nothing reads no fields.
LEMMA ReadingNone == \A F : Reading(F, <<>>)
<1>1. ASSUME NEW F, NEW q, NEW s, Reader(s), ~Failed(s) PROVE ReadsOn(F, s, Run(q, s, <<>>))
  BY <1>1, RunNone, AddsNone DEF ReadsOn, Wrote
<1>2. <<>> \in Seq(WalkStep)
  OBVIOUS
<1>. QED BY <1>1, <1>2 DEF Reading

\* Steps that read some fields read no others than more fields.
LEMMA ReadingWider ==
    ASSUME NEW p, NEW F, NEW G, F \subseteq G
    PROVE  (Reading(F, p) => Reading(G, p)) /\ (Making(F, p) => Making(G, p))
BY AddsWider DEF Reading, Making, ReadsOn, Makes

\* Steps that read different fields of the dataset that is there, one after the
\* other, read both.
LEMMA ReadingThen ==
    ASSUME NEW a, NEW b, NEW F, NEW G, F \cap G = {}, Reading(F, a), Reading(G, b)
    PROVE  Reading(F \cup G, a \o b)
<1>1. a \in Seq(WalkStep) /\ b \in Seq(WalkStep)
  BY DEF Reading
<1>2. ASSUME NEW q, NEW s, Reader(s), ~Failed(s)
      PROVE  ReadsOn(F \cup G, s, Run(q, s, a \o b))
  <2> DEFINE m == Run(q, s, a)
             r == Run(q, m, b)
  <2>1. Run(q, s, a \o b) = r
    BY <1>1, RunConcat
  <2>2. ReadsOn(F, s, m)
    BY <1>2 DEF Reading
  <2>3. CASE Failed(m)
    <3>1. r = m
      BY <1>1, <2>3, RunFailed
    <3>2. ReadsOn(F \cup G, s, m)
      <4> HIDE DEF m
      <4>. QED BY <2>2, <2>3, MakesFailed
    <3>. QED BY <2>1, <3>1, <3>2
  <2>4. CASE ~Failed(m)
    <3>1. Reader(m)
      BY <2>2 DEF ReadsOn
    <3>2. ReadsOn(G, m, r)
      BY <2>4, <3>1 DEF Reading
    <3> HIDE DEF m, r
    <3>3. ReadsOn(F \cup G, s, r)
      BY <1>2, <2>2, <2>4, <3>2, ReadsThen
    <3>. QED BY <2>1, <3>3
  <2>. QED BY <2>3, <2>4
<1>3. a \o b \in Seq(WalkStep)
  BY <1>1
<1>. QED BY <1>2, <1>3 DEF Reading

\* Steps that make a dataset, and then steps that read other fields of it, make a
\* dataset with both.
LEMMA MakingThen ==
    ASSUME NEW a, NEW b, NEW F, NEW G, F \cap G = {}, Making(F, a), Reading(G, b)
    PROVE  Making(F \cup G, a \o b) /\ (Surely(a) => Surely(a \o b))
<1>1. a \in Seq(WalkStep) /\ b \in Seq(WalkStep)
  BY DEF Reading, Making
<1>2. ASSUME NEW q, NEW s, Reader(s), ~Failed(s)
      PROVE  /\ Makes(F \cup G, s, Run(q, s, a \o b))
             /\ Sure(s, Run(q, s, a)) => Sure(s, Run(q, s, a \o b))
  <2> DEFINE m == Run(q, s, a)
             r == Run(q, m, b)
  <2>1. Run(q, s, a \o b) = r
    BY <1>1, RunConcat
  <2>2. Makes(F, s, m)
    BY <1>2 DEF Making
  <2>3. CASE Failed(m)
    <3>1. r = m
      BY <1>1, <2>3, RunFailed
    <3>2. Makes(F \cup G, s, m)
      <4> HIDE DEF m
      <4>. QED BY <2>2, <2>3, MakesFailed
    <3>. QED BY <2>1, <3>1, <3>2
  <2>4. CASE ~Failed(m)
    <3>1. Reader(m)
      BY <2>2 DEF Makes
    <3>2. ReadsOn(G, m, r)
      BY <2>4, <3>1 DEF Reading
    <3> HIDE DEF m, r
    <3>3. Makes(F \cup G, s, r) /\ (Sure(s, m) => Sure(s, r))
      BY <1>2, <2>2, <2>4, <3>2, MakesThen
    <3>. QED BY <2>1, <3>3 DEF m, r
  <2>. QED BY <2>3, <2>4
<1>3. a \o b \in Seq(WalkStep)
  BY <1>1
<1>. QED BY <1>2, <1>3 DEF Making, Surely

\* A list of pieces that read different fields of a dataset reads all of these
\* fields.
LEMMA ReadingFlatten ==
    ASSUME NEW pp \in Seq(Seq(WalkStep)), NEW F, \A i \in 1..Len(pp) : Reading(F[i], pp[i]),
           \A i, j \in 1..Len(pp) : i # j => F[i] \cap F[j] = {}
    PROVE  Reading(UNION {F[i] : i \in 1..Len(pp)}, FlattenSeq(pp))
<1>1. PICK g : Flattens(g, WalkStep, pp)
  BY FlattenFlattens
<1>2. Len(pp) \in Nat
  OBVIOUS
<1> DEFINE U(n) == UNION {F[i] : i \in 1..n}
           S == {n \in 0..Len(pp) : Reading(U(n), g[n])}
<1>3. 0 \in S
  BY <1>1, <1>2, ReadingNone DEF Flattens
<1>4. ASSUME NEW n \in 0..Len(pp), n \in S, n + 1 <= Len(pp) PROVE n + 1 \in S
  <2>1. n + 1 \in 1..Len(pp) /\ (n + 1) - 1 = n /\ n + 1 \in 0..Len(pp)
    BY <1>2, <1>4
  <2>2. g[n + 1] = g[n] \o pp[n + 1]
    BY <1>1, <2>1 DEF Flattens
  <2>3. \A i \in 1..n : i \in 1..Len(pp) /\ i # n + 1
    BY <1>2, <1>4
  <2>4. U(n) \cap F[n + 1] = {}
    BY <2>1, <2>3
  <2>5. U(n + 1) = U(n) \cup F[n + 1]
    <3>1. \A i : i \in 1..(n + 1) <=> i \in 1..n \/ i = n + 1
      BY <1>2
    <3>. QED BY <3>1
  <2>6. Reading(U(n), g[n]) /\ Reading(F[n + 1], pp[n + 1])
    BY <1>4, <2>1
  <2>7. Reading(U(n) \cup F[n + 1], g[n] \o pp[n + 1])
    <3> HIDE DEF U
    <3>. QED BY <2>4, <2>6, ReadingThen
  <2>. QED BY <2>1, <2>2, <2>5, <2>7
<1>5. Len(pp) \in S
  <2> HIDE DEF S
  <2>. QED BY <1>2, <1>3, <1>4, UpTo
<1>. QED BY <1>1, <1>5 DEF Flattens

-----------------------------------------------------------------------------
(* The fields and the tables of a hierarchy are different ones.            *)

\* What a loop appends of a list without repetitions has none.
LEMMA AmongInjective ==
    ASSUME NEW X, NEW s \in Seq(X), IsInjective(s), NEW P
    PROVE  IsInjective(Among(s, P))
<1>1. PICK g : Gathers(g, X, s, P)
  BY AmongGathers
<1>2. Len(s) \in Nat /\ DOMAIN s = 1..Len(s)
  OBVIOUS
<1> DEFINE Old(n) == \A i \in 1..Len(g[n]) : \E m \in 1..n : g[n][i] = s[m]
           Inj(n) == \A i, j \in 1..Len(g[n]) : g[n][i] = g[n][j] => i = j
           S == {n \in 0..Len(s) : Old(n) /\ Inj(n)}
<1>3. 0 \in S
  BY <1>1, <1>2 DEF Gathers
<1>4. ASSUME NEW n \in 0..Len(s), n \in S, n + 1 <= Len(s) PROVE n + 1 \in S
  <2>1. n + 1 \in 1..Len(s) /\ (n + 1) - 1 = n /\ n + 1 \in 0..Len(s) /\ n \in Nat
    BY <1>2, <1>4
  <2>2. /\ g[n + 1] = IF s[n + 1] \in P THEN Append(g[n], s[n + 1]) ELSE g[n]
        /\ g[n] \in Seq(X \cap P) /\ s[n + 1] \in X
    BY <1>1, <2>1 DEF Gathers
  <2>3. \A m \in 1..n : m \in 1..(n + 1) /\ m \in 1..Len(s) /\ m # n + 1
    BY <1>2, <2>1
  <2>4. CASE s[n + 1] \notin P
    BY <1>4, <2>1, <2>2, <2>3, <2>4
  <2>5. CASE s[n + 1] \in P
    <3> DEFINE a == g[n]
               b == g[n + 1]
    <3>1. /\ Len(a) \in Nat /\ Len(b) = Len(a) + 1 /\ b[Len(a) + 1] = s[n + 1]
          /\ \A i \in 1..Len(a) : b[i] = a[i]
      <4>1. s[n + 1] \in X \cap P /\ b = Append(a, s[n + 1])
        BY <2>2, <2>5
      <4>. QED BY <2>2, <4>1, AppendProperties
    <3>2. \A i \in 1..Len(b) : i \in 1..Len(a) \/ i = Len(a) + 1
      BY <3>1
    <3>3. Old(n) /\ Inj(n)
      BY <1>4
    <3> HIDE DEF a, b
    <3>4. ASSUME NEW i \in 1..Len(b) PROVE \E m \in 1..(n + 1) : b[i] = s[m]
      <4>1. CASE i \in 1..Len(a)
        <5>1. PICK m \in 1..n : a[i] = s[m]
          BY <3>3, <4>1 DEF a
        <5>. QED BY <2>3, <3>1, <4>1, <5>1
      <4>2. CASE i = Len(a) + 1
        <5>1. n + 1 \in 1..(n + 1)
          BY <2>1
        <5>. QED BY <3>1, <4>2, <5>1
      <4>. QED BY <3>2, <4>1, <4>2
    <3>5. ASSUME NEW i \in 1..Len(a) PROVE b[i] # b[Len(a) + 1]
      <4>1. PICK m \in 1..n : a[i] = s[m]
        BY <3>3 DEF a
      <4>2. s[m] # s[n + 1]
        BY <1>2, <2>1, <2>3 DEF IsInjective
      <4>. QED BY <3>1, <4>1, <4>2
    <3>6. ASSUME NEW i \in 1..Len(b), NEW j \in 1..Len(b), b[i] = b[j] PROVE i = j
      <4>1. CASE i \in 1..Len(a) /\ j \in 1..Len(a)
        <5>1. a[i] = a[j]
          BY <3>1, <3>6, <4>1
        <5>. QED BY <3>3, <4>1, <5>1 DEF a
      <4>. QED BY <3>2, <3>5, <3>6, <4>1
    <3>. QED BY <2>1, <3>4, <3>6 DEF b
  <2>. QED BY <2>4, <2>5
<1>5. Len(s) \in S
  <2> HIDE DEF S
  <2>. QED BY <1>2, <1>3, <1>4, UpTo
<1>6. Among(s, P) = g[Len(s)] /\ Among(s, P) \in Seq(X \cap P)
  BY <1>1, <1>2 DEF Gathers
<1>7. DOMAIN Among(s, P) = 1..Len(Among(s, P))
  BY <1>6
<1>. QED BY <1>5, <1>6, <1>7 DEF IsInjective

\* A table's vectors, less what is excluded, have no field twice, and none of
\* another table.
LEMMA KeptApart ==
    ASSUME NEW t \in Table, NEW excluded
    PROVE  /\ IsInjective(Kept(excluded, OneFields[t]))
           /\ IsInjective(Kept(excluded, ManyFields[t]))
           /\ Range(Kept(excluded, OneFields[t])) \subseteq Range(FieldsOf[t])
           /\ Range(Kept(excluded, ManyFields[t])) \subseteq Range(FieldsOf[t])
<1>1. FieldsOf[t] \in Seq(Field) /\ IsInjective(FieldsOf[t])
  BY SchemaAssumption, DeclarationAssumption
<1>2. ASSUME NEW P
      PROVE  LET s == Kept(excluded, Among(FieldsOf[t], P))
             IN IsInjective(s) /\ Range(s) \subseteq Range(FieldsOf[t])
  <2> DEFINE a == Among(FieldsOf[t], P)
             Q == {f \in Field : ~IsExcluded(excluded, f)
                                 /\ (IsData(f) \/ ~IsExcluded(excluded, RefOf[f]))}
  <2>1. a \in Seq(Field \cap P) /\ IsInjective(a) /\ Range(a) = Range(FieldsOf[t]) \cap P
    BY <1>1, AmongType, AmongInjective, AmongRange
  <2>2. Kept(excluded, a) = Among(a, Q)
    BY DEF Kept
  <2> HIDE DEF a, Q
  <2>3. IsInjective(Among(a, Q)) /\ Range(Among(a, Q)) = Range(a) \cap Q
    BY <2>1, AmongInjective, AmongRange
  <2>. QED BY <2>1, <2>2, <2>3 DEF a
<1> DEFINE ones == {f \in Field : IsOne(f)}
           manies == {f \in Field : IsMany(f)}
<1>3. OneFields[t] = Among(FieldsOf[t], ones) /\ ManyFields[t] = Among(FieldsOf[t], manies)
  BY DEF OneFields, ManyFields
<1> HIDE DEF ones, manies
<1>. QED BY <1>2, <1>3

\* A finite set is listed without repetitions.
LEMMA SetToSeqInjective ==
    ASSUME NEW S, IsFiniteSet(S)
    PROVE  IsInjective(SetToSeq(S))
<1>1. PICK f \in Bijection(1..Cardinality(S), S) : TRUE
  BY FS_CardinalityType DEF ExistsBijection
<1>2. f \in [1..Cardinality(S) -> S] /\ IsInjective(f)
  BY <1>1 DEF Bijection, Injection, IsInjective
<1>. QED BY <1>2 DEF SetToSeq

-----------------------------------------------------------------------------
\* The base tables of a table, itself among them, are tables.
LEMMA ChainType ==
    ASSUME NEW t \in Table
    PROVE  /\ Chain(t) \in SUBSET Table /\ t \in Chain(t)
           /\ \A u \in Chain(t) : BaseOf[u] # NoTable => BaseOf[u] \in Chain(t)
           /\ \A Y \in SUBSET Table :
                 t \in Y /\ (\A u \in Y : BaseOf[u] # NoTable => BaseOf[u] \in Y)
                    => Chain(t) \subseteq Y
<1> DEFINE links == [u \in Table |-> {BaseOf[u]} \ {NoTable}]
<1>1. links \in [Table -> SUBSET Table] /\ IsFiniteSet(Table)
  BY SchemaAssumption
<1>2. \A u \in Table : BaseOf[u] # NoTable <=> links[u] = {BaseOf[u]}
  OBVIOUS
<1>3. \A u \in Table : BaseOf[u] = NoTable <=> links[u] = {}
  OBVIOUS
<1> HIDE DEF links
<1>4. /\ Closure({t}, Table, links) \subseteq Table /\ {t} \cap Table \subseteq Closure({t}, Table, links)
      /\ \A u \in Closure({t}, Table, links) : links[u] \subseteq Closure({t}, Table, links)
  BY <1>1, ClosureClosed
<1>5. ASSUME NEW Y \in SUBSET Table, t \in Y, \A u \in Y : BaseOf[u] # NoTable => BaseOf[u] \in Y
      PROVE  Closure({t}, Table, links) \subseteq Y
  <2>1. \A u \in Y : links[u] \subseteq Y
    BY <1>2, <1>3, <1>5
  <2>2. {t} \cap Table \subseteq Y
    BY <1>5
  <2>. QED BY <1>1, <2>1, <2>2, ClosureLeast
<1>6. Chain(t) = Closure({t}, Table, links)
  BY DEF Chain, links
<1>. QED BY <1>2, <1>4, <1>5, <1>6

\* They are the table and the base tables of its base table; the table is not among
\* the latter.
LEMMA ChainStep ==
    ASSUME NEW t \in Table
    PROVE  /\ BaseOf[t] = NoTable => Chain(t) = {t}
           /\ BaseOf[t] # NoTable => /\ BaseOf[t] \in Table
                                     /\ Chain(t) = {t} \cup Chain(BaseOf[t])
                                     /\ t \notin Chain(BaseOf[t])
<1>1. CASE BaseOf[t] = NoTable
  <2>1. Chain(t) \subseteq {t}
    BY <1>1, ChainType
  <2>. QED BY <1>1, <2>1, ChainType
<1>2. CASE BaseOf[t] # NoTable
  <2>1. BaseOf[t] \in Table
    BY <1>2, SchemaAssumption
  <2> DEFINE Y == {t} \cup Chain(BaseOf[t])
  <2>2. Y \in SUBSET Table /\ t \in Y /\ \A u \in Y : BaseOf[u] # NoTable => BaseOf[u] \in Y
    BY <2>1, ChainType
  <2>3. Chain(t) \subseteq Y
    <3> HIDE DEF Y
    <3>. QED BY <2>2, ChainType
  <2>4. Chain(BaseOf[t]) \subseteq Chain(t)
    <3>1. /\ Chain(t) \in SUBSET Table /\ BaseOf[t] \in Chain(t)
          /\ \A u \in Chain(t) : BaseOf[u] # NoTable => BaseOf[u] \in Chain(t)
      BY <1>2, ChainType
    <3>. QED BY <2>1, <3>1, ChainType
  <2>5. t \in Chain(t)
    BY ChainType
  <2>. QED BY <1>2, <2>1, <2>3, <2>4, <2>5, DeclarationAssumption
<1>. QED BY <1>1, <1>2

\* The base tables of a base table of t are base tables of t.
LEMMA ChainTransitive ==
    ASSUME NEW t \in Table, NEW u \in Chain(t)
    PROVE  u \in Table /\ Chain(u) \subseteq Chain(t)
<1>1. u \in Table
  BY ChainType
<1>2. /\ Chain(t) \in SUBSET Table
      /\ \A v \in Chain(t) : BaseOf[v] # NoTable => BaseOf[v] \in Chain(t)
  BY ChainType
<1>. QED BY <1>1, <1>2, ChainType

\* Of two base tables of one table, one is a base table of the other.
LEMMA ChainLinear ==
    ASSUME NEW t \in Table, NEW u \in Chain(t), NEW v \in Chain(t)
    PROVE  u \in Chain(v) \/ v \in Chain(u)
<1> DEFINE Y == {x \in Table : u \in Chain(x) \/ x \in Chain(u)}
<1>1. u \in Table
  BY ChainTransitive
<1>2. t \in Y
  OBVIOUS
<1>3. ASSUME NEW x \in Y, BaseOf[x] # NoTable PROVE BaseOf[x] \in Y
  <2>1. BaseOf[x] \in Table /\ Chain(x) = {x} \cup Chain(BaseOf[x])
    BY <1>3, ChainStep
  <2>2. CASE u \in Chain(BaseOf[x])
    BY <2>1, <2>2
  <2>3. CASE x \in Chain(u)
    BY <1>1, <1>3, <2>1, <2>3, ChainType
  <2>4. x \in Chain(x)
    BY ChainType
  <2>5. u = x \/ u \in Chain(BaseOf[x]) \/ x \in Chain(u)
    BY <2>1
  <2>6. u = x => x \in Chain(u)
    BY <2>4
  <2>. QED BY <2>2, <2>3, <2>5, <2>6
<1>4. Y \in SUBSET Table
  OBVIOUS
<1>5. Chain(t) \subseteq Y
  <2> HIDE DEF Y
  <2>. QED BY <1>2, <1>3, <1>4, ChainType
<1>. QED BY <1>5

\* What is below a derived table is not below another one, and neither the table
\* itself nor one of its base tables.
LEMMA BelowApart ==
    ASSUME NEW t \in Table, NEW d \in DerivedTables(t)
    PROVE  /\ d \in Table /\ Below(d) \subseteq Below(t)
           /\ Below(d) \cap Chain(t) = {}
           /\ \A e \in DerivedTables(t) : e # d => Below(d) \cap Below(e) = {}
<1>1. d \in Table /\ BaseOf[d] = t /\ t # NoTable
  BY SchemaAssumption DEF DerivedTables
<1>2. Chain(d) = {d} \cup Chain(t) /\ d \notin Chain(t)
  BY <1>1, ChainStep
<1>3. ASSUME NEW x \in Below(d) PROVE x \in Below(t) /\ x \notin Chain(t)
  <2>1. x \in Table /\ d \in Chain(x)
    BY DEF Below
  <2>2. Chain(d) \subseteq Chain(x)
    BY <2>1, ChainTransitive
  <2>3. t \in Chain(t)
    BY ChainType
  <2>4. x \in Chain(t) => d \in Chain(t)
    BY <2>1, ChainTransitive
  <2>. QED BY <1>2, <2>1, <2>2, <2>3, <2>4 DEF Below
<1>4. ASSUME NEW e \in DerivedTables(t), e # d, NEW x \in Below(d), x \in Below(e) PROVE FALSE
  <2>1. e \in Table /\ BaseOf[e] = t
    BY DEF DerivedTables
  <2>2. Chain(e) = {e} \cup Chain(t) /\ e \notin Chain(t)
    BY <1>1, <2>1, ChainStep
  <2>3. x \in Table /\ d \in Chain(x) /\ e \in Chain(x)
    BY <1>4 DEF Below
  <2>4. d \in Chain(e) \/ e \in Chain(d)
    BY <2>3, ChainLinear
  <2>. QED BY <1>2, <1>4, <2>2, <2>4
<1>. QED BY <1>1, <1>3, <1>4

-----------------------------------------------------------------------------
\* The fields of some tables.
Declared(tables) == UNION {Range(FieldsOf[t]) : t \in tables}

\* The fields of different tables are different fields.
LEMMA DeclaredApart ==
    ASSUME NEW A \in SUBSET Table, NEW B \in SUBSET Table, A \cap B = {}
    PROVE  Declared(A) \cap Declared(B) = {}
BY DeclarationAssumption DEF Declared

\* The tables a call of read_table() comes to without leaving the dataset.
Visited(v) ==
    (IF v.read_base THEN Chain(v.table) ELSE {v.table})
    \cup IF v.read_derived /\ v.is_dynamic THEN Below(v.table) ELSE {}

-----------------------------------------------------------------------------
(* What each of the steps does.                                            *)

\* A change of one part of the state.
LEMMA StateExcept ==
    ASSUME NEW s, IsState(s), NEW x
    PROVE  /\ IsState([s EXCEPT !.err = x]) /\ IsState([s EXCEPT !.skip = x])
           /\ [s EXCEPT !.err = x].err = x /\ [s EXCEPT !.skip = x].skip = x
<1>1. IsState([s EXCEPT !.err = x])
  BY DEF IsState
<1>2. IsState([s EXCEPT !.skip = x])
  BY DEF IsState
<1>3. [s EXCEPT !.err = x].err = x /\ [s EXCEPT !.skip = x].skip = x
  BY DEF IsState
<1>. QED BY <1>1, <1>2, <1>3

\* A failure leaves everything as it is.
LEMMA FailReads ==
    ASSUME NEW s, Reader(s), NEW what, what \notin {"none", "not completely read"}
    PROVE  /\ \A F : ReadsOn(F, s, Fail(s, what)) /\ Makes(F, s, Fail(s, what))
           /\ Sure(s, Fail(s, what))
<1> DEFINE r == Fail(s, what)
<1>1. IsState(s)
  BY DEF Reader
<1>2. /\ IsState(r) /\ r.skip = s.skip /\ r.ctx = s.ctx /\ r.saved = s.saved
      /\ r.pending = s.pending /\ r.heap = s.heap /\ r.err = what
  <2>1. /\ r.i = s.i /\ r.skip = s.skip /\ r.ctx = s.ctx /\ r.saved = s.saved
        /\ r.pending = s.pending /\ r.heap = s.heap /\ r.err = what
    BY <1>1 DEF IsState, Fail
  <2>2. IsState(r)
    BY <1>1, StateExcept DEF Fail
  <2>. QED BY <2>1, <2>2
<1> HIDE DEF r
<1>3. Reader(r) /\ Failed(r) /\ Wrote(s.ctx.place, s, r)
  BY <1>2 DEF Reader, Failed, Wrote
<1>4. \A F : ReadsOn(F, s, r) /\ Makes(F, s, r)
  BY <1>3 DEF ReadsOn, Makes
<1>. QED BY <1>3, <1>4 DEF Sure, r

\* What is read before goes with what is read after, also if only the index differs.
LEMMA ReadsFromNext ==
    ASSUME NEW s, Reader(s)
    PROVE  LET next == [s EXCEPT !.i = @ + 1]
           IN /\ Reader(next) /\ (Failed(next) <=> Failed(s))
              /\ \A F, r : ReadsOn(F, next, r) => ReadsOn(F, s, r)
              /\ \A F, r : Makes(F, next, r) => Makes(F, s, r)
              /\ \A r : Sure(next, r) => Sure(s, r)
              /\ \A F : ~Failed(s) => ReadsOn(F, s, next)
<1> DEFINE next == [s EXCEPT !.i = @ + 1]
<1>0. IsState(s)
  BY DEF Reader
<1>1. /\ IsState(next) /\ next.skip = s.skip /\ next.ctx = s.ctx /\ next.saved = s.saved
      /\ next.pending = s.pending /\ next.heap = s.heap /\ next.err = s.err
  BY <1>0 DEF IsState
<1> HIDE DEF next
<1>2. Reader(next) /\ (Failed(next) <=> Failed(s))
  BY <1>1 DEF Reader, Failed
<1>3. ASSUME NEW F, NEW d, NEW r PROVE Adds(F, d, next, r) => Adds(F, d, s, r)
  BY <1>1 DEF Adds, Added
<1>4. ASSUME NEW p, NEW r PROVE Wrote(p, next, r) => Wrote(p, s, r)
  BY <1>1 DEF Wrote
<1>5. ASSUME NEW F, NEW r, ReadsOn(F, next, r) PROVE ReadsOn(F, s, r)
  BY <1>1, <1>3, <1>4, <1>5 DEF ReadsOn
<1>6. ASSUME NEW F, NEW r, Makes(F, next, r) PROVE Makes(F, s, r)
  BY <1>1, <1>3, <1>4, <1>6 DEF Makes
<1>7. ASSUME NEW r, Sure(next, r) PROVE Sure(s, r)
  BY <1>1, <1>7 DEF Sure
<1>8. ASSUME NEW F, ~Failed(s) PROVE ReadsOn(F, s, next)
  <2>1. Adds(F, Dataset(s.ctx), s, next)
    BY <1>1, AddsNone
  <2>. QED BY <1>1, <1>2, <2>1 DEF ReadsOn, Wrote
<1>. QED BY <1>2, <1>5, <1>6, <1>7, <1>8 DEF next

\* A value is set in the dataset that is there.
LEMMA SetReads ==
    ASSUME NEW s, Reader(s), ~Failed(s), NEW x, NEW value
    PROVE  ReadsOn({}, s, Set(s, x, value))
<1> DEFINE r == Set(s, x, value)
           d == Dataset(s.ctx)
<1>1. CASE r = Fail(s, "conversion")
  BY <1>1, FailReads
<1>2. CASE r = [s EXCEPT !.heap[d].got = (x :> value) @@ @]
  <2>0. IsState(s)
    BY DEF Reader
  <2>1. /\ IsState(r) /\ r.skip = s.skip /\ r.ctx = s.ctx /\ r.saved = s.saved
        /\ r.pending = s.pending /\ r.err = s.err
    <3>1. IsState(r)
      BY <1>2, <2>0 DEF IsState
    <3>2. r.skip = s.skip /\ r.ctx = s.ctx /\ r.saved = s.saved
      BY <1>2, <2>0 DEF IsState
    <3>3. r.pending = s.pending /\ r.err = s.err
      BY <1>2, <2>0 DEF IsState
    <3>. QED BY <3>1, <3>2, <3>3
  <2>2. DOMAIN r.heap = DOMAIN s.heap /\ \A p \in DOMAIN s.heap : p # d => r.heap[p] = s.heap[p]
    BY <1>2, <2>0 DEF IsState
  <2>3. d \in Spot(s.ctx.place)
    BY DatasetSpot DEF Reader
  <2> HIDE DEF r, d
  <2>4. Reader(r)
    BY <2>1 DEF Reader
  <2>5. Wrote(s.ctx.place, s, r)
    BY <2>2, <2>3 DEF Wrote
  <2>6. Adds({}, d, s, r)
    BY <2>1, AddsNone
  <2>. QED BY <2>1, <2>4, <2>5, <2>6 DEF ReadsOn, d, r
<1>. QED BY <1>1, <1>2 DEF Set

\* A step that reads a key or a data field puts nothing on the list.
LEMMA FieldReading ==
    ASSUME NEW step \in WalkStep, step.do \in {"key", "data"}
    PROVE  Reading({}, <<step>>)
<1>1. <<step>> \in Seq(WalkStep)
  OBVIOUS
<1>2. ASSUME NEW q, NEW s, Reader(s), ~Failed(s) PROVE ReadsOn({}, s, Run(q, s, <<step>>))
  <2> DEFINE r == ReadField(q, s, step.of)
             next == [s EXCEPT !.i = @ + 1]
  <2>1. Run(q, s, <<step>>) = r
    BY <1>2, RunOne DEF Do
  <2>2. \/ r = Fail(s, "out of range")
        \/ r = next
        \/ \E value : r = Set(next, step.of, value)
    BY DEF ReadField
  <2>3. ReadsOn({}, s, Fail(s, "out of range"))
    BY <1>2, FailReads
  <2>4. /\ Reader(next) /\ ~Failed(next) /\ ReadsOn({}, s, next)
        /\ \A u : ReadsOn({}, next, u) => ReadsOn({}, s, u)
    BY <1>2, ReadsFromNext
  <2> HIDE DEF r, next
  <2>5. \A value : ReadsOn({}, s, Set(next, step.of, value))
    BY <2>4, SetReads
  <2>6. ReadsOn({}, s, r)
    BY <2>2, <2>3, <2>4, <2>5
  <2>. QED BY <2>1, <2>6
<1>. QED BY <1>1, <1>2 DEF Reading

\* Any number of steps that read a key or a data field put nothing on the list.
LEMMA FieldsReading ==
    ASSUME NEW p \in Seq(WalkStep), \A i \in 1..Len(p) : p[i].do \in {"key", "data"}
    PROVE  Reading({}, p)
<1>1. ASSUME NEW q, NEW s, Reader(s), ~Failed(s) PROVE ReadsOn({}, s, Run(q, s, p))
  <2>1. PICK run : Runs(run, q, s, p)
    BY RunRounds
  <2>2. Len(p) \in Nat
    OBVIOUS
  <2> DEFINE S == {n \in 0..Len(p) : ReadsOn({}, s, run[n])}
  <2>3. 0 \in S
    <3>1. run[0] = s
      BY <2>1 DEF Runs
    <3>2. ReadsOn({}, s, s)
      BY <1>1, AddsNone DEF ReadsOn, Wrote
    <3>. QED BY <2>2, <3>1, <3>2
  <2>4. ASSUME NEW n \in 0..Len(p), n \in S, n + 1 <= Len(p) PROVE n + 1 \in S
    <3>1. n + 1 \in 1..Len(p) /\ (n + 1) - 1 = n /\ n + 1 \in 0..Len(p)
      BY <2>2, <2>4
    <3>2. run[n + 1] = Do(q, run[n], p[n + 1]) /\ p[n + 1] \in WalkStep
      BY <2>1, <3>1 DEF Runs
    <3>3. CASE Failed(run[n])
      <4>1. run[n + 1] = run[n]
        BY <3>2, <3>3 DEF Do
      <4>. QED BY <2>4, <3>1, <4>1
    <3>4. CASE ~Failed(run[n])
      <4>1. Reader(run[n]) /\ ReadsOn({}, s, run[n])
        BY <2>4 DEF ReadsOn
      <4>2. ReadsOn({}, run[n], Run(q, run[n], <<p[n + 1]>>))
        BY <3>1, <3>2, <3>4, <4>1, FieldReading DEF Reading
      <4>3. ReadsOn({}, run[n], run[n + 1])
        BY <3>2, <4>2, RunOne
      <4>4. ReadsOn({} \cup {}, s, run[n + 1])
        BY <1>1, <3>4, <4>1, <4>3, ReadsThen
      <4>. QED BY <3>1, <4>4
    <3>. QED BY <3>3, <3>4
  <2>5. Len(p) \in S
    <3> HIDE DEF S
    <3>. QED BY <2>2, <2>3, <2>4, UpTo
  <2>. QED BY <2>1, <2>5 DEF Runs
<1>. QED BY <1>1 DEF Reading

-----------------------------------------------------------------------------
\* emplace() makes a dataset at the place of the context, or as the next element in
\* it.
LEMMA EmplaceMakes ==
    ASSUME NEW s, Reader(s), ~Failed(s), ~s.skip, NEW class, NEW static
    PROVE  Makes({}, s, Emplace(s, class, static)) /\ Sure(s, Emplace(s, class, static))
<1> DEFINE r == Emplace(s, class, static)
           ctx == [s.ctx EXCEPT !.count = @ + 1]
           d == Dataset(ctx)
<1>1. CASE EmplaceError(s.ctx, static) # "none"
  <2>1. r = Fail(s, EmplaceError(s.ctx, static))
    BY <1>1 DEF Emplace
  <2>2. EmplaceError(s.ctx, static) # "not completely read"
    BY DEF EmplaceError
  <2>. QED BY <1>1, <2>1, <2>2, FailReads
<1>2. CASE EmplaceError(s.ctx, static) = "none"
  <2>1. r = [s EXCEPT !.ctx = ctx, !.heap = Put(s.heap, d, class)]
    BY <1>2 DEF Emplace
  <2>2. /\ IsState(r) /\ r.skip = s.skip /\ r.ctx = ctx /\ r.saved = s.saved
        /\ r.pending = s.pending /\ r.err = s.err /\ r.heap = Put(s.heap, d, class)
    <3> HIDE DEF ctx, d, r
    <3>. QED BY <2>1 DEF Reader, IsState
  <2>3. IsContainer(s.ctx) \/ ~(s.ctx.count > 0)
    BY <1>2 DEF EmplaceError
  <2>4. /\ ctx \in ReadContext /\ ctx.place = s.ctx.place /\ ctx.count = s.ctx.count + 1
        /\ s.ctx.count \in Nat /\ ctx = [s.ctx EXCEPT !.count = ctx.count]
    <3>1. s.ctx \in ReadContext
      BY DEF Reader
    <3> HIDE DEF Place
    <3>. QED BY <3>1 DEF ReadContext
  <2>5. d \in Spot(s.ctx.place)
    BY <2>4, DatasetSpot
  <2> HIDE DEF r, d, ctx
  <2>6. Reader(r)
    BY <2>2, <2>4 DEF Reader
  <2>7. Wrote(s.ctx.place, s, r)
    BY <2>2, <2>5 DEF Wrote, Put
  <2>8. Adds({}, Dataset(r.ctx), s, r)
    BY <2>2, AddsNone
  <2>9. s.ctx.count = 0 \/ IsContainer(s.ctx)
    BY <2>3, <2>4
  <2>. QED BY <2>2, <2>4, <2>6, <2>7, <2>8, <2>9 DEF Makes, Sure, r
<1>. QED BY <1>1, <1>2

\* A row that has no dataset makes none and is skipped.
LEMMA SkipMakes ==
    ASSUME NEW s, Reader(s), ~Failed(s)
    PROVE  LET r == [s EXCEPT !.skip = TRUE]
           IN Makes({}, s, r) /\ Sure(s, r)
<1> DEFINE r == [s EXCEPT !.skip = TRUE]
<1>1. /\ IsState(r) /\ r.skip = TRUE /\ r.ctx = s.ctx /\ r.saved = s.saved
      /\ r.pending = s.pending /\ r.err = s.err /\ r.heap = s.heap
  <2>0. IsState(s)
    BY DEF Reader
  <2>1. /\ r.i = s.i /\ r.skip = TRUE /\ r.ctx = s.ctx /\ r.saved = s.saved
        /\ r.pending = s.pending /\ r.err = s.err /\ r.heap = s.heap
    BY <2>0 DEF IsState
  <2>2. IsState(r)
    BY <2>0, StateExcept
  <2>. QED BY <2>1, <2>2
<1> HIDE DEF r
<1>2. Reader(r)
  BY <1>1 DEF Reader
<1>3. Adds({}, Dataset(r.ctx), s, r)
  BY <1>1, AddsNone
<1>4. s.ctx = [s.ctx EXCEPT !.count = s.ctx.count]
  BY DEF Reader, ReadContext
<1>. QED BY <1>1, <1>2, <1>3, <1>4 DEF Makes, Sure, Wrote, r

\* The step at the root of a hierarchy makes one dataset, skips the row or fails.
LEMMA RootMaking ==
    ASSUME NEW step \in WalkStep, step.do \in {"type", "make"}
    PROVE  Making({}, <<step>>) /\ Surely(<<step>>)
<1>1. <<step>> \in Seq(WalkStep)
  OBVIOUS
<1>2. ASSUME NEW q, NEW s, Reader(s), ~Failed(s)
      PROVE  Makes({}, s, Run(q, s, <<step>>)) /\ Sure(s, Run(q, s, <<step>>))
  <2> DEFINE next == [s EXCEPT !.i = @ + 1]
             Good(r) == Makes({}, s, r) /\ Sure(s, r)
  <2>0. Run(q, s, <<step>>) = Do(q, s, step)
    BY RunOne
  <2>1. Good(Fail(s, "out of range"))
    BY <1>2, FailReads
  <2>2. s.skip \in BOOLEAN
    BY <1>2 DEF Reader
  <2>3. CASE step.do = "make"
    <3>1. Do(q, s, step) = MakeStatic(q, s)
      BY <1>2, <2>3 DEF Do
    <3>2. \/ MakeStatic(q, s) = Fail(s, "out of range")
          \/ MakeStatic(q, s) = [s EXCEPT !.skip = TRUE]
          \/ ~s.skip /\ MakeStatic(q, s) = Emplace(s, s.ctx.table, TRUE)
      BY <2>2 DEF MakeStatic
    <3>3. Good([s EXCEPT !.skip = TRUE])
      BY <1>2, SkipMakes
    <3>4. ~s.skip => Good(Emplace(s, s.ctx.table, TRUE))
      BY <1>2, EmplaceMakes
    <3> HIDE DEF Good
    <3>5. Good(Do(q, s, step))
      BY <2>1, <3>1, <3>2, <3>3, <3>4
    <3>. QED BY <2>0, <3>5 DEF Good
  <2>4. CASE step.do = "type"
    <3>1. Do(q, s, step) = MakeDynamic(q, s)
      BY <1>2, <2>4 DEF Do
    <3>2. /\ Reader(next) /\ ~Failed(next)
          /\ \A r : Makes({}, next, r) /\ Sure(next, r) => Good(r)
      BY <1>2, ReadsFromNext
    <3>3. next.skip = s.skip
      BY <1>2 DEF Reader, IsState
    <3>4. \/ MakeDynamic(q, s) = Fail(s, "out of range")
          \/ MakeDynamic(q, s) = [next EXCEPT !.skip = TRUE]
          \/ ~s.skip /\ MakeDynamic(q, s) = EmplaceTyped(q, next, CellAt(q, s))
      BY <2>2 DEF MakeDynamic
    <3> HIDE DEF next, Good
    <3>5. Good([next EXCEPT !.skip = TRUE])
      BY <3>2, SkipMakes
    <3>6. ~s.skip => Good(EmplaceTyped(q, next, CellAt(q, s)))
      <4>1. \/ EmplaceTyped(q, next, CellAt(q, s)) = Fail(next, "unable to find derived table")
            \/ EmplaceTyped(q, next, CellAt(q, s)) = Fail(next, "not a derived type")
            \/ EmplaceTyped(q, next, CellAt(q, s)) = Emplace(next, CellAt(q, s), FALSE)
        BY DEF EmplaceTyped
      <4>2. Good(Fail(next, "unable to find derived table")) /\ Good(Fail(next, "not a derived type"))
        BY <3>2, FailReads
      <4>3. ~s.skip => Good(Emplace(next, CellAt(q, s), FALSE))
        BY <3>2, <3>3, EmplaceMakes
      <4>. QED BY <4>1, <4>2, <4>3
    <3>7. Good(Do(q, s, step))
      BY <2>1, <3>1, <3>4, <3>5, <3>6
    <3>. QED BY <2>0, <3>7 DEF Good
  <2>. QED BY <2>3, <2>4
<1>. QED BY <1>1, <1>2 DEF Making, Surely

-----------------------------------------------------------------------------
\* The many fields of a table come on the list for the dataset that is there.
LEMMA ManyReading ==
    ASSUME NEW t \in Table
    PROVE  Reading(Range(FieldsOf[t]) \cap Many, <<Step("many", t)>>)
<1>1. <<Step("many", t)>> \in Seq(WalkStep)
  BY DEF Step, WalkStep
<1>2. ASSUME NEW q, NEW s, Reader(s), ~Failed(s)
      PROVE  ReadsOn(Range(FieldsOf[t]) \cap Many, s, Run(q, s, <<Step("many", t)>>))
  <2> DEFINE r == AddPending(q, s, t)
             F == Range(FieldsOf[t]) \cap Many
             d == Dataset(s.ctx)
             fields == Kept(q.excluded, ManyFields[t])
             new == [i \in DOMAIN fields |->
                       [field |-> fields[i], owner |-> s.heap[d].got[t],
                        ctx |-> ManyContext(fields[i], d)]]
  <2>1. Run(q, s, <<Step("many", t)>>) = r
    BY <1>2, RunOne DEF Do, Step
  <2>2. CASE s.skip
    <3>1. r = s
      BY <2>2 DEF AddPending
    <3>. QED BY <1>2, <2>1, <3>1, AddsNone DEF ReadsOn, Wrote
  <2>3. CASE ~s.skip
    <3>1. r = [s EXCEPT !.pending = @ \o new]
      BY <2>3 DEF AddPending
    <3>2. /\ fields \in Seq(Many) /\ IsInjective(fields)
          /\ Range(fields) \subseteq Range(FieldsOf[t])
      BY KeptFields, KeptApart DEF Many
    <3>3. d \in Place
      BY <1>2, DatasetSpot DEF Reader, Spot
    <3> HIDE DEF d
    <3>4. ASSUME NEW f \in Many
          PROVE  /\ ManyContext(f, d) \in ReadContext
                 /\ ManyContext(f, d).place = Append(d, f)
                 /\ Append(d, f) \in Beyond(d) /\ Append(d, f)[Len(d) + 1] = f
      <4>1. f \in Field /\ RefOf[f] \in Table
        BY SchemaAssumption DEF Many, IsMany
      <4>2. /\ Append(d, f) \in Place /\ Len(Append(d, f)) = Len(d) + 1 /\ Len(d) \in Nat
            /\ \A k \in 1..Len(d) : Append(d, f)[k] = d[k] /\ Append(d, f)[Len(d) + 1] = f
        BY <3>3, <4>1, AppendProperties DEF Place
      <4>2a. Append(d, f)[Len(d) + 1] = f
        BY <3>3, <4>1, AppendProperties DEF Place
      <4>3. ManyContext(f, d) \in ReadContext /\ ManyContext(f, d).place = Append(d, f)
        <5>1. Append(d, f) \in Place
          BY <4>2
        <5> DEFINE a == Append(d, f)
        <5> HIDE DEF a
        <5>2. ManyContext(f, d) = Context(IF f \in PointerField THEN "pointers" ELSE "values",
                                          RefOf[f], a, f \in VectorField)
          BY DEF ManyContext, a
        <5>3. a \in Place
          BY <5>1 DEF a
        <5> HIDE DEF Place
        <5>. QED BY <4>1, <5>2, <5>3 DEF Context, ReadContext, a
      <4>4. Append(d, f) \in Beyond(d)
        <5> DEFINE a == Append(d, f)
        <5>1. a \in Place /\ Len(a) = Len(d) + 1 /\ a[Len(a)] \in Many
          BY <4>2, <4>2a
        <5>2. \A k \in Len(d) + 1..Len(a) - 1 : FALSE
          BY <4>2
        <5>3. \A k \in 1..Len(d) : a[k] = d[k]
          BY <4>2
        <5>4. Len(d) < Len(a)
          BY <4>2
        <5> HIDE DEF a, Place
        <5>5. a \in Beyond(d)
          BY <5>1, <5>2, <5>3, <5>4 DEF Beyond
        <5>. QED BY <5>5 DEF a
      <4>. QED BY <4>2a, <4>3, <4>4
    <3>5. DOMAIN fields = 1..Len(fields) /\ Len(fields) \in Nat
      BY <3>2
    <3> HIDE DEF fields
    <3>6. /\ Len(new) = Len(fields) /\ DOMAIN new = 1..Len(fields) /\ new \in Seq(Range(new))
          /\ \A i \in 1..Len(fields) : new[i].ctx = ManyContext(fields[i], d)
      BY <3>5 DEF Range
    <3> HIDE DEF new
    <3>7. PICK X : s.pending \in Seq(X)
      BY <1>2 DEF Reader
    <3>8. /\ s.pending \in Seq(X \cup Range(new)) /\ new \in Seq(X \cup Range(new))
      BY <3>6, <3>7, SeqMonotonic
    <3> DEFINE all == s.pending \o new
               n == Len(s.pending)
    <3>9. /\ all \in Seq(X \cup Range(new)) /\ Len(all) = n + Len(fields) /\ n \in Nat
          /\ \A i \in 1..n : all[i] = s.pending[i]
          /\ \A i \in 1..Len(fields) : all[n + i] = new[i]
      <4> DEFINE Y == X \cup Range(new)
      <4>1. s.pending \in Seq(Y) /\ new \in Seq(Y)
        BY <3>8
      <4> HIDE DEF Y
      <4>2. /\ all \in Seq(Y) /\ Len(all) = n + Len(new) /\ n \in Nat
            /\ \A i \in 1..n : all[i] = s.pending[i]
            /\ \A i \in 1..Len(new) : all[n + i] = new[i]
        BY <4>1, ConcatElements
      <4>. QED BY <3>6, <4>2 DEF Y
    <3>10. /\ IsState(r) /\ r.skip = s.skip /\ r.ctx = s.ctx /\ r.saved = s.saved
           /\ r.pending = all /\ r.err = s.err /\ r.heap = s.heap
      BY <1>2, <3>1 DEF Reader, IsState
    <3> HIDE DEF all, r
    <3>11. Reader(r)
      BY <1>2, <3>9, <3>10 DEF Reader
    <3>12. ASSUME NEW i \in Added(s, r)
           PROVE  /\ i - n \in 1..Len(fields) /\ fields[i - n] \in Many
                  /\ r.pending[i].ctx = ManyContext(fields[i - n], d)
      <4>1. i - n \in 1..Len(fields) /\ n + (i - n) = i
        BY <3>5, <3>9, <3>10 DEF Added
      <4>2. fields[i - n] \in Many
        BY <3>2, <4>1
      <4>. QED BY <3>6, <3>9, <3>10, <4>1, <4>2
    <3>13. ASSUME NEW i \in Added(s, r)
           PROVE  /\ r.pending[i].ctx \in ReadContext /\ r.pending[i].ctx.place \in Beyond(d)
                  /\ r.pending[i].ctx.place[Len(d) + 1] = fields[i - n]
                  /\ fields[i - n] \in F
      <4>1. fields[i - n] \in Range(fields)
        BY <3>5, <3>12 DEF Range
      <4>. QED BY <3>2, <3>4, <3>12, <4>1
    <3>14. ASSUME NEW i \in Added(s, r), NEW j \in Added(s, r), i # j,
                  r.pending[i].ctx.place = r.pending[j].ctx.place
           PROVE  FALSE
      <4>1. fields[i - n] = fields[j - n]
        BY <3>13, <3>14
      <4>2. i - n = j - n
        BY <3>2, <3>5, <3>12, <4>1 DEF IsInjective
      <4>. QED BY <3>9, <3>10, <3>14, <4>2 DEF Added
    <3>15. Adds(F, d, s, r)
      <4>1. Len(s.pending) <= Len(r.pending)
        BY <3>5, <3>9, <3>10
      <4>. QED BY <3>9, <3>10, <3>13, <3>14, <4>1 DEF Adds
    <3>16. ReadsOn(F, s, r)
      BY <2>3, <3>10, <3>11, <3>15 DEF ReadsOn, Wrote, d
    <3>. QED BY <2>1, <3>16 DEF r
  <2>4. s.skip \in BOOLEAN
    BY <1>2 DEF Reader
  <2>. QED BY <2>2, <2>3, <2>4
<1>. QED BY <1>1, <1>2 DEF Reading

-----------------------------------------------------------------------------
(* What a part and a derived table do.                                     *)

\* What was saved last is taken off again.
LEMMA SavedLast ==
    ASSUME NEW X, NEW s \in Seq(X), NEW x \in X
    PROVE  /\ Append(s, x) \in Seq(X) /\ Last(Append(s, x)) = x /\ Front(Append(s, x)) = s
<1> DEFINE a == Append(s, x)
<1>1. /\ a \in Seq(X) /\ Len(a) = Len(s) + 1 /\ Len(s) \in Nat
      /\ \A i \in 1..Len(s) : a[i] = s[i]
      /\ a[Len(s) + 1] = x
  BY AppendProperties
<1>2. s = [i \in 1..Len(s) |-> s[i]]
  OBVIOUS
<1> HIDE DEF a
<1>3. Last(a) = x
  BY <1>1 DEF Last
<1>4. Len(a) - 1 = Len(s)
  BY <1>1
<1>5. Front(a) = [i \in 1..Len(s) |-> s[i]]
  BY <1>1, <1>4 DEF Front
<1>. QED BY <1>1, <1>2, <1>3, <1>5 DEF a

\* The places of a part are places of the dataset it is a part of.
LEMMA SpotWithin ==
    ASSUME NEW p \in Place, NEW d \in Spot(p), NEW f \in Field, f \notin Many
    PROVE  /\ Append(d, f) \in Place
           /\ Spot(Append(d, f)) \subseteq Spot(p)
           /\ \A x \in Beyond(Append(d, f)) : x \in Beyond(d) /\ x[Len(d) + 1] = f
<1> DEFINE a == Append(d, f)
<1>1. /\ d \in Place /\ Len(d) \in Nat /\ Len(p) \in Nat /\ Len(p) <= Len(d)
      /\ \A k \in 1..Len(p) : d[k] = p[k]
      /\ \A k \in Len(p) + 1..Len(d) : d[k] \notin Many
  BY DEF Spot, Place
<1>2. /\ a \in Place /\ Len(a) = Len(d) + 1 /\ a[Len(d) + 1] = f
      /\ \A k \in 1..Len(d) : a[k] = d[k]
  BY <1>1, AppendProperties DEF Place
<1> HIDE DEF a
<1>3. ASSUME NEW x \in Spot(a) PROVE x \in Spot(p)
  <2>1. /\ x \in Place /\ Len(x) \in Nat /\ Len(a) <= Len(x) /\ \A k \in 1..Len(a) : x[k] = a[k]
        /\ \A k \in Len(a) + 1..Len(x) : x[k] \notin Many
    BY DEF Spot, Place
  <2>2. ASSUME NEW k \in 1..Len(p) PROVE x[k] = p[k]
    <3>1. k \in 1..Len(d) /\ k \in 1..Len(a)
      BY <1>1, <1>2
    <3>. QED BY <1>1, <1>2, <2>1, <3>1
  <2>3. ASSUME NEW k \in Len(p) + 1..Len(x) PROVE x[k] \notin Many
    <3>1. CASE k \in Len(a) + 1..Len(x)
      BY <2>1, <3>1
    <3>2. CASE k = Len(d) + 1
      <4>1. k \in 1..Len(a)
        BY <1>1, <1>2, <3>2
      <4>. QED BY <1>2, <2>1, <3>2, <4>1
    <3>3. CASE k \in Len(p) + 1..Len(d)
      <4>1. k \in 1..Len(d) /\ k \in 1..Len(a)
        BY <1>1, <1>2, <3>3
      <4>. QED BY <1>1, <1>2, <2>1, <3>3, <4>1
    <3>. QED BY <1>1, <1>2, <2>1, <3>1, <3>2, <3>3
  <2>. QED BY <1>1, <1>2, <2>1, <2>2, <2>3 DEF Spot
<1>4. ASSUME NEW x \in Beyond(a) PROVE x \in Beyond(d) /\ x[Len(d) + 1] = f
  <2>1. /\ x \in Place /\ Len(x) \in Nat /\ Len(a) < Len(x) /\ \A k \in 1..Len(a) : x[k] = a[k]
        /\ \A k \in Len(a) + 1..Len(x) - 1 : x[k] \notin Many
        /\ x[Len(x)] \in Many
    BY DEF Beyond, Place
  <2>2. x[Len(d) + 1] = f
    <3>1. Len(d) + 1 \in 1..Len(a)
      BY <1>1, <1>2
    <3>. QED BY <1>2, <2>1, <3>1
  <2>3. ASSUME NEW k \in 1..Len(d) PROVE x[k] = d[k]
    <3>1. k \in 1..Len(a)
      BY <1>1, <1>2
    <3>. QED BY <1>2, <2>1, <3>1
  <2>4. ASSUME NEW k \in Len(d) + 1..Len(x) - 1 PROVE x[k] \notin Many
    <3>1. k = Len(d) + 1 \/ k \in Len(a) + 1..Len(x) - 1
      BY <1>1, <1>2, <2>1
    <3>. QED BY <2>1, <2>2, <3>1
  <2>5. Len(d) < Len(x)
    BY <1>1, <1>2, <2>1
  <2>. QED BY <2>1, <2>2, <2>3, <2>4, <2>5 DEF Beyond
<1>. QED BY <1>2, <1>3, <1>4 DEF a

\* A part is read as what it is, wherever it starts, and nothing else of the
\* dataset is.
LEMMA PartReading ==
    ASSUME NEW f \in Field, IsOne(f), NEW F, NEW p, Making(F, p)
    PROVE  Reading({f}, <<Step("part", f)>> \o p \o <<Step("finish", f)>>)
<1> DEFINE part == <<Step("part", f)>>
           finish == <<Step("finish", f)>>
<1>1. p \in Seq(WalkStep) /\ part \in Seq(WalkStep) /\ finish \in Seq(WalkStep)
  BY DEF Making, Step, WalkStep
<1>2. part \o p \in Seq(WalkStep) /\ (part \o p) \o finish \in Seq(WalkStep)
  BY <1>1, ConcatProperties
<1>3. ASSUME NEW q, NEW s, Reader(s), ~Failed(s)
      PROVE  ReadsOn({f}, s, Run(q, s, (part \o p) \o finish))
  <2> DEFINE s1 == EnterPart(s, f)
             s2 == Run(q, s1, p)
             s3 == Run(q, s2, finish)
             d == Dataset(s.ctx)
             frame == [ctx |-> s.ctx, skip |-> s.skip]
             place == Append(d, f)
  <2>1. Run(q, s, (part \o p) \o finish) = s3
    <3>3. Run(q, s, part) = s1
      BY <1>3, RunOne DEF Do, Step
    <3> HIDE DEF part, finish
    <3>1. Run(q, s, (part \o p) \o finish) = Run(q, Run(q, s, part \o p), finish)
      <4> DEFINE begin == part \o p
      <4>1. begin \in Seq(WalkStep)
        BY <1>2
      <4> HIDE DEF begin
      <4>2. Run(q, s, begin \o finish) = Run(q, Run(q, s, begin), finish)
        BY <1>1, <4>1, RunConcat
      <4>. QED BY <4>2 DEF begin
    <3>2. Run(q, s, part \o p) = Run(q, Run(q, s, part), p)
      BY <1>1, RunConcat
    <3>. QED BY <3>1, <3>2, <3>3
  <2>2. IsState(s) /\ s.ctx \in ReadContext /\ s.skip \in BOOLEAN /\ s.saved \in Seq(Frame)
    BY <1>3 DEF Reader
  <2>3. f \notin Many /\ RefOf[f] \in Table
    BY SchemaAssumption DEF Many, IsOne, IsMany
  <2>4. d \in Spot(s.ctx.place) /\ s.ctx.place \in Place
    BY <2>2, DatasetSpot DEF ReadContext
  <2> HIDE DEF d
  <2>5. /\ place \in Place /\ Spot(place) \subseteq Spot(s.ctx.place)
        /\ \A x \in Beyond(place) : x \in Beyond(d) /\ x[Len(d) + 1] = f
    BY <2>3, <2>4, SpotWithin
  <2> HIDE DEF place
  <2>6. frame \in Frame
    BY <2>2 DEF Frame
  <2>7. /\ Append(s.saved, frame) \in Seq(Frame) /\ Last(Append(s.saved, frame)) = frame
        /\ Front(Append(s.saved, frame)) = s.saved
    BY <2>2, <2>6, SavedLast
  <2>8. /\ PartContext(f, d, s.skip) \in ReadContext /\ PartContext(f, d, s.skip).place = place
        /\ ~IsContainer(PartContext(f, d, s.skip))
    <3> DEFINE kind == CASE f \in PointerField  -> "pointer"
                         [] f \in NullableField -> "optional"
                         [] OTHER               -> "value"
               real == Context(kind, RefOf[f], place, FALSE)
    <3>1. kind \in {"value", "optional", "pointer"}
      OBVIOUS
    <3>2. PartContext(f, d, s.skip) = IF s.skip THEN Fake(real) ELSE real
      BY DEF PartContext, place
    <3> HIDE DEF kind
    <3>3. /\ real \in ReadContext /\ real.place = place /\ real.kind = kind
      BY <2>3, <2>5, <3>1 DEF Context, ReadContext
    <3> HIDE DEF real
    <3>4. Fake(real) \in ReadContext /\ Fake(real).place = place /\ Fake(real).kind = "fake"
      BY <3>3 DEF Fake, ReadContext
    <3>. QED BY <3>1, <3>2, <3>3, <3>4 DEF IsContainer
  <2>9. /\ IsState(s1) /\ s1.skip = s.skip /\ s1.ctx = PartContext(f, d, s.skip)
        /\ s1.saved = Append(s.saved, frame) /\ s1.pending = s.pending /\ s1.err = s.err
        /\ s1.heap = s.heap
    <3> DEFINE ctx == PartContext(f, d, s.skip)
    <3>1. s1 = [[s EXCEPT !.saved = Append(s.saved, frame)] EXCEPT !.ctx = ctx]
      BY <2>2 DEF EnterPart, Save, IsState, d
    <3> HIDE DEF ctx, frame, s1
    <3>2. /\ IsState(s1) /\ s1.skip = s.skip /\ s1.ctx = ctx
          /\ s1.saved = Append(s.saved, frame) /\ s1.pending = s.pending /\ s1.err = s.err
          /\ s1.heap = s.heap
      BY <2>2, <3>1 DEF IsState
    <3>. QED BY <3>2 DEF ctx
  <2> HIDE DEF s1
  <2>10. Reader(s1) /\ ~Failed(s1)
    BY <1>3, <2>7, <2>8, <2>9 DEF Reader, Failed
  <2>11. Makes(F, s1, s2)
    BY <2>10 DEF Making
  <2> HIDE DEF s2, frame
  <2>12. Reader(s2) /\ IsState(s2)
    BY <2>11 DEF Makes, Reader
  <2>13. Wrote(s.ctx.place, s, s2)
    <3>1. Wrote(place, s1, s2)
      BY <2>8, <2>9, <2>11 DEF Makes
    <3>. QED BY <2>5, <2>9, <3>1 DEF Wrote
  <2>14. CASE Failed(s2)
    <3>1. s3 = s2
      BY <1>1, <2>14, RunFailed
    <3>. QED BY <2>1, <2>12, <2>13, <2>14, <3>1 DEF ReadsOn
  <2>15. CASE ~Failed(s2)
    <3>1. s3 = FinishPart(s2)
      BY <2>15, RunOne DEF Do, Step
    <3>2. s2.saved = Append(s.saved, frame)
      BY <2>9, <2>11, <2>15 DEF Makes
    <3>3. /\ IsState(s3) /\ s3.skip = frame.skip /\ s3.ctx = frame.ctx /\ s3.saved = s.saved
          /\ s3.pending = s2.pending /\ s3.heap = s2.heap /\ s3.err = FinishError(s2.ctx)
      <4>1. /\ s3.skip = frame.skip /\ s3.ctx = frame.ctx /\ s3.saved = s.saved
        <5>1. Last(s2.saved) = frame /\ Front(s2.saved) = s.saved
          BY <2>7, <3>2
        <5> HIDE DEF s3
        <5>. QED BY <2>12, <3>1, <5>1 DEF IsState, FinishPart
      <4>2. s3.pending = s2.pending /\ s3.heap = s2.heap /\ s3.err = FinishError(s2.ctx)
        BY <2>12, <3>1 DEF IsState, FinishPart
      <4>3. IsState(s3)
        BY <2>12, <3>1 DEF IsState, FinishPart
      <4>. QED BY <4>1, <4>2, <4>3
    <3> HIDE DEF s3
    <3>4. s3.skip = s.skip /\ s3.ctx = s.ctx
      BY <3>3 DEF frame
    <3>5. Reader(s3)
      BY <2>2, <2>12, <3>3, <3>4 DEF Reader, FinishError
    <3>6. Wrote(s.ctx.place, s, s3)
      BY <2>13, <3>3 DEF Wrote
    <3>7. Dataset(s2.ctx) = place
      BY <2>8, <2>9, <2>10, <2>11, <2>15 DEF Makes, Dataset, IsContainer, Reader, ReadContext
    <3>8. Adds(F, place, s1, s2) /\ (s1.skip => s2.pending = s1.pending)
      BY <2>11, <2>15, <3>7 DEF Makes
    <3>9. Adds({f}, d, s, s3)
      BY <2>5, <2>9, <3>3, <3>8 DEF Adds, Added
    <3>10. s.skip => s3.pending = s.pending
      BY <2>9, <3>3, <3>8
    <3>11. ReadsOn({f}, s, s3)
      BY <3>3, <3>4, <3>5, <3>6, <3>9, <3>10 DEF ReadsOn, d
    <3>. QED BY <2>1, <3>11
  <2>. QED BY <2>14, <2>15
<1>. QED BY <1>2, <1>3 DEF Reading

\* A derived table is read like the table, but skipped if it has no row.
LEMMA DerivedReading ==
    ASSUME NEW d \in Table, NEW F, NEW p, Reading(F, p)
    PROVE  Reading(F, <<Step("enter", d)>> \o p \o <<Step("leave", d)>>)
<1> DEFINE enter == <<Step("enter", d)>>
           leave == <<Step("leave", d)>>
<1>1. p \in Seq(WalkStep) /\ enter \in Seq(WalkStep) /\ leave \in Seq(WalkStep)
  BY DEF Reading, Step, WalkStep
<1>2. enter \o p \in Seq(WalkStep) /\ (enter \o p) \o leave \in Seq(WalkStep)
  BY <1>1, ConcatProperties
<1>3. ASSUME NEW q, NEW s, Reader(s), ~Failed(s)
      PROVE  ReadsOn(F, s, Run(q, s, (enter \o p) \o leave))
  <2> DEFINE s1 == EnterDerived(q, s)
             s2 == Run(q, s1, p)
             s3 == Run(q, s2, leave)
             frame == [ctx |-> s.ctx, skip |-> s.skip]
  <2>1. Run(q, s, (enter \o p) \o leave) = s3
    <3>3. Run(q, s, enter) = s1
      BY <1>3, RunOne DEF Do, Step
    <3> HIDE DEF enter, leave
    <3>1. Run(q, s, (enter \o p) \o leave) = Run(q, Run(q, s, enter \o p), leave)
      <4> DEFINE begin == enter \o p
      <4>1. begin \in Seq(WalkStep)
        BY <1>2
      <4> HIDE DEF begin
      <4>2. Run(q, s, begin \o leave) = Run(q, Run(q, s, begin), leave)
        BY <1>1, <4>1, RunConcat
      <4>. QED BY <4>2 DEF begin
    <3>2. Run(q, s, enter \o p) = Run(q, Run(q, s, enter), p)
      BY <1>1, RunConcat
    <3>. QED BY <3>1, <3>2, <3>3
  <2>2. IsState(s) /\ s.ctx \in ReadContext /\ s.skip \in BOOLEAN /\ s.saved \in Seq(Frame)
    BY <1>3 DEF Reader
  <2>3. CASE ~InRow(q, s)
    <3>1. s1 = Fail(s, "out of range")
      BY <2>3 DEF EnterDerived
    <3>2. ReadsOn(F, s, s1)
      BY <1>3, <3>1, FailReads
    <3>3. Failed(s1)
      BY <2>2, <3>1 DEF Failed, Fail, IsState
    <3>4. s2 = s1
      BY <1>1, <3>3, RunFailed
    <3>5. s3 = s2
      BY <1>1, <3>3, <3>4, RunFailed
    <3>. QED BY <2>1, <3>2, <3>4, <3>5
  <2>4. CASE InRow(q, s)
    <3> DEFINE skip == s.skip \/ CellAt(q, s) = Null
    <3>1. frame \in Frame /\ skip \in BOOLEAN
      BY <2>2 DEF Frame
    <3>2. /\ Append(s.saved, frame) \in Seq(Frame) /\ Last(Append(s.saved, frame)) = frame
          /\ Front(Append(s.saved, frame)) = s.saved
      BY <2>2, <3>1, SavedLast
    <3>3. s1 = [Save(s) EXCEPT !.skip = skip]
      BY <2>2, <2>4 DEF EnterDerived, Save, IsState
    <3> HIDE DEF skip
    <3>4. /\ IsState(s1) /\ s1.skip = skip /\ s1.ctx = s.ctx /\ s1.saved = Append(s.saved, frame)
          /\ s1.pending = s.pending /\ s1.err = s.err /\ s1.heap = s.heap
      <4> HIDE DEF s1
      <4>. QED BY <2>2, <3>3 DEF IsState, Save
    <3> HIDE DEF s1
    <3>5. Reader(s1) /\ ~Failed(s1)
      BY <1>3, <3>1, <3>2, <3>4 DEF Reader, Failed
    <3>6. ReadsOn(F, s1, s2)
      BY <3>5 DEF Reading
    <3> HIDE DEF s2, frame
    <3>7. Reader(s2) /\ IsState(s2) /\ Wrote(s.ctx.place, s, s2)
      BY <3>4, <3>6 DEF ReadsOn, Reader, Wrote
    <3>8. CASE Failed(s2)
      <4>1. s3 = s2
        BY <1>1, <3>8, RunFailed
      <4>. QED BY <2>1, <3>7, <3>8, <4>1 DEF ReadsOn
    <3>9. CASE ~Failed(s2)
      <4>1. s3 = LeaveDerived(s2)
        BY <3>9, RunOne DEF Do, Step
      <4>2. s2.saved = Append(s.saved, frame) /\ s2.ctx = s.ctx /\ Adds(F, Dataset(s.ctx), s1, s2)
            /\ (skip => s2.pending = s.pending)
        BY <3>4, <3>6, <3>9 DEF ReadsOn
      <4>3. /\ IsState(s3) /\ s3.skip = frame.skip /\ s3.ctx = s2.ctx /\ s3.saved = s.saved
            /\ s3.pending = s2.pending /\ s3.heap = s2.heap /\ s3.err = s2.err
        BY <3>2, <3>7, <4>1, <4>2 DEF IsState, LeaveDerived
      <4> HIDE DEF s3
      <4>4. s3.skip = s.skip /\ s3.ctx = s.ctx
        BY <4>2, <4>3 DEF frame
      <4>5. Reader(s3)
        BY <2>2, <3>7, <4>3, <4>4 DEF Reader
      <4>6. Wrote(s.ctx.place, s, s3)
        BY <3>7, <4>3 DEF Wrote
      <4>7. Adds(F, Dataset(s.ctx), s, s3)
        BY <3>4, <4>2, <4>3 DEF Adds, Added
      <4>8. s.skip => s3.pending = s.pending
        BY <4>2, <4>3 DEF skip
      <4>9. ReadsOn(F, s, s3)
        BY <4>3, <4>4, <4>5, <4>6, <4>7, <4>8 DEF ReadsOn
      <4>. QED BY <2>1, <4>9
    <3>. QED BY <3>8, <3>9
  <2>. QED BY <2>3, <2>4
<1>. QED BY <1>2, <1>3 DEF Reading

-----------------------------------------------------------------------------
(* What read_table() does.                                                 *)

\* What a call of read_table() does: it makes the dataset if it begins with the base
\* tables, and surely so if it gets to the last of them.
Piece(base, sure, F, p) ==
    IF base THEN Making(F, p) /\ (sure => Surely(p)) ELSE Reading(F, p)

\* A call of read_table(), and steps that read other fields, do both.
LEMMA PieceThen ==
    ASSUME NEW base, NEW sure, NEW F, NEW G, NEW a, NEW b, F \cap G = {},
           Piece(base, sure, F, a), Reading(G, b)
    PROVE  Piece(base, sure, F \cup G, a \o b)
BY ReadingThen, MakingThen DEF Piece

\* A call of read_table() that reads some fields reads no others than more fields.
LEMMA PieceWider ==
    ASSUME NEW base, NEW sure, NEW F, NEW G, F \subseteq G, NEW p, Piece(base, sure, F, p)
    PROVE  Piece(base, sure, G, p)
BY ReadingWider DEF Piece

\* What is done n levels below.
Visits(reads, n) ==
    \A v \in Visit :
       Piece(v.read_base, Cardinality(Chain(v.table)) <= n, Declared(Visited(v)), reads[v])

-----------------------------------------------------------------------------
\* The base tables but for the table itself, and the tables below it.
BasesOf(v) == IF v.read_base /\ BaseOf[v.table] # NoTable THEN Chain(BaseOf[v.table]) ELSE {}
DerivedOf(v) ==
    IF v.read_derived /\ v.is_dynamic THEN UNION {Below(d) : d \in DerivedTables(v.table)} ELSE {}

\* A table, its base tables and the tables below it are different ones.
LEMMA VisitedParts ==
    ASSUME NEW v \in Visit
    PROVE  /\ BasesOf(v) \in SUBSET Table /\ {v.table} \in SUBSET Table
           /\ DerivedOf(v) \in SUBSET Table
           /\ BasesOf(v) \cap {v.table} = {}
           /\ (BasesOf(v) \cup {v.table}) \cap DerivedOf(v) = {}
           /\ BasesOf(v) \cup {v.table} \cup DerivedOf(v) \subseteq Visited(v)
<1> DEFINE t == v.table
<1>1. t \in Table /\ v.read_base \in BOOLEAN /\ v.read_derived \in BOOLEAN /\ v.is_dynamic \in BOOLEAN
  BY DEF Visit
<1>2. BasesOf(v) \in SUBSET Table /\ t \notin BasesOf(v) /\ BasesOf(v) \subseteq Chain(t)
  <2>1. CASE v.read_base /\ BaseOf[t] # NoTable
    <3>1. BasesOf(v) = Chain(BaseOf[t])
      BY <2>1 DEF BasesOf
    <3>. QED BY <1>1, <2>1, <3>1, ChainStep, ChainType
  <2>2. CASE ~(v.read_base /\ BaseOf[t] # NoTable)
    BY <2>2 DEF BasesOf
  <2>. QED BY <2>1, <2>2
<1>3. ASSUME NEW x \in DerivedOf(v) PROVE x \in Below(t) /\ x \notin Chain(t) /\ x \in Table
  <2>1. v.read_derived /\ v.is_dynamic
    BY DEF DerivedOf
  <2>2. PICK d \in DerivedTables(t) : x \in Below(d)
    BY <2>1 DEF DerivedOf
  <2>3. Below(d) \subseteq Below(t) /\ Below(d) \cap Chain(t) = {}
    BY <1>1, BelowApart
  <2>. QED BY <2>2, <2>3 DEF Below
<1>4. t \in Chain(t)
  BY <1>1, ChainType
<1>5. DerivedOf(v) # {} => v.read_derived /\ v.is_dynamic
  BY DEF DerivedOf
<1>6. BasesOf(v) # {} => v.read_base
  BY DEF BasesOf
<1>7. BasesOf(v) \cup {t} \subseteq IF v.read_base THEN Chain(t) ELSE {t}
  BY <1>2, <1>4, <1>6
<1>8. DerivedOf(v) \subseteq IF v.read_derived /\ v.is_dynamic THEN Below(t) ELSE {}
  BY <1>3, <1>5
<1>. QED BY <1>1, <1>2, <1>3, <1>4, <1>7, <1>8 DEF Visited

\* The base tables, or the step at the root of the hierarchy.
LEMMA BasePiece ==
    ASSUME NEW n \in Nat, NEW reads, Visits(reads, n), NEW v \in Visit
    PROVE  Piece(v.read_base, Cardinality(Chain(v.table)) <= n + 1,
                 Declared(BasesOf(v)), ReadBase(reads, v))
<1> DEFINE t == v.table
           b == BaseOf[t]
<1>1. t \in Table /\ v.read_base \in BOOLEAN
  BY DEF Visit
<1>2. CASE ~v.read_base
  BY <1>2, ReadingNone DEF Piece, ReadBase
<1>3. CASE v.read_base /\ b = NoTable
  <2>1. PICK step \in WalkStep : ReadBase(reads, v) = <<step>> /\ step.do \in {"type", "make"}
    <3>1. /\ Step("type", t) \in WalkStep /\ Step("make", t) \in WalkStep
          /\ Step("type", t).do = "type" /\ Step("make", t).do = "make"
      BY <1>1 DEF Step, WalkStep
    <3>2. ReadBase(reads, v) = <<Step(IF v.is_dynamic /\ DerivedTables(t) # {} THEN "type"
                                      ELSE "make", t)>>
      BY <1>3 DEF ReadBase
    <3>3. CASE v.is_dynamic /\ DerivedTables(t) # {}
      BY <3>1, <3>2, <3>3
    <3>4. CASE ~(v.is_dynamic /\ DerivedTables(t) # {})
      BY <3>1, <3>2, <3>4
    <3>. QED BY <3>3, <3>4
  <2>2. Making({}, <<step>>) /\ Surely(<<step>>)
    BY <2>1, RootMaking
  <2>3. Declared(BasesOf(v)) = {}
    BY <1>3 DEF BasesOf, Declared
  <2>. QED BY <1>3, <2>1, <2>2, <2>3 DEF Piece
<1>4. CASE v.read_base /\ b # NoTable
  <2> DEFINE u == [v EXCEPT !.table = b, !.read_derived = FALSE]
  <2>1. b \in Table /\ Chain(t) = {t} \cup Chain(b) /\ t \notin Chain(b)
    BY <1>1, <1>4, ChainStep
  <2>2. u \in Visit /\ u.table = b /\ u.read_base = v.read_base /\ u.read_derived = FALSE
    BY <2>1 DEF Visit
  <2>3. ReadBase(reads, v) = reads[u]
    BY <1>4 DEF ReadBase
  <2>4. BasesOf(v) = Chain(b)
    BY <1>4 DEF BasesOf
  <2> HIDE DEF u
  <2>5. Visited(u) = Chain(b)
    BY <1>4, <2>2 DEF Visited
  <2>6. Piece(v.read_base, Cardinality(Chain(b)) <= n, Declared(Chain(b)), reads[u])
    BY <2>2, <2>5 DEF Visits
  <2>7. Cardinality(Chain(t)) <= n + 1 => Cardinality(Chain(b)) <= n
    <3>1. IsFiniteSet(Chain(b))
      BY <2>1, ChainType, SchemaAssumption, FS_Subset
    <3>2. Cardinality({t} \cup Chain(b)) = Cardinality(Chain(b)) + 1 /\ Cardinality(Chain(b)) \in Nat
      <4>1. Chain(b) \cup {t} = {t} \cup Chain(b)
        OBVIOUS
      <4>. QED BY <2>1, <3>1, <4>1, FS_AddElement, FS_CardinalityType
    <3>3. Cardinality(Chain(t)) = Cardinality(Chain(b)) + 1
      BY <2>1, <3>2
    <3>. QED BY <3>2, <3>3
  <2>. QED BY <2>3, <2>4, <2>6, <2>7 DEF Piece
<1>. QED BY <1>1, <1>2, <1>3, <1>4

\* The parts of a dataset are those of its one fields, each once.
LEMMA PartsReading ==
    ASSUME NEW n, NEW reads, Visits(reads, n), NEW t \in Table, NEW excluded
    PROVE  LET parts == Kept(excluded, OneFields[t])
           IN Reading(Range(FieldsOf[t]) \ Many,
                      FlattenSeq([i \in DOMAIN parts |-> ReadPart(reads, parts[i])]))
<1> DEFINE parts == Kept(excluded, OneFields[t])
           pp == [i \in DOMAIN parts |-> ReadPart(reads, parts[i])]
           F == [i \in DOMAIN parts |-> {parts[i]}]
<1>1. /\ parts \in Seq({f \in Field : IsOne(f)}) /\ IsInjective(parts)
      /\ Range(parts) \subseteq Range(FieldsOf[t])
  BY KeptFields, KeptApart
<1> HIDE DEF parts
<1>2. DOMAIN parts = 1..Len(parts) /\ Len(parts) \in Nat
  BY <1>1
<1>3. ASSUME NEW i \in 1..Len(parts) PROVE Reading({parts[i]}, ReadPart(reads, parts[i]))
  <2> DEFINE f == parts[i]
             v == [table |-> RefOf[f], read_base |-> TRUE, read_derived |-> TRUE,
                   is_dynamic |-> f \in PointerField]
  <2>1. f \in Field /\ IsOne(f)
    BY <1>1
  <2>2. RefOf[f] \in Table
    BY <2>1, SchemaAssumption DEF IsOne
  <2>3. v \in Visit /\ v.read_base = TRUE
    BY <2>2 DEF Visit
  <2>4. ReadPart(reads, f) = <<Step("part", f)>> \o reads[v] \o <<Step("finish", f)>>
    BY DEF ReadPart
  <2> HIDE DEF f, v
  <2>5. Making(Declared(Visited(v)), reads[v])
    BY <2>3 DEF Visits, Piece
  <2>6. Reading({f}, ReadPart(reads, f))
    BY <2>1, <2>4, <2>5, PartReading
  <2>. QED BY <2>6 DEF f
<1>4. ASSUME NEW i \in 1..Len(parts) PROVE pp[i] = ReadPart(reads, parts[i]) /\ F[i] = {parts[i]}
  BY <1>2
<1>5. /\ Len(pp) = Len(parts) /\ pp \in Seq(Seq(WalkStep))
      /\ \A i \in 1..Len(pp) : Reading(F[i], pp[i])
  <2>1. DOMAIN pp = 1..Len(parts) /\ pp = [i \in 1..Len(parts) |-> pp[i]]
    BY <1>2
  <2> HIDE DEF pp, F
  <2>2. ASSUME NEW i \in 1..Len(parts) PROVE pp[i] \in Seq(WalkStep) /\ Reading(F[i], pp[i])
    <3>1. Reading(F[i], pp[i])
      BY <1>3, <1>4
    <3>. QED BY <3>1 DEF Reading
  <2>. QED BY <1>2, <2>1, <2>2
<1>6. \A i, j \in 1..Len(pp) : i # j => F[i] \cap F[j] = {}
  <2>1. \A i, j \in 1..Len(parts) : i # j => parts[i] # parts[j]
    BY <1>1, <1>2 DEF IsInjective
  <2>. QED BY <1>2, <1>4, <1>5, <2>1
<1>7. Reading(UNION {F[i] : i \in 1..Len(pp)}, FlattenSeq(pp))
  <2> HIDE DEF pp, F
  <2>. QED BY <1>5, <1>6, ReadingFlatten
<1>8. UNION {F[i] : i \in 1..Len(pp)} \subseteq Range(FieldsOf[t]) \ Many
  <2> HIDE DEF pp, F
  <2>1. SUFFICES ASSUME NEW i \in 1..Len(parts) PROVE parts[i] \in Range(FieldsOf[t]) \ Many
    BY <1>4, <1>5
  <2>2. parts[i] \in Range(parts) /\ parts[i] \in Field /\ IsOne(parts[i])
    BY <1>1, <1>2 DEF Range
  <2>. QED BY <1>1, <2>2 DEF Many, IsOne, IsMany
<1>9. Reading(Range(FieldsOf[t]) \ Many, FlattenSeq(pp))
  <2> HIDE DEF pp, F
  <2>. QED BY <1>7, <1>8, ReadingWider
<1>. QED BY <1>9 DEF parts

\* The derived tables of a table are read with all below them, each once.
LEMMA DerivedsReading ==
    ASSUME NEW n, NEW reads, Visits(reads, n), NEW v \in Visit
    PROVE  LET ds == IF v.read_derived /\ v.is_dynamic THEN DerivedSeq(v.table) ELSE <<>>
           IN Reading(Declared(DerivedOf(v)),
                      FlattenSeq([i \in DOMAIN ds |-> ReadDerived(reads, v, ds[i])]))
<1> DEFINE t == v.table
           ds == IF v.read_derived /\ v.is_dynamic THEN DerivedSeq(t) ELSE <<>>
           pp == [i \in DOMAIN ds |-> ReadDerived(reads, v, ds[i])]
           F == [i \in DOMAIN ds |-> Declared(Below(ds[i]))]
<1>1. t \in Table
  BY DEF Visit
<1>2. ds \in Seq(DerivedTables(t)) /\ IsInjective(ds)
  <2>1. <<>> \in Seq(DerivedTables(t)) /\ DerivedSeq(t) \in Seq(DerivedTables(t))
    BY <1>1, DerivedSeqType
  <2>2. IsInjective(DerivedSeq(t))
    BY <1>1, SchemaAssumption, FS_Subset, SetToSeqInjective DEF DerivedSeq, DerivedTables
  <2>3. IsInjective(<<>>)
    BY DEF IsInjective
  <2>. QED BY <2>1, <2>2, <2>3
<1>3. ds # <<>> => v.read_derived = TRUE /\ v.is_dynamic = TRUE
  BY DEF Visit
<1> HIDE DEF ds
<1>4. DOMAIN ds = 1..Len(ds) /\ Len(ds) \in Nat /\ (Len(ds) # 0 => ds # <<>>)
  BY <1>2
<1>5. ASSUME NEW i \in 1..Len(ds)
      PROVE  Reading(Declared(Below(ds[i])), ReadDerived(reads, v, ds[i]))
  <2> DEFINE d == ds[i]
             u == [v EXCEPT !.table = d, !.read_base = FALSE, !.read_derived = TRUE]
  <2>1. d \in DerivedTables(t) /\ d \in Table
    BY <1>2 DEF DerivedTables
  <2>2. v.is_dynamic = TRUE
    BY <1>3, <1>4
  <2>3. u \in Visit /\ u.read_base = FALSE /\ u.table = d /\ u.read_derived = TRUE
        /\ u.is_dynamic = TRUE
    BY <2>1, <2>2 DEF Visit
  <2>4. ReadDerived(reads, v, d) = <<Step("enter", d)>> \o reads[u] \o <<Step("leave", d)>>
    BY DEF ReadDerived
  <2> HIDE DEF d, u
  <2>5. Visited(u) = Below(d)
    <3>1. d \in Chain(d)
      BY <2>1, ChainType
    <3>2. d \in Below(d)
      BY <2>1, <3>1 DEF Below
    <3>. QED BY <2>3, <3>2 DEF Visited
  <2>6. Reading(Declared(Below(d)), reads[u])
    BY <2>3, <2>5 DEF Visits, Piece
  <2>7. Reading(Declared(Below(d)), ReadDerived(reads, v, d))
    BY <2>1, <2>4, <2>6, DerivedReading
  <2>. QED BY <2>7 DEF d
<1>6. ASSUME NEW i \in 1..Len(ds)
      PROVE  pp[i] = ReadDerived(reads, v, ds[i]) /\ F[i] = Declared(Below(ds[i]))
  BY <1>4
<1>7. /\ Len(pp) = Len(ds) /\ pp \in Seq(Seq(WalkStep))
      /\ \A i \in 1..Len(pp) : Reading(F[i], pp[i])
  <2>1. DOMAIN pp = 1..Len(ds) /\ pp = [i \in 1..Len(ds) |-> pp[i]]
    BY <1>4
  <2>2. \A i \in 1..Len(ds) : pp[i] \in Seq(WalkStep) /\ Reading(F[i], pp[i])
    <3> HIDE DEF pp, F
    <3>. QED BY <1>5, <1>6 DEF Reading
  <2> HIDE DEF pp, F
  <2>. QED BY <1>4, <2>1, <2>2
<1>8. \A i, j \in 1..Len(pp) : i # j => F[i] \cap F[j] = {}
  <2>1. ASSUME NEW i \in 1..Len(ds), NEW j \in 1..Len(ds), i # j
        PROVE  Declared(Below(ds[i])) \cap Declared(Below(ds[j])) = {}
    <3>1. ds[i] \in DerivedTables(t) /\ ds[j] \in DerivedTables(t)
      BY <1>2
    <3>2. ds[i] # ds[j]
      BY <1>2, <1>4, <2>1 DEF IsInjective
    <3>3. Below(ds[i]) \cap Below(ds[j]) = {}
      BY <1>1, <3>1, <3>2, BelowApart
    <3>4. Below(ds[i]) \in SUBSET Table /\ Below(ds[j]) \in SUBSET Table
      BY DEF Below
    <3>. QED BY <3>3, <3>4, DeclaredApart
  <2>. QED BY <1>6, <1>7, <2>1
<1>9. Reading(UNION {F[i] : i \in 1..Len(pp)}, FlattenSeq(pp))
  <2> HIDE DEF pp, F
  <2>. QED BY <1>7, <1>8, ReadingFlatten
<1>10. UNION {F[i] : i \in 1..Len(pp)} \subseteq Declared(DerivedOf(v))
  <2>1. SUFFICES ASSUME NEW i \in 1..Len(ds)
                 PROVE  Declared(Below(ds[i])) \subseteq Declared(DerivedOf(v))
    BY <1>6, <1>7
  <2>2. ds[i] \in DerivedTables(t) /\ v.read_derived = TRUE /\ v.is_dynamic = TRUE
    BY <1>2, <1>3, <1>4
  <2>3. Below(ds[i]) \subseteq DerivedOf(v)
    BY <2>2 DEF DerivedOf
  <2>. QED BY <2>3 DEF Declared
<1>11. Reading(Declared(DerivedOf(v)), FlattenSeq(pp))
  <2> HIDE DEF pp, F
  <2>. QED BY <1>9, <1>10, ReadingWider
<1>. QED BY <1>11 DEF ds

-----------------------------------------------------------------------------
\* read_table() reads each table of the hierarchy once.
LEMMA TablePiece ==
    ASSUME NEW n \in Nat, NEW reads, Visits(reads, n), NEW excluded, NEW v \in Visit
    PROVE  Piece(v.read_base, Cardinality(Chain(v.table)) <= n + 1, Declared(Visited(v)),
                 ReadTable(excluded, reads, v))
<1> DEFINE t == v.table
           sure == Cardinality(Chain(t)) <= n + 1
           data == Kept(excluded, DataFields[t])
           parts == Kept(excluded, OneFields[t])
           ds == IF v.read_derived /\ v.is_dynamic THEN DerivedSeq(t) ELSE <<>>
           base == ReadBase(reads, v)
           key == <<Step("key", t)>>
           reading == [i \in DOMAIN data |-> Step("data", data[i])]
           fp == FlattenSeq([i \in DOMAIN parts |-> ReadPart(reads, parts[i])])
           many == <<Step("many", t)>>
           fd == FlattenSeq([i \in DOMAIN ds |-> ReadDerived(reads, v, ds[i])])
           B == Declared(BasesOf(v))
           own == Range(FieldsOf[t])
           D == Declared(DerivedOf(v))
<1>1. t \in Table
  BY DEF Visit
<1>2. /\ B \cap own = {} /\ (B \cup own) \cap D = {}
      /\ B \cup own \cup D \subseteq Declared(Visited(v))
  <2>1. /\ BasesOf(v) \in SUBSET Table /\ {t} \in SUBSET Table /\ DerivedOf(v) \in SUBSET Table
        /\ BasesOf(v) \cup {t} \in SUBSET Table
        /\ BasesOf(v) \cap {t} = {} /\ (BasesOf(v) \cup {t}) \cap DerivedOf(v) = {}
        /\ BasesOf(v) \cup {t} \cup DerivedOf(v) \subseteq Visited(v)
    BY VisitedParts
  <2>2. own = Declared({t})
    BY DEF Declared
  <2>3. Declared(BasesOf(v) \cup {t}) = B \cup own
    BY <2>2 DEF Declared
  <2>4. B \cap own = {} /\ (B \cup own) \cap D = {}
    BY <2>1, <2>2, <2>3, DeclaredApart
  <2>5. B \cup own \cup D \subseteq Declared(Visited(v))
    BY <2>1, <2>2 DEF Declared
  <2>. QED BY <2>4, <2>5
<1>3. Piece(v.read_base, sure, B, base)
  BY BasePiece
<1>4. Reading({}, key)
  <2>1. Step("key", t) \in WalkStep /\ Step("key", t).do = "key"
    BY <1>1 DEF Step, WalkStep
  <2>. QED BY <2>1, FieldReading
<1>5. Reading({}, reading)
  <2>1. data \in Seq(Field)
    <3> DEFINE values == {f \in Field : IsData(f)}
    <3>1. data \in Seq(values)
      BY <1>1, KeptFields
    <3>2. values \subseteq Field
      OBVIOUS
    <3> HIDE DEF data, values
    <3>. QED BY <3>1, <3>2, SeqMonotonic
  <2> HIDE DEF data
  <2>2. ASSUME NEW i \in 1..Len(data)
        PROVE  Step("data", data[i]) \in WalkStep /\ Step("data", data[i]).do = "data"
    <3>1. data[i] \in Field
      BY <2>1
    <3>. QED BY <3>1 DEF Step, WalkStep
  <2>3. DOMAIN data = 1..Len(data) /\ Len(data) \in Nat
    BY <2>1
  <2>4. reading \in Seq(WalkStep) /\ Len(reading) = Len(data)
        /\ \A i \in 1..Len(data) : reading[i].do = "data"
    BY <2>2, <2>3
  <2> HIDE DEF reading
  <2>. QED BY <2>4, FieldsReading
<1>6. Reading(own \ Many, fp)
  BY <1>1, PartsReading
<1>7. Reading(own \cap Many, many)
  BY <1>1, ManyReading
<1>8. Reading(D, fd)
  BY DerivedsReading
<1>9. ReadTable(excluded, reads, v)
        = IF IsExcluded(excluded, t) THEN base
          ELSE ((((base \o key) \o reading) \o fp) \o many) \o fd
  BY DEF ReadTable
<1> HIDE DEF t, sure, data, parts, ds, base, key, reading, fp, many, fd, B, own, D
<1>10. Piece(v.read_base, sure, B \cup own \cup D, ((((base \o key) \o reading) \o fp) \o many) \o fd)
  <2>1. Piece(v.read_base, sure, B, base \o key)
    <3>1. Piece(v.read_base, sure, B \cup {}, base \o key)
      BY <1>3, <1>4, PieceThen
    <3>. QED BY <3>1
  <2>2. Piece(v.read_base, sure, B, (base \o key) \o reading)
    <3>1. Piece(v.read_base, sure, B \cup {}, (base \o key) \o reading)
      BY <2>1, <1>5, PieceThen
    <3>. QED BY <3>1
  <2>3. Piece(v.read_base, sure, B \cup (own \ Many), ((base \o key) \o reading) \o fp)
    <3>1. B \cap (own \ Many) = {}
      BY <1>2
    <3>. QED BY <2>2, <1>6, <3>1, PieceThen
  <2>4. Piece(v.read_base, sure, B \cup own, (((base \o key) \o reading) \o fp) \o many)
    <3>1. (B \cup (own \ Many)) \cap (own \cap Many) = {}
      BY <1>2
    <3>2. (B \cup (own \ Many)) \cup (own \cap Many) = B \cup own
      OBVIOUS
    <3>3. Piece(v.read_base, sure, (B \cup (own \ Many)) \cup (own \cap Many),
                (((base \o key) \o reading) \o fp) \o many)
      BY <2>3, <1>7, <3>1, PieceThen
    <3>. QED BY <3>2, <3>3
  <2>. QED BY <1>2, <1>8, <2>4, PieceThen
<1>11. Piece(v.read_base, sure, B \cup own \cup D, ReadTable(excluded, reads, v))
  <2>1. Piece(v.read_base, sure, B \cup own \cup D, base)
    BY <1>3, PieceWider
  <2>. QED BY <1>9, <1>10, <2>1
<1>12. Piece(v.read_base, sure, Declared(Visited(v)), ReadTable(excluded, reads, v))
  BY <1>2, <1>11, PieceWider
<1>. QED BY <1>12 DEF sure, t

\* A row makes a dataset or none, and reads each table of its hierarchy once.
LEMMA WalkMaking ==
    ASSUME NEW t \in Table, NEW excluded, NEW dyn \in BOOLEAN
    PROVE  \E F : Making(F, Walk(t, excluded, dyn)) /\ Surely(Walk(t, excluded, dyn))
<1> DEFINE first == [table |-> t, read_base |-> TRUE, read_derived |-> TRUE, is_dynamic |-> dyn]
<1>1. PICK read : /\ Walk(t, excluded, dyn) = read[Levels][first]
                  /\ \A v \in Visit : read[0][v] = <<>>
                  /\ \A n \in 1..Levels : \A v \in Visit :
                        read[n][v] = ReadTable(excluded, read[n - 1], v)
  BY WalkRounds
<1> DEFINE S == {n \in 0..Levels : Visits(read[n], n)}
<1>2. 0 \in S
  <2>1. ASSUME NEW v \in Visit
        PROVE  Piece(v.read_base, Cardinality(Chain(v.table)) <= 0, Declared(Visited(v)), <<>>)
    <3>1. v.table \in Table /\ v.table \in Chain(v.table)
      BY ChainType DEF Visit
    <3>2. IsFiniteSet(Chain(v.table))
      BY <3>1, ChainType, SchemaAssumption, FS_Subset
    <3>3. ~(Cardinality(Chain(v.table)) <= 0)
      BY <3>1, <3>2, FS_EmptySet, FS_CardinalityType
    <3>4. \A F : Making(F, <<>>)
      <4>1. ASSUME NEW F, NEW q, NEW s, Reader(s), ~Failed(s) PROVE Makes(F, s, Run(q, s, <<>>))
        <5>1. s.ctx = [s.ctx EXCEPT !.count = s.ctx.count]
          BY <4>1 DEF Reader, ReadContext
        <5>2. Adds(F, Dataset(s.ctx), s, s)
          BY <4>1, AddsNone
        <5>. QED BY <4>1, <5>1, <5>2, RunNone DEF Makes, Wrote
      <4>2. <<>> \in Seq(WalkStep)
        OBVIOUS
      <4>. QED BY <4>1, <4>2 DEF Making
    <3>. QED BY <3>3, <3>4, ReadingNone DEF Piece
  <2>. QED BY <1>1, <2>1, LevelsType DEF Visits
<1>3. ASSUME NEW n \in 0..Levels, n \in S, n + 1 <= Levels PROVE n + 1 \in S
  <2>1. n + 1 \in 1..Levels /\ (n + 1) - 1 = n /\ n + 1 \in 0..Levels /\ n \in Nat
    BY <1>3, LevelsType
  <2>2. Visits(read[n], n)
    BY <1>3
  <2>3. \A v \in Visit : read[n + 1][v] = ReadTable(excluded, read[n], v)
    BY <1>1, <2>1
  <2>4. Visits(read[n + 1], n + 1)
    BY <2>1, <2>2, <2>3, TablePiece DEF Visits
  <2>. QED BY <2>1, <2>4
<1>4. Levels \in S
  <2> HIDE DEF S
  <2>. QED BY <1>2, <1>3, LevelsType, UpTo
<1>5. first \in Visit /\ first.read_base = TRUE /\ first.table = t
  BY DEF Visit
<1>6. Cardinality(Chain(t)) <= Levels
  <2>1. /\ Cardinality(Chain(t)) <= Cardinality(Table) /\ Cardinality(Chain(t)) \in Nat
        /\ Cardinality(Table) \in Nat
    BY ChainType, SchemaAssumption, FS_Subset, FS_CardinalityType
  <2>. QED BY <2>1 DEF Levels
<1>7. Visits(read[Levels], Levels)
  BY <1>4
<1> HIDE DEF first, S
<1>8. Making(Declared(Visited(first)), read[Levels][first]) /\ Surely(read[Levels][first])
  BY <1>5, <1>6, <1>7 DEF Visits, Piece
<1>. QED BY <1>1, <1>8

-----------------------------------------------------------------------------
(* What a row does, and rows do.                                           *)

\* What the extractor does for a row: from s to r it has read the row to its end, or
\* made no dataset and put nothing on the list, or it has made one and read it.
ReadOne(s, r) ==
    \/ r.ctx.count = s.ctx.count /\ r.pending = s.pending
    \/ /\ r.ctx.count = s.ctx.count + 1
       /\ IsContainer(s.ctx) \/ s.ctx.count = 0
       /\ \E F : Adds(F, Dataset(r.ctx), s, r)
RowDone(s, r) ==
    /\ Reader(r) /\ Wrote(s.ctx.place, s, r)
    /\ ~Failed(r) => r.ctx = [s.ctx EXCEPT !.count = r.ctx.count] /\ ReadOne(s, r)

\* A row with as many cells as there are columns is read to its end or not at all:
\* "result was not completely read!" is never thrown (table.cpp:196), and the
\* row makes one dataset at most.
LEMMA RowRead ==
    ASSUME NEW s, Reader(s), NEW row, NEW top \in Table, NEW excluded,
           Len(row) = Len(BuildSelect(top, excluded, s.ctx.dyn).cols)
    PROVE  RowDone(s, ReadRow(s, row, top, excluded))
<1> DEFINE q == [row |-> row, top |-> top, excluded |-> excluded]
           m == [s EXCEPT !.i = 0, !.skip = FALSE, !.saved = <<>>]
           walk == Walk(top, excluded, s.ctx.dyn)
           read == Run(q, m, walk)
           cols == BuildSelect(top, excluded, s.ctx.dyn).cols
<1>1. IsState(s) /\ s.ctx \in ReadContext /\ s.ctx.dyn \in BOOLEAN
  BY DEF Reader, ReadContext
<1>2. /\ IsState(m) /\ m.i = 0 /\ m.skip = FALSE /\ m.saved = <<>> /\ m.ctx = s.ctx
      /\ m.pending = s.pending /\ m.heap = s.heap /\ m.err = s.err
  <2> DEFINE a == [s EXCEPT !.i = 0]
             b == [a EXCEPT !.skip = FALSE]
             c == [b EXCEPT !.saved = <<>>]
  <2>1. m = c
    OBVIOUS
  <2> HIDE DEF m
  <2>2. /\ IsState(a) /\ a.i = 0 /\ a.ctx = s.ctx /\ a.pending = s.pending /\ a.heap = s.heap
        /\ a.err = s.err
    BY <1>1 DEF IsState
  <2> HIDE DEF a
  <2>3. /\ IsState(b) /\ b.i = 0 /\ b.skip = FALSE /\ b.ctx = s.ctx /\ b.pending = s.pending
        /\ b.heap = s.heap /\ b.err = s.err
    <3>1. IsState(b) /\ b.skip = FALSE
      BY <2>2, StateExcept
    <3>2. /\ b.i = a.i /\ b.ctx = a.ctx /\ b.pending = a.pending /\ b.heap = a.heap
          /\ b.err = a.err
      BY <2>2 DEF IsState
    <3>. QED BY <2>2, <3>1, <3>2
  <2> HIDE DEF b
  <2>4. /\ IsState(c) /\ c.i = 0 /\ c.skip = FALSE /\ c.saved = <<>> /\ c.ctx = s.ctx
        /\ c.pending = s.pending /\ c.heap = s.heap /\ c.err = s.err
    BY <2>3 DEF IsState
  <2>. QED BY <2>1, <2>4
<1>3. ReadRow(s, row, top, excluded)
        = IF Failed(s) THEN s
          ELSE IF ~Failed(read) /\ read.i # Len(row) THEN Fail(read, "not completely read")
          ELSE read
  BY DEF ReadRow
<1> HIDE DEF m
<1>4. Reader(m) /\ (Failed(m) <=> Failed(s))
  <2>1. <<>> \in Seq(Frame)
    OBVIOUS
  <2>. QED BY <1>2, <2>1 DEF Reader, Failed
<1>5. CASE Failed(s)
  <2>1. Wrote(s.ctx.place, s, s)
    BY DEF Wrote
  <2>. QED BY <1>3, <1>5, <2>1 DEF RowDone
<1>6. CASE ~Failed(s)
  <2>1. PICK F : Making(F, walk) /\ Surely(walk)
    BY <1>1, WalkMaking
  <2>2. Makes(F, m, read) /\ Sure(m, read)
    BY <1>4, <1>6, <2>1 DEF Making, Surely
  <2>3. walk \in Seq(WalkStep) /\ Len(Among(walk, Taking)) = Len(cols)
    <3>1. Takes(walk, cols)
      BY <1>1, WalkTakesColumns
    <3> HIDE DEF walk, cols
    <3>. QED BY <3>1, TakerType DEF Takes
  <2>4. ~Failed(read) => read.i = Len(row)
    <3>1. ~Failed(read) => read.i = Len(Among(walk, Taking))
      BY <1>2, <1>4, <1>6, <2>3, RunCounts
    <3>. QED BY <2>3, <3>1
  <2>5. ReadRow(s, row, top, excluded) = read
    BY <1>3, <1>6, <2>4
  <2> HIDE DEF read, walk, cols, q
  <2>6. Reader(read) /\ Wrote(s.ctx.place, s, read)
    BY <1>2, <2>2 DEF Makes, Wrote
  <2>7. ASSUME ~Failed(read)
        PROVE  read.ctx = [s.ctx EXCEPT !.count = read.ctx.count] /\ ReadOne(s, read)
    <3>1. /\ read.ctx = [s.ctx EXCEPT !.count = read.ctx.count]
          /\ \/ read.ctx.count = s.ctx.count
             \/ /\ read.ctx.count = s.ctx.count + 1
                /\ IsContainer(s.ctx) \/ s.ctx.count = 0
          /\ read.skip => read.pending = s.pending
          /\ Adds(F, Dataset(read.ctx), m, read)
      BY <1>2, <2>2, <2>7 DEF Makes
    <3>2. read.skip \/ read.ctx.count = s.ctx.count + 1
      BY <1>2, <2>2, <2>7 DEF Sure
    <3>3. Adds(F, Dataset(read.ctx), s, read)
      BY <1>2, <3>1 DEF Adds, Added
    <3>4. s.ctx.count # s.ctx.count + 1
      BY <1>1 DEF ReadContext
    <3>. QED BY <3>1, <3>2, <3>3, <3>4 DEF ReadOne
  <2>. QED BY <2>5, <2>6, <2>7 DEF RowDone
<1>. QED BY <1>5, <1>6

-----------------------------------------------------------------------------
\* The list after some rows: the containers of the datasets made so far, no two of
\* them at one place.
Listed(r) ==
    /\ \A i \in 1..Len(r.pending) :
          /\ r.pending[i].ctx \in ReadContext
          /\ \E c \in 1..r.ctx.count :
                r.pending[i].ctx.place \in Beyond(Dataset([r.ctx EXCEPT !.count = c]))
    /\ \A i, j \in 1..Len(r.pending) : i # j => r.pending[i].ctx.place # r.pending[j].ctx.place
Gathered(s, r) ==
    /\ Reader(r) /\ Wrote(s.ctx.place, s, r)
    /\ ~Failed(r) => r.ctx = [s.ctx EXCEPT !.count = r.ctx.count] /\ Listed(r)

\* A further row adds the containers of a dataset of its own.
LEMMA RowGathers ==
    ASSUME NEW s, Reader(s), NEW m, NEW r, Gathered(s, m), ~Failed(m), RowDone(m, r)
    PROVE  Gathered(s, r)
<1>1. /\ Reader(m) /\ Wrote(s.ctx.place, s, m) /\ m.ctx = [s.ctx EXCEPT !.count = m.ctx.count]
      /\ Listed(m) /\ m.ctx \in ReadContext /\ s.ctx \in ReadContext
  BY DEF Gathered, Reader
<1>2. m.ctx.place = s.ctx.place /\ m.ctx.kind = s.ctx.kind /\ m.ctx.count \in Nat
  BY <1>1 DEF ReadContext
<1>3. Reader(r) /\ Wrote(s.ctx.place, s, r)
  BY <1>1, <1>2, WroteThen DEF RowDone
<1>4. SUFFICES ASSUME ~Failed(r)
               PROVE  r.ctx = [s.ctx EXCEPT !.count = r.ctx.count] /\ Listed(r)
  BY <1>3 DEF Gathered
<1>5. r.ctx = [m.ctx EXCEPT !.count = r.ctx.count] /\ ReadOne(m, r)
  BY <1>4 DEF RowDone
<1>6. r.ctx \in ReadContext
  BY <1>3 DEF Reader
<1>7. r.ctx = [s.ctx EXCEPT !.count = r.ctx.count]
      /\ \A c \in Nat : [r.ctx EXCEPT !.count = c] = [m.ctx EXCEPT !.count = c]
  BY <1>1, <1>5, <1>6 DEF ReadContext
<1>8. CASE r.ctx.count = m.ctx.count /\ r.pending = m.pending
  <2>1. r.ctx = m.ctx
    BY <1>1, <1>5, <1>8 DEF ReadContext
  <2>2. Listed(r)
    BY <1>1, <1>8, <2>1 DEF Listed
  <2>. QED BY <1>7, <2>2
<1>9. CASE /\ r.ctx.count = m.ctx.count + 1
           /\ IsContainer(m.ctx) \/ m.ctx.count = 0
           /\ \E F : Adds(F, Dataset(r.ctx), m, r)
  <2>1. PICK F : Adds(F, Dataset(r.ctx), m, r)
    BY <1>9
  <2> DEFINE n == m.ctx.count
             At(c) == Dataset([r.ctx EXCEPT !.count = c])
  <2>2. Len(m.pending) \in Nat /\ Len(r.pending) \in Nat /\ n \in Nat /\ r.ctx.count = n + 1
    BY <1>1, <1>2, <1>3, <1>9, PendingLength
  <2>3. At(n + 1) = Dataset(r.ctx)
    BY <1>6, <2>2 DEF ReadContext
  <2>4. ASSUME NEW i \in 1..Len(m.pending)
        PROVE  /\ r.pending[i] = m.pending[i] /\ r.pending[i].ctx \in ReadContext
               /\ \E c \in 1..n : r.pending[i].ctx.place \in Beyond(At(c))
    <3>1. r.pending[i] = m.pending[i]
      BY <2>1 DEF Adds
    <3>2. PICK c \in 1..n : m.pending[i].ctx.place \in Beyond(Dataset([m.ctx EXCEPT !.count = c]))
      BY <1>1 DEF Listed
    <3>3. c \in Nat
      BY <2>2
    <3>4. m.pending[i].ctx.place \in Beyond(At(c))
      BY <1>7, <3>2, <3>3
    <3> HIDE DEF At, n
    <3>. QED BY <1>1, <3>1, <3>4 DEF Listed
  <2>5. ASSUME NEW i \in Len(m.pending) + 1..Len(r.pending)
        PROVE  r.pending[i].ctx \in ReadContext /\ r.pending[i].ctx.place \in Beyond(At(n + 1))
    BY <2>1, <2>3 DEF Adds, Added
  <2>6. ASSUME NEW i \in 1..Len(r.pending), i \notin 1..Len(m.pending)
        PROVE  i \in Len(m.pending) + 1..Len(r.pending)
    BY <2>2, <2>6
  <2>7. ASSUME NEW i \in 1..Len(m.pending), NEW j \in Len(m.pending) + 1..Len(r.pending)
        PROVE  r.pending[i].ctx.place # r.pending[j].ctx.place
    <3>1. PICK c \in 1..n : r.pending[i].ctx.place \in Beyond(At(c))
      BY <2>4
    <3>2. r.pending[j].ctx.place \in Beyond(At(n + 1))
      BY <2>5
    <3>3. n # 0 /\ c # n + 1 /\ c \in Nat /\ n + 1 \in Nat
      BY <2>2
    <3>4. IsContainer(r.ctx)
      BY <1>1, <1>2, <1>5, <1>9, <3>3 DEF IsContainer, ReadContext
    <3>5. \A k \in Nat : /\ At(k) = Append(r.ctx.place, k) /\ Len(At(k)) = Len(r.ctx.place) + 1
                         /\ At(k)[Len(r.ctx.place) + 1] = k
      <4>1. ASSUME NEW k \in Nat PROVE At(k) = Append(r.ctx.place, k)
        <5>1. [r.ctx EXCEPT !.count = k].kind = r.ctx.kind /\ [r.ctx EXCEPT !.count = k].count = k
              /\ [r.ctx EXCEPT !.count = k].place = r.ctx.place
          BY <1>6 DEF ReadContext
        <5>. QED BY <3>4, <5>1 DEF IsContainer, Dataset
      <4>2. r.ctx.place \in Seq(Nat \cup Field)
        BY <1>6 DEF ReadContext, Place
      <4> HIDE DEF At
      <4>. QED BY <4>1, <4>2
    <3>6. \A k \in Nat : \A x \in Beyond(At(k)) : x[Len(r.ctx.place) + 1] = k
      <4> HIDE DEF At
      <4>1. SUFFICES ASSUME NEW k \in Nat, NEW x \in Beyond(At(k))
                     PROVE  x[Len(r.ctx.place) + 1] = k
        OBVIOUS
      <4>2. Len(r.ctx.place) \in Nat
        BY <1>6 DEF ReadContext, Place
      <4>3. Len(r.ctx.place) + 1 \in 1..Len(At(k))
        BY <3>5, <4>2
      <4>. QED BY <3>5, <4>3 DEF Beyond
    <3> HIDE DEF At, n
    <3>. QED BY <3>1, <3>2, <3>3, <3>6
  <2>8. \A i, j \in Len(m.pending) + 1..Len(r.pending) :
           i # j => r.pending[i].ctx.place # r.pending[j].ctx.place
    BY <2>1 DEF Adds, Added
  <2> HIDE DEF At
  <2>9. ASSUME NEW i \in 1..Len(r.pending)
        PROVE  /\ r.pending[i].ctx \in ReadContext
               /\ \E c \in 1..n + 1 : r.pending[i].ctx.place \in Beyond(At(c))
    <3>1. CASE i \in 1..Len(m.pending)
      <4>1. PICK c \in 1..n : r.pending[i].ctx.place \in Beyond(At(c))
        BY <2>4, <3>1
      <4>2. c \in 1..n + 1
        BY <2>2
      <4>. QED BY <2>4, <3>1, <4>1, <4>2
    <3>2. CASE i \notin 1..Len(m.pending)
      <4>1. i \in Len(m.pending) + 1..Len(r.pending)
        BY <2>6, <3>2
      <4>2. n + 1 \in 1..n + 1
        BY <2>2
      <4>. QED BY <2>5, <4>1, <4>2
    <3>. QED BY <3>1, <3>2
  <2>10. ASSUME NEW i \in 1..Len(r.pending), NEW j \in 1..Len(r.pending), i # j
         PROVE  r.pending[i].ctx.place # r.pending[j].ctx.place
    <3>1. CASE i \in 1..Len(m.pending) /\ j \in 1..Len(m.pending)
      <4>1. m.pending[i].ctx.place # m.pending[j].ctx.place
        BY <1>1, <2>10, <3>1 DEF Listed
      <4>. QED BY <2>4, <3>1, <4>1
    <3>2. CASE i \in 1..Len(m.pending) /\ j \notin 1..Len(m.pending)
      BY <2>6, <2>7, <3>2
    <3>3. CASE i \notin 1..Len(m.pending) /\ j \in 1..Len(m.pending)
      BY <2>6, <2>7, <3>3
    <3>4. CASE i \notin 1..Len(m.pending) /\ j \notin 1..Len(m.pending)
      BY <2>6, <2>8, <2>10, <3>4
    <3>. QED BY <3>1, <3>2, <3>3, <3>4
  <2>11. Listed(r)
    BY <2>2, <2>9, <2>10 DEF Listed, At
  <2>. QED BY <1>7, <2>11
<1>. QED BY <1>5, <1>8, <1>9 DEF ReadOne

\* Containers of two datasets of a context are beyond its place.
LEMMA ListedBeyond ==
    ASSUME NEW r, Reader(r), Listed(r)
    PROVE  \A i \in 1..Len(r.pending) : r.pending[i].ctx.place \in Beyond(r.ctx.place)
<1>1. TAKE i \in 1..Len(r.pending)
<1>2. r.ctx \in ReadContext
  BY DEF Reader
<1>3. PICK c \in 1..r.ctx.count :
         r.pending[i].ctx.place \in Beyond(Dataset([r.ctx EXCEPT !.count = c]))
  BY DEF Listed
<1> DEFINE ctx == [r.ctx EXCEPT !.count = c]
           x == r.pending[i].ctx.place
           p == r.ctx.place
           d == Dataset(ctx)
<1>4. ctx \in ReadContext /\ ctx.place = p /\ p \in Place
  BY <1>2 DEF ReadContext
<1>5. d \in Spot(p)
  BY <1>4, DatasetSpot
<1>6. x \in Beyond(d)
  BY <1>3
<1> HIDE DEF ctx, x, p, d
<1>7. x \in Beyond(p)
  <2>1. x \in Place /\ d \in Place /\ Len(p) \in Nat /\ Len(d) \in Nat /\ Len(x) \in Nat
    BY <1>4, <1>5, <1>6 DEF Beyond, Spot, Place
  <2>2. Len(p) <= Len(d) /\ Len(d) < Len(x)
    BY <1>5, <1>6 DEF Beyond, Spot
  <2>3. \A k \in 1..Len(p) : x[k] = p[k]
    BY <1>5, <1>6, <2>1, <2>2 DEF Beyond, Spot
  <2>4. ASSUME NEW k \in Len(p) + 1..Len(x) - 1 PROVE x[k] \notin Many
    <3>1. CASE k <= Len(d)
      <4>1. k \in Len(p) + 1..Len(d) /\ k \in 1..Len(d)
        BY <2>1, <3>1
      <4>. QED BY <1>5, <1>6, <4>1 DEF Beyond, Spot
    <3>2. CASE ~(k <= Len(d))
      <4>1. k \in Len(d) + 1..Len(x) - 1
        BY <2>1, <3>2
      <4>. QED BY <1>6, <4>1 DEF Beyond
    <3>. QED BY <3>1, <3>2
  <2>. QED BY <1>6, <2>1, <2>2, <2>3, <2>4 DEF Beyond
<1>. QED BY <1>7 DEF x, p

-----------------------------------------------------------------------------
(* The statement caches.                                                   *)

\* A kept statement is the one every setting with its id would build.
EntriesFit ==
    \A entry \in DOMAIN cache : \A s \in Setting :
       CacheId(s) = entry[2] => cache[entry] = Build(entry[1], s)

CacheInv == CacheTypeOK /\ EntriesFit /\ StatementIsCurrent

-----------------------------------------------------------------------------
\* A filter excludes tables and fields (filter.inl:74-125).
LEMMA ExclusionsType ==
    ASSUME NEW s \in Setting
    PROVE  Exclusions(s) \in SUBSET (Table \cup Field)
<1>1. s.call \in {"clear", "inclusive", "exclusive"} /\ s.tables \subseteq Table
      /\ s.fields \subseteq Field
  BY CacheAssumption
<1>2. \A t \in Table : Range(FieldsOf[t]) \subseteq Field
  <2>1. SUFFICES ASSUME NEW t \in Table, NEW i \in DOMAIN FieldsOf[t]
                 PROVE  FieldsOf[t][i] \in Field
    BY DEF Range
  <2>2. FieldsOf[t] \in Seq(Field)
    BY SchemaAssumption
  <2>3. QED BY <2>1, <2>2
<1>3. AddedFields(s.tables, s.fields) \subseteq Field
  BY <1>1, <1>2 DEF AddedFields
<1>4. CASE s.call = "clear"
  BY <1>4 DEF Exclusions, NoFilter
<1>5. CASE s.call = "inclusive"
  BY <1>5 DEF Exclusions, SetInclusive
<1>6. CASE s.call = "exclusive"
  BY <1>6, <1>3 DEF Exclusions, SetExclusive
<1>7. QED BY <1>1, <1>4, <1>5, <1>6

\* What is built is a statement.
LEMMA BuildType ==
    ASSUME NEW slot \in Slot, NEW s \in Setting
    PROVE  Build(slot, s) \in Statement
BY ExclusionsType DEF Build, Statement

\* What get_statement_select() and get_statement_update() return is what they
\* would build now, also when they find it (table.cpp:1455-1483).
LEMMA PreparedIsBuilt ==
    ASSUME CacheInv, NEW slot \in Slot
    PROVE  Prepared(slot) = Build(slot, setting)
<1>1. setting \in Setting
  BY DEF CacheInv, CacheTypeOK
<1>2. CASE <<slot, CacheId(setting)>> \in DOMAIN cache
  <2>1. cache[<<slot, CacheId(setting)>>] = Build(slot, setting)
    BY <1>1, <1>2 DEF CacheInv, EntriesFit
  <2>2. QED BY <1>2, <2>1 DEF Prepared
<1>3. CASE <<slot, CacheId(setting)>> \notin DOMAIN cache
  BY <1>3 DEF Prepared
<1>4. QED BY <1>2, <1>3

-----------------------------------------------------------------------------
\* Nothing is kept at first.
LEMMA CacheInitInv == CacheInit => CacheInv
BY DEF CacheInit, CacheInv, CacheTypeOK, EntriesFit, StatementIsCurrent

\* A new setting changes no entry.
LEMMA SetFilterInv ==
    ASSUME CacheInv, NEW s \in Setting, SetFilter(s)
    PROVE  CacheInv'
BY DEF SetFilter, CacheInv, CacheTypeOK, EntriesFit, StatementIsCurrent

\* A statement is taken from the cache or added to it under the current id.
LEMMA ExecuteInv ==
    ASSUME CacheInv, NEW slot \in Slot, Execute(slot)
    PROVE  CacheInv'
<1> DEFINE new == <<slot, CacheId(setting)>>
<1>1. /\ setting \in Setting /\ setting' = setting
      /\ DOMAIN cache \subseteq Slot \X Id
      /\ \A entry \in DOMAIN cache : cache[entry] \in Statement
  BY DEF CacheInv, CacheTypeOK, Execute
<1>2. executed' = Build(slot, setting)
  BY PreparedIsBuilt DEF Execute
<1>3. /\ DOMAIN cache' = DOMAIN cache \cup {new}
      /\ cache'[new] = Build(slot, setting)
      /\ \A entry \in DOMAIN cache : entry # new => cache'[entry] = cache[entry]
  BY PreparedIsBuilt DEF Execute
<1>4. Build(slot, setting) \in Statement
  BY <1>1, BuildType
<1>5. new \in Slot \X Id
  BY <1>1 DEF Id
<1>6. CacheTypeOK'
  BY <1>1, <1>2, <1>3, <1>4, <1>5 DEF CacheTypeOK
<1>7. EntriesFit'
  <2>1. SUFFICES ASSUME NEW entry \in DOMAIN cache', NEW s \in Setting,
                        CacheId(s) = entry[2]
                 PROVE  cache'[entry] = Build(entry[1], s)
    BY DEF EntriesFit
  <2>2. CASE entry = new
    <3>1. Exclusions(s) = Exclusions(setting)
      BY <1>1, <2>1, <2>2, IdsIdentify
    <3>2. QED BY <1>3, <2>2, <3>1 DEF Build
  <2>3. CASE entry # new
    BY <1>3, <2>1, <2>3 DEF CacheInv, EntriesFit
  <2>4. QED BY <2>2, <2>3
<1>8. StatementIsCurrent'
  BY <1>1, <1>2 DEF StatementIsCurrent, Build
<1>9. QED BY <1>6, <1>7, <1>8 DEF CacheInv

\* Every step preserves the invariant.
LEMMA CacheNextInv == CacheInv /\ [CacheNext]_cacheVars => CacheInv'
<1>1. SUFFICES ASSUME CacheInv, [CacheNext]_cacheVars PROVE CacheInv'
  OBVIOUS
<1>2. CASE \E s \in Setting : SetFilter(s)
  BY <1>1, <1>2, SetFilterInv
<1>3. CASE \E slot \in Slot : Execute(slot)
  BY <1>1, <1>3, ExecuteInv
<1>4. CASE UNCHANGED cacheVars
  BY <1>1, <1>4 DEF cacheVars, CacheInv, CacheTypeOK, EntriesFit, StatementIsCurrent
<1>5. QED BY <1>1, <1>2, <1>3, <1>4 DEF CacheNext

\* Every entry of the cache fits all settings with its id, whatever the client sets
\* and whichever statements table_t executes.
THEOREM CacheInvariant == CacheSpec => []CacheInv
BY CacheInitInv, CacheNextInv, PTL DEF CacheSpec

\* The maps hold statements of the table's slots and of ids that a filter of
\* the client has, and nothing else is executed.
THEOREM CacheTypeCorrect == CacheSpec => []CacheTypeOK
<1>1. CacheInv => CacheTypeOK
  BY DEF CacheInv
<1>2. QED BY CacheInvariant, <1>1, PTL

\* However the client goes from one filter to another between its calls, a
\* SELECT and an UPDATE of the statement caches leave out what the filter that
\* is set now excludes, and nothing else.
THEOREM CacheIsCurrent == CacheSpec => []StatementIsCurrent
<1>1. CacheInv => StatementIsCurrent
  BY DEF CacheInv
<1>2. QED BY CacheInvariant, <1>1, PTL

-----------------------------------------------------------------------------
(* Places, and the rows of a SELECT.                                       *)

\* p is at x or around it.
Around(p, x) == Len(p) <= Len(x) /\ \A k \in 1..Len(p) : x[k] = p[k]

\* What is around a place that is around another one is around that one.
LEMMA AroundWhat ==
    ASSUME NEW p \in Place, NEW q \in Place, NEW x \in Place, Around(p, q), Around(q, x)
    PROVE  Around(p, x)
BY DEF Around, Place

\* Of two places around a third one, one is around the other.
LEMMA AroundSame ==
    ASSUME NEW p \in Place, NEW q \in Place, NEW x \in Place, Around(p, x), Around(q, x)
    PROVE  Around(p, q) \/ Around(q, p)
BY DEF Around, Place

\* What is at a place and in what is there has the place around it, and no container
\* there is around it.
LEMMA SpotAround ==
    ASSUME NEW p \in Place
    PROVE  /\ \A x \in Spot(p) : x \in Place /\ Around(p, x)
           /\ \A q \in Beyond(p) : q \in Place /\ Around(p, q)
           /\ \A q \in Beyond(p), x \in Spot(p) : ~Around(q, x)
<1>1. ASSUME NEW q \in Beyond(p), NEW x \in Spot(p), Around(q, x) PROVE FALSE
  <2>1. Len(p) \in Nat /\ Len(q) \in Nat /\ Len(x) \in Nat
    BY DEF Spot, Beyond, Place
  <2>2. Len(q) \in 1..Len(q) /\ Len(q) \in Len(p) + 1..Len(x)
    BY <1>1, <2>1 DEF Beyond, Around
  <2>3. x[Len(q)] = q[Len(q)] /\ q[Len(q)] \in Many
    BY <1>1, <2>2 DEF Beyond, Around
  <2>. QED BY <2>2, <2>3 DEF Spot
<1>2. /\ \A x \in Spot(p) : x \in Place /\ Around(p, x)
      /\ \A q \in Beyond(p) : q \in Place /\ Around(p, q)
  BY DEF Spot, Beyond, Place, Around
<1>. QED BY <1>1, <1>2

\* The containers in what is at a place are not in one another.
LEMMA BeyondSame ==
    ASSUME NEW p \in Place, NEW q \in Beyond(p), NEW u \in Beyond(p), Around(q, u)
    PROVE  q = u
<1>1. Len(p) \in Nat /\ Len(q) \in Nat /\ Len(u) \in Nat /\ q \in Place /\ u \in Place
  BY DEF Beyond, Place
<1>2. CASE Len(q) = Len(u)
  BY <1>1, <1>2 DEF Around, Place
<1>3. CASE Len(q) # Len(u)
  <2>1. Len(q) \in Len(p) + 1..Len(u) - 1 /\ Len(q) \in 1..Len(q)
    BY <1>1, <1>3 DEF Around, Beyond
  <2>2. u[Len(q)] = q[Len(q)] /\ q[Len(q)] \in Many
    BY <2>1 DEF Around, Beyond
  <2>. QED BY <2>1, <2>2 DEF Beyond
<1>. QED BY <1>2, <1>3

-----------------------------------------------------------------------------
\* One row after the other.
LEMMA ReadRounds ==
    ASSUME NEW select, NEW task, NEW keys \in Seq(Key)
    PROVE  \E read : /\ ReadRows(select, task, keys) = read[Len(keys)]
                     /\ read[0] = Start(task)
                     /\ \A n \in 1..Len(keys) :
                           read[n] = ReadRow(read[n - 1], ResultRow(select, keys[n]),
                                             task.ctx.table, Exclusions(setting))
<1> DEFINE Next1(r, n) == ReadRow(r, ResultRow(select, keys[n]), task.ctx.table,
                                  Exclusions(setting))
           Is(f, m) == f = [n \in 0..m |-> IF n = 0 THEN Start(task) ELSE Next1(f[n - 1], n)]
           S == {m \in Nat : \E f : Is(f, m)}
<1>0. Len(keys) \in Nat
  OBVIOUS
<1>a. \A f, m : Is(f, m) <=>
         f = [n \in 0..m |-> IF n = 0 THEN Start(task) ELSE Next1(f[n - 1], n)]
  OBVIOUS
<1>b. \A read : (\A n \in 1..Len(keys) : read[n] = Next1(read[n - 1], n)) =>
         \A n \in 1..Len(keys) :
                           read[n] = ReadRow(read[n - 1], ResultRow(select, keys[n]),
                                             task.ctx.table, Exclusions(setting))
  OBVIOUS
<1>c. ReadRows(select, task, keys)
        = (CHOOSE f : Is(f, Len(keys)))[Len(keys)]
  BY DEF ReadRows
<1> HIDE DEF Next1
<1>1. 0 \in S
  <2> DEFINE f == [n \in 0..0 |-> Start(task)]
  <2>1. Is(f, 0)
    OBVIOUS
  <2>. QED BY <2>1
<1>2. ASSUME NEW m \in S PROVE m + 1 \in S
  <2>1. PICK f : Is(f, m)
    OBVIOUS
  <2> DEFINE g == [n \in 0..m + 1 |-> IF n = m + 1 THEN Next1(f[m], n) ELSE f[n]]
  <2>2. m \in Nat
    OBVIOUS
  <2>3. ASSUME NEW n \in 0..m + 1
        PROVE  g[n] = IF n = 0 THEN Start(task) ELSE Next1(g[n - 1], n)
    <3>1. CASE n = m + 1
      <4>1. n # 0 /\ n - 1 = m /\ m \in 0..m + 1 /\ m # m + 1
        BY <2>2, <3>1
      <4>2. g[n - 1] = f[m]
        BY <4>1
      <4>3. g[n] = Next1(f[m], n)
        BY <3>1
      <4>. QED BY <4>1, <4>2, <4>3
    <3>2. CASE n # m + 1
      <4>1. n \in 0..m
        BY <2>2, <3>2
      <4>2. g[n] = f[n]
        BY <3>2
      <4>3. f[n] = IF n = 0 THEN Start(task) ELSE Next1(f[n - 1], n)
        BY <2>1, <4>1
      <4>4. n # 0 => g[n - 1] = f[n - 1]
        <5>1. n # 0 => n - 1 \in 0..m + 1 /\ n - 1 # m + 1
          BY <2>2, <4>1
        <5>. QED BY <5>1
      <4>. QED BY <4>2, <4>3, <4>4
    <3>. QED BY <3>1, <3>2
  <2>4. Is(g, m + 1)
    <3> HIDE DEF g
    <3>1. g = [n \in 0..m + 1 |-> g[n]]
      BY DEF g
    <3>. QED BY <2>3, <3>1
  <2> HIDE DEF g, Is
  <2>. QED BY <2>2, <2>4
<1>3. S = Nat
  <2> HIDE DEF S
  <2>1. S \in SUBSET Nat
    BY DEF S
  <2>. QED BY <1>1, <1>2, <2>1, NatSetInduction
<1>4. \E f : Is(f, Len(keys))
  <2> HIDE DEF Is
  <2>. QED BY <1>0, <1>3
<1> DEFINE read == CHOOSE f : Is(f, Len(keys))
<1>5. Is(read, Len(keys))
  BY <1>4
<1>6. ReadRows(select, task, keys) = read[Len(keys)]
  BY <1>c
<1> HIDE DEF read
<1>7. read[0] = Start(task) /\ \A n \in 1..Len(keys) : read[n] = Next1(read[n - 1], n)
  BY <1>0, <1>5
<1>. QED BY <1>6, <1>7, <1>b

\* What is read of a result, however many rows it has.
LEMMA RowsGathered ==
    ASSUME NEW task, task.ctx \in ReadContext, NEW keys \in Seq(Key)
    PROVE  LET select == BuildSelect(task.ctx.table, Exclusions(setting), task.ctx.dyn)
           IN Gathered(Start(task), ReadRows(select, task, keys))
<1> DEFINE t == task.ctx.table
           dyn == task.ctx.dyn
           excluded == Exclusions(setting)
           select == BuildSelect(t, excluded, dyn)
           s == Start(task)
<1>1. PICK read : /\ ReadRows(select, task, keys) = read[Len(keys)]
                  /\ read[0] = s
                  /\ \A n \in 1..Len(keys) :
                        read[n] = ReadRow(read[n - 1], ResultRow(select, keys[n]), t, excluded)
  <2> HIDE DEF select
  <2>. QED BY ReadRounds
<1>2. t \in Table /\ dyn \in BOOLEAN
  BY DEF ReadContext
<1>3. select.cols \in Seq(QueryColumn)
  BY <1>2, WalkTakesColumns DEF Takes
<1>4. \A k : Len(ResultRow(select, k)) = Len(select.cols)
  <2> HIDE DEF select
  <2>. QED BY <1>3 DEF ResultRow
<1>5. Reader(s) /\ s.ctx = task.ctx /\ ~Failed(s) /\ s.pending = <<>>
  <2>1. /\ s.i = 0 /\ s.skip = FALSE /\ s.err = "none" /\ s.ctx = task.ctx /\ s.saved = <<>>
        /\ s.pending = <<>>
    BY DEF Start
  <2>2. IsState(s)
    BY DEF Start, IsState
  <2>3. <<>> \in Seq(Frame) /\ <<>> \in Seq({})
    OBVIOUS
  <2> HIDE DEF s
  <2>. QED BY <2>1, <2>2, <2>3 DEF Reader, Failed
<1> HIDE DEF s, select, t, dyn, excluded
<1>6. Gathered(s, s)
  <2>1. s.ctx = [s.ctx EXCEPT !.count = s.ctx.count]
    BY <1>5 DEF ReadContext
  <2>2. Listed(s)
    BY <1>5 DEF Listed
  <2>3. Wrote(s.ctx.place, s, s)
    BY DEF Wrote
  <2>. QED BY <1>5, <2>1, <2>2, <2>3 DEF Gathered
<1> DEFINE S == {n \in 0..Len(keys) : Gathered(s, read[n])}
<1>7. Len(keys) \in Nat /\ 0 \in S
  BY <1>1, <1>6
<1>8. ASSUME NEW n \in 0..Len(keys), n \in S, n + 1 <= Len(keys) PROVE n + 1 \in S
  <2> DEFINE m == read[n]
             row == ResultRow(select, keys[n + 1])
             r == ReadRow(m, row, t, excluded)
  <2>1. n + 1 \in 1..Len(keys) /\ (n + 1) - 1 = n /\ n + 1 \in 0..Len(keys)
    BY <1>7, <1>8
  <2>2. read[n + 1] = r
    BY <1>1, <2>1
  <2>3. Gathered(s, m)
    BY <1>8
  <2> HIDE DEF m
  <2>4. CASE Failed(m)
    <3>1. r = m
      BY <2>4 DEF ReadRow
    <3>. QED BY <2>1, <2>2, <2>3, <3>1
  <2>5. CASE ~Failed(m)
    <3>1. Reader(m) /\ m.ctx.dyn = dyn
      BY <1>5, <2>3, <2>5 DEF Gathered, dyn, ReadContext
    <3>2. select = BuildSelect(t, excluded, m.ctx.dyn)
      BY <3>1 DEF select
    <3>3. Len(row) = Len(BuildSelect(t, excluded, m.ctx.dyn).cols)
      BY <1>4, <3>2
    <3> HIDE DEF row
    <3>4. RowDone(m, r)
      BY <1>2, <3>1, <3>3, RowRead
    <3> HIDE DEF r
    <3>5. Gathered(s, r)
      BY <1>5, <2>3, <2>5, <3>4, RowGathers
    <3>. QED BY <2>1, <2>2, <3>5
  <2>. QED BY <2>4, <2>5
<1>9. Len(keys) \in S
  <2> HIDE DEF S
  <2>. QED BY <1>7, <1>8, UpTo
<1>. QED BY <1>1, <1>9 DEF s, select, t, dyn, excluded

-----------------------------------------------------------------------------
(* What a task comes to.                                                   *)

\* build_limit() leaves rows of the table.
LEMMA LimitedType ==
    ASSUME NEW keys \in SUBSET Key, NEW rows \in SetToSeqs(keys),
           NEW limit \in Int, NEW offset \in Int
    PROVE  Limited(rows, limit, offset) \in Seq(Key)
<1>1. IsFiniteSet(keys)
  BY DatabaseAssumption, FS_Subset
<1>2. Cardinality(keys) \in Nat
  BY <1>1, FS_CardinalityType
<1>3. rows \in [1..Cardinality(keys) -> keys]
  BY DEF SetToSeqs
<1>4. rows \in Seq(Key) /\ Len(rows) \in Nat /\ \A i \in 1..Len(rows) : rows[i] \in Key
  BY <1>2, <1>3
<1> DEFINE skipped == IF offset < 0 THEN 0 ELSE offset
           last == IF limit >= 0 /\ skipped + limit < Len(rows) THEN skipped + limit ELSE Len(rows)
<1>5. skipped + 1 \in Int /\ last \in Int /\ \A i \in skipped + 1..last : i \in 1..Len(rows)
  BY <1>4
<1>6. Limited(rows, limit, offset) = SubSeq(rows, skipped + 1, last)
  BY DEF Limited
<1> HIDE DEF skipped, last
<1>. QED BY <1>4, <1>5, <1>6, SubSeqProperties

\* A task of read_exec(), and what it comes to.
IsTask(task) == task.ctx \in ReadContext /\ task.limit \in Int /\ task.offset \in Int

\* A failure is not the one of a row that has cells left.
LEMMA FailGathers ==
    ASSUME NEW s, NEW r, Gathered(s, r), ~Failed(r), NEW what, what # "not completely read"
    PROVE  Gathered(s, Fail(r, what))
<1> DEFINE u == Fail(r, what)
<1>1. IsState(r) /\ Reader(r)
  BY DEF Gathered, Reader
<1>2. /\ IsState(u) /\ u.skip = r.skip /\ u.ctx = r.ctx /\ u.saved = r.saved
      /\ u.pending = r.pending /\ u.heap = r.heap /\ u.err = what
  <2>1. /\ u.skip = r.skip /\ u.ctx = r.ctx /\ u.saved = r.saved
        /\ u.pending = r.pending /\ u.heap = r.heap /\ u.err = what
    BY <1>1 DEF IsState, Fail
  <2>2. IsState(u)
    BY <1>1, StateExcept DEF Fail
  <2>. QED BY <2>1, <2>2
<1> HIDE DEF u
<1>3. Reader(u) /\ Wrote(s.ctx.place, s, u)
  BY <1>1, <1>2 DEF Gathered, Reader, Wrote
<1>4. Gathered(s, u)
  BY <1>2, <1>3 DEF Gathered, Listed
<1>. QED BY <1>4 DEF u

\* Whatever comes of a task, its SELECT and its rows: nothing is written but at its
\* place, and the containers it puts on the list are in different places.
LEMMA OutcomeGathers ==
    ASSUME CacheInv, NEW task, IsTask(task), NEW read \in Outcomes(task)
    PROVE  Gathered(Start(task), read)
<1> DEFINE s == Start(task)
           select == BuildSelect(task.ctx.table, Prepared(SlotOf(task)).without, task.ctx.dyn)
<1>1. task.ctx \in ReadContext /\ task.limit \in Int /\ task.offset \in Int
      /\ task.ctx.table \in Table /\ task.ctx.dyn \in BOOLEAN
  BY DEF IsTask, ReadContext
<1>2. Prepared(SlotOf(task)).without = Exclusions(setting)
  <2>1. SlotOf(task) \in Slot
    BY <1>1 DEF SlotOf, Slot
  <2>. QED BY <2>1, PreparedIsBuilt DEF Build
<1>3. \A keys \in Seq(Key) : Gathered(s, ReadRows(select, task, keys))
  BY <1>1, <1>2, RowsGathered
<1>4. Gathered(s, s) /\ ~Failed(s)
  <2>1. /\ s.skip = FALSE /\ s.err = "none" /\ s.ctx = task.ctx /\ s.saved = <<>>
        /\ s.pending = <<>>
    BY DEF Start
  <2>2. IsState(s)
    BY DEF Start, IsState
  <2>3. <<>> \in Seq(Frame) /\ <<>> \in Seq({})
    OBVIOUS
  <2>4. s.ctx = [s.ctx EXCEPT !.count = s.ctx.count]
    BY <1>1, <2>1 DEF ReadContext
  <2> HIDE DEF s
  <2>5. Reader(s)
    BY <1>1, <2>1, <2>2, <2>3 DEF Reader
  <2>. QED BY <2>1, <2>4, <2>5 DEF Gathered, Listed, Wrote, Failed
<1>5. CASE \E what \in {"undefined", "refused"} : read = Fail(s, what)
  <2>1. PICK what \in {"undefined", "refused"} : read = Fail(s, what)
    BY <1>5
  <2>2. what # "not completely read"
    BY <2>1
  <2> HIDE DEF s
  <2>3. Gathered(s, Fail(s, what))
    BY <1>4, <2>2, FailGathers
  <2>. QED BY <2>1, <2>3 DEF s
<1>6. CASE \E r \in Results(select, task) : read = Finished(r)
  <2>1. PICK r \in Results(select, task) : read = Finished(r)
    BY <1>6
  <2>2. PICK rows \in InOrder(Matched(select, task.ctx.table, task.where), task.field) :
           r = ReadRows(select, task, Limited(rows, task.limit, task.offset))
    <3> HIDE DEF select
    <3>. QED BY DEF Results
  <2>3. Matched(select, task.ctx.table, task.where) \in SUBSET Key
    BY DEF Matched, RowsOf, Rows
  <2>4. rows \in SetToSeqs(Matched(select, task.ctx.table, task.where))
    BY DEF InOrder
  <2> HIDE DEF select
  <2>5. Limited(rows, task.limit, task.offset) \in Seq(Key)
    BY <1>1, <2>3, <2>4, LimitedType
  <2>6. Gathered(s, r)
    BY <1>3, <2>2, <2>5
  <2> HIDE DEF s
  <2>7. FinishError(r.ctx) # "not completely read"
    BY DEF FinishError
  <2>8. Gathered(s, read)
    <3>1. CASE Failed(r)
      BY <2>1, <2>6, <3>1 DEF Finished
    <3>2. CASE ~Failed(r)
      BY <2>1, <2>6, <2>7, <3>2, FailGathers DEF Finished
    <3>. QED BY <3>1, <3>2
  <2>. QED BY <2>8 DEF s
<1>. QED BY <1>5, <1>6 DEF Outcomes

-----------------------------------------------------------------------------
\* What is read so far, and what is to be read yet: no place on the list is in
\* another one, or has something written at it or in it.
TodoOK ==
    /\ \E X : todo \in Seq(X)
    /\ \A i \in 1..Len(todo) : IsTask(todo[i])
HeapOK == DOMAIN heap \subseteq Place
Apart ==
    /\ \A i \in 1..Len(todo) : \A x \in DOMAIN heap : ~Around(todo[i].ctx.place, x)
    /\ \A i, j \in 1..Len(todo) : i # j => ~Around(todo[i].ctx.place, todo[j].ctx.place)

ReadInv == CacheInv /\ TodoOK /\ HeapOK /\ Apart /\ RowsAreRead

\* A call begins at one place, with nothing read.
LEMMA BeginInv ==
    ASSUME ReadInv, NEW dest, NEW mods, BeginRead(dest, mods),
           dest.kind \in {"value", "optional", "pointer", "values", "pointers"},
           dest.table \in Table, dest.moves \in BOOLEAN,
           mods.limit \in Int, mods.offset \in Int
    PROVE  ReadInv'
<1> DEFINE ctx == Context(dest.kind, dest.table, <<>>, dest.moves)
           task == Task(ctx, mods, NoField)
<1>1. /\ todo' = <<task>> /\ heap' = NoHeap /\ result' = "none"
      /\ setting' = setting /\ cache' = cache /\ executed' = executed
  BY DEF BeginRead, cacheVars
<1>2. ctx \in ReadContext
  <2>1. <<>> \in Place
    BY DEF Place
  <2>. QED BY <2>1 DEF Context, ReadContext
<1>3. IsTask(task)
  BY <1>2 DEF IsTask, Task
<1> HIDE DEF task
<1>4. TodoOK'
  <2>1. /\ todo' \in Seq({task}) /\ Len(todo') = 1 /\ todo'[1] = task
    BY <1>1
  <2>2. \A i \in 1..Len(todo') : IsTask(todo'[i])
    BY <1>3, <2>1
  <2>. QED BY <2>1, <2>2 DEF TodoOK, IsTask
<1>5. HeapOK' /\ Apart'
  BY <1>1 DEF HeapOK, Apart, NoHeap
<1>6. CacheInv'
  BY <1>1 DEF ReadInv, CacheInv, CacheTypeOK, EntriesFit, StatementIsCurrent
<1>7. RowsAreRead'
  BY <1>1 DEF RowsAreRead
<1>. QED BY <1>4, <1>5, <1>6, <1>7 DEF ReadInv

\* A SELECT writes at its place, which nothing is at or in yet.
LEMMA SelectAdds ==
    ASSUME ReadInv, Select
    PROVE  \A p \in DOMAIN heap : p \in DOMAIN heap' /\ heap'[p] = heap[p]
<1> DEFINE task == Head(todo)
<1>1. PICK read \in Outcomes(task) : heap' = read.heap
  BY DEF Select
<1>2. todo # <<>> /\ 1 \in 1..Len(todo) /\ task = todo[1]
  BY DEF ReadInv, TodoOK, Select, Idle
<1> HIDE DEF task
<1>3. IsTask(task)
  BY <1>2 DEF ReadInv, TodoOK
<1>4. Wrote(task.ctx.place, Start(task), read)
  <2>1. Gathered(Start(task), read)
    BY <1>3, OutcomeGathers DEF ReadInv
  <2>. QED BY <2>1 DEF Gathered, Start
<1>5. ASSUME NEW p \in DOMAIN heap PROVE p \in DOMAIN heap' /\ heap'[p] = heap[p]
  <2>1. p \notin Spot(task.ctx.place)
    <3>1. ~Around(task.ctx.place, p)
      BY <1>2 DEF ReadInv, Apart
    <3>. QED BY <3>1 DEF Around, Spot
  <2>2. Start(task).heap = heap
    BY DEF Start
  <2>. QED BY <1>1, <1>4, <2>1, <2>2 DEF Wrote
<1>. QED BY <1>5

-----------------------------------------------------------------------------
(* The list of the tasks.                                                  *)

\* The list after a SELECT at P: tasks for containers in what was read, and then
\* those that waited.
Follow(P, next, n) ==
    /\ \E X : next \in Seq(X)
    /\ n \in Nat /\ Len(next) = n + (Len(todo) - 1)
    /\ \A i \in 1..n : IsTask(next[i]) /\ next[i].ctx.place \in Beyond(P)
    /\ \A i, j \in 1..n : i # j => next[i].ctx.place # next[j].ctx.place
    /\ \A i \in 2..Len(todo) : next[n + (i - 1)] = todo[i]

\* The list that a SELECT leaves is such a list.
LEMMA ListFollows ==
    ASSUME NEW s, NEW read, Gathered(s, read), ~Failed(read),
           TodoOK, ~Idle
    PROVE  LET many == [i \in DOMAIN read.pending |->
                          ManyTask(read.ctx, read.pending[i], read.ctx.count)]
           IN Follow(s.ctx.place, many \o Tail(todo), Len(read.pending))
<1> DEFINE n == Len(read.pending)
           many == [i \in DOMAIN read.pending |->
                      ManyTask(read.ctx, read.pending[i], read.ctx.count)]
           next == many \o Tail(todo)
           P == s.ctx.place
<1>1. Reader(read) /\ Listed(read) /\ read.ctx = [s.ctx EXCEPT !.count = read.ctx.count]
  BY DEF Gathered
<1>2. read.ctx.place = P
  <2>1. read.ctx \in ReadContext
    BY <1>1 DEF Reader
  <2>. QED BY <1>1, <2>1 DEF ReadContext
<1>3. n \in Nat /\ DOMAIN read.pending = 1..n
  <2>1. PICK X : read.pending \in Seq(X)
    BY <1>1 DEF Reader
  <2>. QED BY <2>1
<1>4. ASSUME NEW i \in 1..n
      PROVE  /\ IsTask(many[i]) /\ many[i].ctx = read.pending[i].ctx
             /\ many[i].ctx.place \in Beyond(P)
  <2> DEFINE p == read.pending[i]
             plain == Task(p.ctx, NoModifiers, p.field)
  <2>1. many[i] = ManyTask(read.ctx, p, read.ctx.count)
    BY <1>3
  <2>2. p.ctx \in ReadContext /\ p.ctx.place \in Beyond(P)
    BY <1>1, <1>2, ListedBeyond DEF Listed
  <2>3. many[i].ctx = p.ctx /\ many[i].limit = -1 /\ many[i].offset = -1
    <3> HIDE DEF many, p
    <3>. QED BY <2>1 DEF ManyTask, Task, NoModifiers
  <2> HIDE DEF many, p
  <2>4. IsTask(many[i])
    BY <2>2, <2>3 DEF IsTask
  <2>. QED BY <2>2, <2>3, <2>4 DEF p
<1>5. PICK X : todo \in Seq(X)
  BY DEF TodoOK
<1> DEFINE Y == X \cup {many[i] : i \in 1..n}
<1>6. many \in Seq(Y) /\ Len(many) = n
  <2>1. many = [i \in 1..n |-> many[i]]
    BY <1>3
  <2> HIDE DEF many
  <2>2. \A i \in 1..n : many[i] \in Y
    OBVIOUS
  <2> HIDE DEF Y
  <2>. QED BY <1>3, <2>1, <2>2
<1>7. Tail(todo) \in Seq(Y) /\ Len(Tail(todo)) = Len(todo) - 1
      /\ \A i \in 1..Len(todo) - 1 : Tail(todo)[i] = todo[i + 1]
  <2>1. todo \in Seq(Y)
    BY <1>5, SeqMonotonic
  <2> HIDE DEF Y
  <2>. QED BY <2>1, HeadTailProperties DEF Idle
<1> HIDE DEF many, Y
<1>8. /\ next \in Seq(Y) /\ Len(next) = n + (Len(todo) - 1)
      /\ \A i \in 1..n : next[i] = many[i]
      /\ \A i \in 1..Len(todo) - 1 : next[n + i] = Tail(todo)[i]
  BY <1>3, <1>6, <1>7, SMTT(30)
<1>9. \A i, j \in 1..n : i # j => many[i].ctx.place # many[j].ctx.place
  BY <1>1, <1>4 DEF Listed
<1>10. ASSUME NEW i \in 2..Len(todo) PROVE next[n + (i - 1)] = todo[i]
  <2>1. i - 1 \in 1..Len(todo) - 1 /\ (i - 1) + 1 = i
    BY <1>5
  <2> HIDE DEF next
  <2>. QED BY <1>7, <1>8, <2>1
<1> HIDE DEF next
<1>11. Follow(P, next, n)
  <2>1. \E Z : next \in Seq(Z)
    BY <1>8
  <2>2. \A i \in 1..n : IsTask(next[i]) /\ next[i].ctx.place \in Beyond(P)
    BY <1>4, <1>8
  <2>3. \A i, j \in 1..n : i # j => next[i].ctx.place # next[j].ctx.place
    BY <1>8, <1>9
  <2>4. \A i \in 2..Len(todo) : next[n + (i - 1)] = todo[i]
    BY <1>10
  <2> HIDE DEF n, P
  <2>. QED BY <1>3, <1>8, <2>1, <2>2, <2>3, <2>4 DEF Follow
<1>. QED BY <1>11 DEF next, many

\* With such a list and with writes at P alone, no task is in the way of another.
LEMMA FollowsApart ==
    ASSUME ReadInv, todo # <<>>, NEW next, NEW n, NEW db2,
           Follow(todo[1].ctx.place, next, n), db2 \subseteq Place,
           \A x \in db2 : x \in DOMAIN heap \/ x \in Spot(todo[1].ctx.place)
    PROVE  /\ \A i \in 1..Len(next) : IsTask(next[i])
           /\ \A i \in 1..Len(next) : \A x \in db2 : ~Around(next[i].ctx.place, x)
           /\ \A i, j \in 1..Len(next) :
                 i # j => ~Around(next[i].ctx.place, next[j].ctx.place)
<1> DEFINE P == todo[1].ctx.place
<1>1. /\ Len(todo) \in Nat /\ 1 \in 1..Len(todo)
      /\ \A i \in 1..Len(todo) : IsTask(todo[i]) /\ todo[i].ctx.place \in Place
      /\ \A i \in 1..Len(todo) : \A x \in DOMAIN heap : ~Around(todo[i].ctx.place, x)
      /\ \A i, j \in 1..Len(todo) : i # j => ~Around(todo[i].ctx.place, todo[j].ctx.place)
  BY DEF ReadInv, TodoOK, Apart, IsTask, ReadContext
<1>2. P \in Place /\ DOMAIN heap \subseteq Place
  BY <1>1 DEF ReadInv, HeapOK
<1>3. /\ \A x \in Spot(P) : x \in Place /\ Around(P, x)
      /\ \A q \in Beyond(P) : q \in Place /\ Around(P, q)
      /\ \A q \in Beyond(P), x \in Spot(P) : ~Around(q, x)
  BY <1>2, SpotAround
<1>4. n \in Nat /\ Len(next) = n + (Len(todo) - 1)
  BY DEF Follow
<1>5. ASSUME NEW i \in 1..Len(next), i \notin 1..n
      PROVE  \E k \in 2..Len(todo) : i = n + (k - 1) /\ next[i] = todo[k]
  <2>1. (i - n) + 1 \in 2..Len(todo) /\ n + (((i - n) + 1) - 1) = i
    BY <1>1, <1>4, <1>5
  <2>. QED BY <2>1 DEF Follow
<1>6. \A i \in 1..n : IsTask(next[i]) /\ next[i].ctx.place \in Beyond(P)
  BY DEF Follow
<1>7. \A k \in 2..Len(todo) : k \in 1..Len(todo) /\ k # 1
  BY <1>1
<1> HIDE DEF P
<1>8. ASSUME NEW i \in 1..Len(next) PROVE IsTask(next[i])
  <2>1. CASE i \in 1..n
    BY <1>6, <2>1
  <2>2. CASE i \notin 1..n
    BY <1>1, <1>5, <1>7, <2>2
  <2>. QED BY <2>1, <2>2
<1>9. ASSUME NEW i \in 1..Len(next), NEW x \in db2 PROVE ~Around(next[i].ctx.place, x)
  <2>1. x \in Place /\ (x \in DOMAIN heap \/ x \in Spot(P))
    BY DEF P
  <2>2. CASE i \in 1..n
    <3>1. next[i].ctx.place \in Beyond(P)
      BY <1>6, <2>2
    <3>2. CASE x \in DOMAIN heap
      <4>1. ~Around(P, x)
        BY <1>1, <3>2 DEF P
      <4>. QED BY <1>2, <1>3, <2>1, <3>1, <4>1, AroundWhat
    <3>3. CASE x \in Spot(P)
      BY <1>3, <3>1, <3>3
    <3>. QED BY <2>1, <3>2, <3>3
  <2>3. CASE i \notin 1..n
    <3>1. PICK k \in 2..Len(todo) : next[i] = todo[k]
      BY <1>5, <2>3
    <3>2. CASE x \in DOMAIN heap
      BY <1>1, <1>7, <3>1, <3>2
    <3>3. CASE x \in Spot(P)
      <4>1. ~Around(P, todo[k].ctx.place) /\ ~Around(todo[k].ctx.place, P)
            /\ todo[k].ctx.place \in Place
        BY <1>1, <1>7 DEF P
      <4>2. Around(P, x)
        BY <1>3, <3>3
      <4>. QED BY <1>2, <2>1, <3>1, <4>1, <4>2, AroundSame
    <3>. QED BY <2>1, <3>2, <3>3
  <2>. QED BY <2>2, <2>3
<1>10. ASSUME NEW i \in 1..Len(next), NEW j \in 1..Len(next), i # j
       PROVE  ~Around(next[i].ctx.place, next[j].ctx.place)
  <2>1. ASSUME NEW q \in Beyond(P), NEW k \in 2..Len(todo)
        PROVE  ~Around(q, todo[k].ctx.place) /\ ~Around(todo[k].ctx.place, q)
    <3>1. ~Around(P, todo[k].ctx.place) /\ ~Around(todo[k].ctx.place, P)
          /\ todo[k].ctx.place \in Place
      BY <1>1, <1>7 DEF P
    <3>2. q \in Place /\ Around(P, q)
      BY <1>3
    <3>. QED BY <1>2, <3>1, <3>2, AroundWhat, AroundSame
  <2>2. CASE i \in 1..n /\ j \in 1..n
    <3>1. next[i].ctx.place # next[j].ctx.place
      BY <1>10, <2>2 DEF Follow
    <3>. QED BY <1>2, <1>6, <2>2, <3>1, BeyondSame
  <2>3. CASE i \in 1..n /\ j \notin 1..n
    BY <1>5, <1>6, <2>1, <2>3
  <2>4. CASE i \notin 1..n /\ j \in 1..n
    BY <1>5, <1>6, <2>1, <2>4
  <2>5. CASE i \notin 1..n /\ j \notin 1..n
    <3>1. PICK k \in 2..Len(todo) : i = n + (k - 1) /\ next[i] = todo[k]
      BY <1>5, <2>5
    <3>2. PICK l \in 2..Len(todo) : j = n + (l - 1) /\ next[j] = todo[l]
      BY <1>5, <2>5
    <3>3. k # l
      BY <1>10, <3>1, <3>2
    <3>. QED BY <1>1, <1>7, <3>1, <3>2, <3>3
  <2>. QED BY <2>2, <2>3, <2>4, <2>5
<1>. QED BY <1>8, <1>9, <1>10

-----------------------------------------------------------------------------
\* A SELECT leaves the list in order.
LEMMA SelectInv ==
    ASSUME ReadInv, Select
    PROVE  ReadInv'
<1> DEFINE task == Head(todo)
           P == todo[1].ctx.place
           Many1(read) == [i \in DOMAIN read.pending |->
                             ManyTask(read.ctx, read.pending[i], read.ctx.count)]
<1>1. /\ ~Idle /\ todo # <<>> /\ 1 \in 1..Len(todo) /\ task = todo[1]
      /\ IsTask(task) /\ P \in Place
  <2>1. ~Idle /\ todo # <<>> /\ 1 \in 1..Len(todo) /\ task = todo[1]
    BY DEF ReadInv, TodoOK, Select, Idle
  <2>2. IsTask(todo[1])
    BY <2>1 DEF ReadInv, TodoOK
  <2>. QED BY <2>1, <2>2 DEF IsTask, ReadContext
<1>2. PICK read \in Outcomes(task) :
         /\ heap' = read.heap
         /\ todo' = IF Failed(read) THEN <<>> ELSE Many1(read) \o Tail(todo)
         /\ result' = IF Failed(read) THEN read.err ELSE IF todo' = <<>> THEN "done" ELSE "none"
  BY DEF Select
<1>3. Gathered(Start(task), read) /\ Start(task).ctx.place = P /\ Start(task).heap = heap
  BY <1>1, OutcomeGathers DEF ReadInv, Start
<1>4. SlotOf(task) \in Slot
  BY <1>1 DEF SlotOf, Slot, IsTask, ReadContext
<1>5. CacheInv'
  BY <1>4, ExecuteInv DEF ReadInv, Select
<1>6. RowsAreRead'
  <2>1. read.err # "not completely read"
    BY <1>3 DEF Gathered, Reader
  <2>. QED BY <1>2, <2>1 DEF RowsAreRead
<1>7. /\ DOMAIN heap' \subseteq Place
      /\ \A x \in DOMAIN heap' : x \in DOMAIN heap \/ x \in Spot(P)
  <2>1. \A x \in DOMAIN read.heap : x \in DOMAIN heap \/ x \in Spot(P)
    <3>1. Wrote(P, Start(task), read)
      BY <1>3 DEF Gathered
    <3>. QED BY <1>3, <3>1 DEF Wrote
  <2>. QED BY <1>2, <2>1 DEF ReadInv, HeapOK, Spot
<1>8. TodoOK' /\ Apart'
  <2>1. CASE Failed(read)
    <3>1. todo' = <<>> /\ <<>> \in Seq({})
      BY <1>2, <2>1
    <3>2. todo' \in Seq({}) /\ Len(todo') = 0
      BY <3>1
    <3>. QED BY <3>2 DEF TodoOK, Apart
  <2>2. CASE ~Failed(read)
    <3>1. todo' = Many1(read) \o Tail(todo)
      BY <1>2, <2>2
    <3>2. Follow(P, todo', Len(read.pending))
      BY <1>1, <1>3, <2>2, <3>1, ListFollows DEF ReadInv
    <3> HIDE DEF Many1, task
    <3>3. /\ \A i \in 1..Len(todo') : IsTask(todo'[i])
          /\ \A i \in 1..Len(todo') : \A x \in DOMAIN heap' : ~Around(todo'[i].ctx.place, x)
          /\ \A i, j \in 1..Len(todo') :
                i # j => ~Around(todo'[i].ctx.place, todo'[j].ctx.place)
      BY <1>1, <1>7, <3>2, FollowsApart
    <3>4. \E X : todo' \in Seq(X)
      BY <3>2 DEF Follow
    <3>. QED BY <3>3, <3>4 DEF TodoOK, Apart, IsTask, Around
  <2>. QED BY <2>1, <2>2
<1>. QED BY <1>5, <1>6, <1>7, <1>8 DEF ReadInv, HeapOK

-----------------------------------------------------------------------------
(* The call.                                                               *)

\* Nothing is read, and nothing is to be read, at first.
LEMMA InitReadInv == Init => ReadInv
<1>1. SUFFICES ASSUME Init PROVE ReadInv
  OBVIOUS
<1>2. CacheInv
  BY <1>1, CacheInitInv DEF Init
<1>3. todo = <<>> /\ todo \in Seq({}) /\ Len(todo) = 0
  BY <1>1 DEF Init
<1>4. HeapOK
  BY <1>1 DEF Init, HeapOK, NoHeap
<1>5. TodoOK /\ Apart /\ RowsAreRead
  BY <1>1, <1>3 DEF TodoOK, Apart, RowsAreRead, Init
<1>. QED BY <1>2, <1>4, <1>5 DEF ReadInv

\* Between the calls only the cache and the filter change.
LEMMA IdleInv ==
    ASSUME ReadInv, CacheInv', todo' = todo, todo = <<>>, heap' = NoHeap, result' = "none"
    PROVE  ReadInv'
<1>1. todo' \in Seq({}) /\ Len(todo') = 0
  OBVIOUS
<1>2. TodoOK' /\ HeapOK' /\ Apart' /\ RowsAreRead'
  BY <1>1 DEF TodoOK, HeapOK, Apart, RowsAreRead, NoHeap
<1>. QED BY <1>2 DEF ReadInv

\* Every step preserves the invariant.
LEMMA NextReadInv == ReadInv /\ [Next]_readVars => ReadInv'
<1>1. SUFFICES ASSUME ReadInv, [Next]_readVars PROVE ReadInv'
  OBVIOUS
<1>2. ASSUME NEW o \in Obj, NEW t \in Table, ReadObject(o, t) PROVE ReadInv'
  <2> DEFINE dest == [kind |-> "value", table |-> t, moves |-> FALSE]
             mods == [NoModifiers EXCEPT !.where = {KeyClause(t, world.key[o][t])}]
  <2>1. BeginRead(dest, mods)
    BY <1>2 DEF ReadObject
  <2>2. /\ dest.kind = "value" /\ dest.table = t /\ dest.moves = FALSE
        /\ mods.limit = -1 /\ mods.offset = -1
    BY DEF NoModifiers
  <2> HIDE DEF dest, mods
  <2>3. mods.limit \in Int /\ mods.offset \in Int
    BY <2>2
  <2>4. dest.moves \in BOOLEAN /\ dest.kind \in {"value", "optional", "pointer", "values", "pointers"}
        /\ dest.table \in Table
    BY <2>2
  <2>. QED BY <1>1, <2>1, <2>3, <2>4, BeginInv
<1>3. ASSUME NEW r \in Reads, ReadInto(r.dest, r.mods) PROVE ReadInv'
  BY <1>1, <1>3, EngineAssumption, BeginInv DEF ReadInto
<1>4. ASSUME NEW t \in Table, NEW owner \in ForeignKeyFields(t) \cup {NoField},
             UpdateUnderFilter(t, owner)
      PROVE  ReadInv'
  <2>1. UpdateSlot(t, owner) \in Slot
    BY DEF Slot
  <2>2. CacheInv'
    BY <1>1, <1>4, <2>1, ExecuteInv DEF UpdateUnderFilter, ReadInv
  <2>. QED BY <1>1, <1>4, <2>2, IdleInv DEF UpdateUnderFilter, Idle
<1>5. ASSUME NEW s \in Setting, ChangeFilter(s) PROVE ReadInv'
  <2>1. CacheInv'
    BY <1>1, <1>5, SetFilterInv DEF ChangeFilter, ReadInv
  <2>. QED BY <1>1, <1>5, <2>1, IdleInv DEF ChangeFilter, Idle
<1>6. CASE Select
  BY <1>1, <1>6, SelectInv
<1>7. CASE UNCHANGED readVars
  BY <1>1, <1>7 DEF readVars, engineVars, cacheVars, ReadInv, CacheInv, CacheTypeOK, EntriesFit,
       StatementIsCurrent, TodoOK, HeapOK, Apart, RowsAreRead
<1>. QED BY <1>1, <1>2, <1>3, <1>4, <1>5, <1>6, <1>7 DEF Next

\* Whatever is read, in whatever order: the tasks of a call are in places of their
\* own where nothing was read yet.
THEOREM ReadInvariant == Spec => []ReadInv
BY InitReadInv, NextReadInv, PTL DEF Spec

\* However the tables hang together, whatever the filter leaves out and whatever is
\* stored, no read ends with "result was not completely read!" (table.cpp:196).
THEOREM RowsRead == Spec => []RowsAreRead
<1>1. ReadInv => RowsAreRead
  BY DEF ReadInv
<1>. QED BY <1>1, ReadInvariant, PTL

\* What one SELECT of a call has read, the later ones leave as it is: the contexts
\* foreign_read() makes for the containers (table.cpp:154-176) are never where
\* something was read already, for every schema and every set of objects.
THEOREM ReadsAdd == Spec => ReadsOnlyAdd
<1>1. ReadInv /\ [Next]_readVars
        => [~Idle => \A p \in DOMAIN heap : p \in DOMAIN heap' /\ heap'[p] = heap[p]]_readVars
  <2>1. SUFFICES ASSUME ReadInv, Next, ~Idle
                 PROVE  \A p \in DOMAIN heap : p \in DOMAIN heap' /\ heap'[p] = heap[p]
    OBVIOUS
  <2>2. Select
    BY <2>1 DEF Next, ReadObject, ReadInto, BeginRead, UpdateUnderFilter, ChangeFilter
  <2>. QED BY <2>1, <2>2, SelectAdds
<1>. QED BY <1>1, ReadInvariant, PTL DEF Spec, ReadsOnlyAdd

\* The reads, the updates and the changes of the filter of a client are steps of
\* the statement caches.
THEOREM ReadUsesCache == Spec => CacheSpec
<1>1. Init => CacheInit
  BY DEF Init
<1>2. ReadInv /\ [Next]_readVars => [CacheNext]_cacheVars
  <2>1. SUFFICES ASSUME ReadInv, [Next]_readVars PROVE [CacheNext]_cacheVars
    OBVIOUS
  <2>2. ASSUME NEW dest, NEW mods, BeginRead(dest, mods) PROVE UNCHANGED cacheVars
    BY <2>2 DEF BeginRead
  <2>3. CASE \E o \in Obj, t \in Table : ReadObject(o, t)
    BY <2>2, <2>3 DEF ReadObject
  <2>4. CASE \E r \in Reads : ReadInto(r.dest, r.mods)
    BY <2>2, <2>4 DEF ReadInto
  <2>5. CASE \E t \in Table : \E owner \in ForeignKeyFields(t) \cup {NoField} :
                UpdateUnderFilter(t, owner)
    <3>1. PICK t \in Table : \E owner \in ForeignKeyFields(t) \cup {NoField} :
             UpdateUnderFilter(t, owner)
      BY <2>5
    <3>2. PICK owner \in ForeignKeyFields(t) \cup {NoField} : Execute(UpdateSlot(t, owner))
      BY <3>1 DEF UpdateUnderFilter
    <3>3. UpdateSlot(t, owner) \in Slot
      BY DEF Slot
    <3>. QED BY <3>2, <3>3 DEF CacheNext
  <2>6. CASE \E s \in Setting : ChangeFilter(s)
    BY <2>6 DEF ChangeFilter, CacheNext
  <2>7. CASE Select
    <3>1. todo # <<>> /\ 1 \in 1..Len(todo) /\ Head(todo) = todo[1]
      BY <2>1, <2>7 DEF ReadInv, TodoOK, Select, Idle
    <3>2. IsTask(Head(todo))
      BY <2>1, <3>1 DEF ReadInv, TodoOK
    <3>3. SlotOf(Head(todo)) \in Slot
      BY <3>2 DEF SlotOf, Slot, IsTask, ReadContext
    <3>. QED BY <2>7, <3>3 DEF Select, CacheNext
  <2>8. CASE UNCHANGED readVars
    BY <2>8 DEF readVars
  <2>. QED BY <2>1, <2>3, <2>4, <2>5, <2>6, <2>7, <2>8 DEF Next
<1>. QED BY <1>1, <1>2, ReadInvariant, PTL DEF Spec, CacheSpec

\* So a SELECT or an UPDATE of a client leaves out what its filter excludes now
\* (table.cpp:1455-1483), however its calls and its filters follow one another.
THEOREM ReadIsCurrent == Spec => []StatementIsCurrent
BY ReadUsesCache, CacheIsCurrent, PTL
=============================================================================
