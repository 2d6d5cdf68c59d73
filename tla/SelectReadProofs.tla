-------------------------- MODULE SelectReadProofs --------------------------
(***************************************************************************)
(* For every schema, every filter and every way to read: the SELECT that   *)
(* select_query_builder_t writes has a column for each cell that           *)
(* data_extractor_t takes, in the order it takes them in; and a value that *)
(* is stored and selected is what was stored.                              *)
(***************************************************************************)
EXTENDS SelectRead, SchemaProofs, SequenceTheorems

-----------------------------------------------------------------------------
(* Conversions.                                                            *)

\* The values of a type; those of the wide types, strings, names and times may
\* be any.
IsValueOf(v, type) ==
    /\ v \notin {Null, Garbled}
    /\ type = "bool" => v \in BOOLEAN
    /\ type = "uint8" => v \in 0..255
    /\ type = "int8" => v \in -128..127

-----------------------------------------------------------------------------
\* A cast to eight bits does not change a number of eight bits.
LEMMA CastIsIdentity ==
    /\ \A n \in 0..255 : n % 256 = n
    /\ \A n \in -128..127 : ((n + 128) % 256) - 128 = n
OBVIOUS

\* type_properties.h:29-103: from_string<int> and the cast undo to_string.
LEMMA NarrowRoundTrip ==
    ASSUME NEW type \in Narrow, NEW v, IsValueOf(v, type)
    PROVE  NarrowValue(type, NarrowNumber(type, v)) = v
<1>1. CASE type = "bool"
  BY <1>1 DEF NarrowValue, NarrowNumber, IsValueOf
<1>2. CASE type = "uint8"
  BY <1>2, CastIsIdentity DEF NarrowValue, NarrowNumber, IsValueOf
<1>3. CASE type = "int8"
  BY <1>3, CastIsIdentity DEF NarrowValue, NarrowNumber, IsValueOf
<1>4. QED BY <1>1, <1>2, <1>3 DEF Narrow

\* field.cpp:66-140: the functions of the attributes are undone in the opposite
\* order.
LEMMA AttributesUndone ==
    ASSUME NEW f
    PROVE  Undoes(AttributeInverses(f), AttributeFunctions(f))
<1>1. CASE "hex" \in AttributesOf[f] /\ "compress" \in AttributesOf[f]
  <2> DEFINE from == AttributeInverses(f)
             to == AttributeFunctions(f)
  <2>1. from = <<"UNCOMPRESS">> \o <<"UNHEX">> /\ to = <<"HEX">> \o <<"COMPRESS">>
    BY <1>1 DEF AttributeInverses, AttributeFunctions
  <2>2. Len(from) = 2 /\ from[1] = "UNCOMPRESS" /\ from[2] = "UNHEX"
    BY <2>1
  <2>3. Len(to) = 2 /\ to[1] = "HEX" /\ to[2] = "COMPRESS"
    BY <2>1
  <2>4. QED BY <2>2, <2>3 DEF Undoes, InverseOf
<1>2. CASE "hex" \in AttributesOf[f] /\ "compress" \notin AttributesOf[f]
  <2>1. AttributeInverses(f) = <<"UNHEX">> /\ AttributeFunctions(f) = <<"HEX">>
    BY <1>2 DEF AttributeInverses, AttributeFunctions
  <2>2. QED BY <2>1 DEF Undoes, InverseOf
<1>3. CASE "hex" \notin AttributesOf[f] /\ "compress" \in AttributesOf[f]
  <2>1. AttributeInverses(f) = <<"UNCOMPRESS">> /\ AttributeFunctions(f) = <<"COMPRESS">>
    BY <1>3 DEF AttributeInverses, AttributeFunctions
  <2>2. QED BY <2>1 DEF Undoes, InverseOf
<1>4. CASE "hex" \notin AttributesOf[f] /\ "compress" \notin AttributesOf[f]
  <2>1. AttributeInverses(f) = <<>> /\ AttributeFunctions(f) = <<>>
    BY <1>4 DEF AttributeInverses, AttributeFunctions
  <2>2. QED BY <2>1 DEF Undoes, InverseOf
<1>5. QED BY <1>1, <1>2, <1>3, <1>4

\* value_field_t::update() (field.inl:30-47) adds the functions of the type so
\* that those of a convertible field are undone as well.
LEMMA FunctionsUndone ==
    ASSUME NEW f \in Field, Convertible(f)
    PROVE  Undoes(ConvertFrom(f), ConvertTo(f))
<1>1. TypeOf[f] \in Type \ {"uuid", "flags"}
  BY ConversionAssumption DEF Convertible
<1>2. CASE TypeOf[f] = "timestamp"
  <2>1. FieldProperties(f) = TimestampProperties
    BY <1>2 DEF FieldProperties, PropertiesOf, Convertible, Narrow, Wide
  <2>2. AttributeInverses(f) = <<>> /\ AttributeFunctions(f) = <<>>
    BY <1>2 DEF Convertible, AttributeInverses, AttributeFunctions
  <2>3. ConvertFrom(f) = <<"UNIX_TIMESTAMP">> /\ ConvertTo(f) = <<"FROM_UNIXTIME">>
    BY <2>1, <2>2 DEF ConvertFrom, ConvertTo, TimestampProperties
  <2>4. QED BY <2>3 DEF Undoes, InverseOf
<1>3. CASE TypeOf[f] # "timestamp"
  <2>1. PropertiesOf(TypeOf[f]).to = <<>> /\ PropertiesOf(TypeOf[f]).from = <<>>
    BY <1>1, <1>3 DEF PropertiesOf, Type, Narrow, Wide, Plain, NarrowProperties,
                      WideProperties, StringProperties, EnumProperties
  <2>2. FieldProperties(f).to = <<>> /\ FieldProperties(f).from = <<>>
    BY <2>1 DEF FieldProperties
  <2>3. ConvertFrom(f) = AttributeInverses(f) /\ ConvertTo(f) = AttributeFunctions(f)
    BY <2>2 DEF ConvertFrom, ConvertTo, AttributeInverses, AttributeFunctions
  <2>4. QED BY <2>3, AttributesUndone
<1>4. QED BY <1>2, <1>3

\* What convert_from writes, convert_to reads.
LEMMA FormsAgree ==
    ASSUME NEW f \in Field, Convertible(f)
    PROVE  FieldProperties(f).writes = FieldProperties(f).reads
<1>1. TypeOf[f] \in Type \ {"uuid", "flags"}
  BY ConversionAssumption DEF Convertible
<1>2. PropertiesOf(TypeOf[f]).writes = PropertiesOf(TypeOf[f]).reads
  BY <1>1 DEF PropertiesOf, Type, Narrow, Wide, Plain, NarrowProperties,
              WideProperties, TimestampProperties, StringProperties, EnumProperties
<1>3. QED BY <1>2 DEF FieldProperties

-----------------------------------------------------------------------------
\* NULL and what is garbled are no cells and no texts.
Distinct(f, v) == {Null, Garbled} \cap {Written(f, v), Written(f, v).text} = {}

\* A member of a convertible field that is stored (value_field_t::get), selected
\* and set again is the same, NULL included.
THEOREM ValueSurvives ==
    ASSUME NEW f \in Field, Convertible(f),
           NEW v, v = Null \/ IsValueOf(v, TypeOf[f]), Distinct(f, v)
    PROVE  Loaded(f, Selected(f, Stored(f, v))) = v
<1>1. CASE v = Null
  BY <1>1 DEF Stored, Selected, Loaded
<1>2. CASE v # Null
  <2> DEFINE cell == Written(f, v)
  <2>1. Stored(f, v) = cell
    BY <1>2 DEF Stored, Convertible
  <2>2. cell.by = ConvertTo(f) /\ cell.text.form = FieldProperties(f).writes
    BY DEF Written
  <2>3. Selected(f, cell) = cell.text
    BY <2>2, FunctionsUndone DEF Selected, Distinct
  <2>4. Loaded(f, cell.text) = IF TypeOf[f] \in Narrow
                               THEN NarrowValue(TypeOf[f], cell.text.of) ELSE cell.text.of
    BY <2>2, FormsAgree DEF Loaded, Distinct
  <2>5. CASE TypeOf[f] \in Narrow
    BY <1>2, <2>1, <2>3, <2>4, <2>5, NarrowRoundTrip DEF Written
  <2>6. CASE TypeOf[f] \notin Narrow
    BY <2>1, <2>3, <2>4, <2>6 DEF Written
  <2>7. QED BY <2>5, <2>6
<1>3. QED BY <1>1, <1>2

-----------------------------------------------------------------------------
(* Sequences.                                                              *)

\* What holds at 0 and from each number up to N for the next holds up to N.
LEMMA UpTo ==
    ASSUME NEW N \in Nat, NEW S, 0 \in S,
           \A n \in 0..N : n \in S /\ n + 1 <= N => n + 1 \in S
    PROVE  N \in S
<1> DEFINE R == {n \in Nat : n <= N => n \in S}
<1>1. 0 \in R
  OBVIOUS
<1>2. ASSUME NEW n \in R PROVE n + 1 \in R
  OBVIOUS
<1>3. R \in SUBSET Nat
  OBVIOUS
<1> HIDE DEF R
<1>4. R = Nat
  BY <1>1, <1>2, <1>3, NatSetInduction
<1>. QED BY <1>4 DEF R

\* A sequence that begins with a and goes on with b.
LEMMA ConcatIs ==
    ASSUME NEW X, NEW a \in Seq(X), NEW b \in Seq(X), NEW c \in Seq(X),
           Len(c) = Len(a) + Len(b), \A i \in 1..Len(a) : c[i] = a[i],
           \A i \in 1..Len(b) : c[Len(a) + i] = b[i]
    PROVE  c = a \o b
<1>1. /\ a \o b \in Seq(X) /\ Len(a \o b) = Len(a) + Len(b)
      /\ \A i \in 1..Len(a) + Len(b) :
            (a \o b)[i] = IF i <= Len(a) THEN a[i] ELSE b[i - Len(a)]
  BY ConcatProperties
<1>2. Len(a) \in Nat /\ Len(b) \in Nat
  OBVIOUS
<1>3. ASSUME NEW i \in 1..Len(c) PROVE c[i] = (a \o b)[i]
  <2>1. CASE i <= Len(a)
    BY <1>1, <1>2, <2>1
  <2>2. CASE i > Len(a)
    <3>1. i - Len(a) \in 1..Len(b) /\ Len(a) + (i - Len(a)) = i
      BY <1>2, <2>2
    <3>. QED BY <1>1, <1>2, <2>2, <3>1
  <2>. QED BY <1>2, <2>1, <2>2
<1>. QED BY <1>1, <1>3, SeqEqual

\* The elements of two sequences are those of their concatenation.
LEMMA ConcatElements ==
    ASSUME NEW X, NEW a \in Seq(X), NEW b \in Seq(X)
    PROVE  /\ a \o b \in Seq(X) /\ Len(a \o b) = Len(a) + Len(b)
           /\ \A i \in 1..Len(a) : i \in 1..Len(a \o b) /\ (a \o b)[i] = a[i]
           /\ \A i \in 1..Len(b) : Len(a) + i \in 1..Len(a \o b) /\ (a \o b)[Len(a) + i] = b[i]
OBVIOUS

\* FlattenSeq appends one sequence after the other.
LEMMA FlattenRounds ==
    ASSUME NEW X, NEW ss \in Seq(Seq(X))
    PROVE  \E g : /\ FlattenSeq(ss) = g[Len(ss)] /\ g[0] = <<>>
                  /\ \A n \in 0..Len(ss) : g[n] \in Seq(X)
                  /\ \A n \in 1..Len(ss) : g[n] = g[n - 1] \o ss[n]
<1> DEFINE N == Len(ss)
           T == Seq(X)
           D == [n \in 1..N |-> [p \in T |-> p \o ss[n]]]
           Is(f) == f = [i \in 1..N |-> IF i = 1 THEN ss[i] ELSE f[i - 1] \o ss[i]]
<1>1. N \in Nat /\ <<>> \in T /\ D \in [1..N -> [T -> T]]
  OBVIOUS
<1>2. \A n \in 1..N : ss[n] \in T
  OBVIOUS
<1>3. PICK f \in [0..N -> T] : f[0] = <<>> /\ \A n \in 1..N : f[n] = D[n][f[n - 1]]
  <2> HIDE DEF D, T, N
  <2>1. \E f \in [0..N -> T] : Unrolls(f, <<>>, N, D)
    BY <1>1, RecursiveFunction
  <2>. QED BY <2>1 DEF Unrolls
<1>4. \A n \in 1..N : f[n] = f[n - 1] \o ss[n]
  <2>1. ASSUME NEW n \in 1..N PROVE f[n] = f[n - 1] \o ss[n]
    <3>1. n - 1 \in 0..N
      BY <1>1
    <3>2. f[n - 1] \in T
      BY <1>3, <3>1
    <3>3. D[n][f[n - 1]] = f[n - 1] \o ss[n]
      BY <3>2
    <3>. QED BY <1>3, <3>3
  <2>. QED BY <2>1
<1>5. CASE N = 0
  <2>1. FlattenSeq(ss) = <<>>
    BY <1>5 DEF FlattenSeq
  <2>2. f[0] \in Seq(X)
    BY <1>3
  <2>. QED BY <1>3, <1>4, <1>5, <2>1
<1>6. CASE N # 0
  <2>0. 1 \in 1..N /\ f[1] = ss[1]
    <3>1. 1 \in 1..N /\ 1 - 1 = 0
      BY <1>1, <1>6
    <3>2. f[1] = <<>> \o ss[1]
      BY <1>3, <1>4, <3>1
    <3>. QED BY <1>2, <3>1, <3>2, ConcatEmptySeq
  <2> HIDE DEF N, D
  <2> DEFINE h == [i \in 1..N |-> f[i]]
  <2>1. Is(h)
    <3>1. ASSUME NEW i \in 1..N
          PROVE  f[i] = IF i = 1 THEN ss[i] ELSE h[i - 1] \o ss[i]
      <4>1. CASE i = 1
        BY <2>0, <4>1
      <4>2. CASE i # 1
        <5>1. i - 1 \in 1..N
          BY <1>1, <4>2
        <5>. QED BY <1>4, <4>2, <5>1
      <4>. QED BY <4>1, <4>2
    <3>. QED BY <3>1
  <2>2. PICK e : Is(e) /\ FlattenSeq(ss) = e[N]
    <3>1. Is(CHOOSE e : Is(e))
      BY <2>1
    <3>. QED BY <1>6, <3>1 DEF FlattenSeq, N
  <2> DEFINE S == {n \in 0..N : n # 0 => e[n] = f[n]}
  <2>3. 0 \in S
    BY <1>1
  <2>4. ASSUME NEW n \in 0..N, n \in S, n + 1 <= N PROVE n + 1 \in S
    <3>1. n + 1 \in 1..N /\ (n + 1) - 1 = n
      BY <1>1, <2>4
    <3>2. CASE n = 0
      BY <2>0, <2>2, <3>1, <3>2
    <3>3. CASE n # 0
      <4>1. n + 1 # 1
        BY <3>3
      <4>2. e[n + 1] = e[n] \o ss[n + 1]
        BY <2>2, <3>1, <4>1
      <4>3. f[n + 1] = f[n] \o ss[n + 1]
        BY <1>4, <3>1
      <4>4. e[n] = f[n]
        BY <2>4, <3>3
      <4>5. n + 1 \in 0..N
        BY <3>1
      <4>. QED BY <4>2, <4>3, <4>4, <4>5
    <3>. QED BY <3>2, <3>3
  <2>6. e[N] = f[N]
    <3>2. N \in 0..N
      BY <1>1
    <3>1. N \in S
      <4> HIDE DEF S
      <4>. QED BY <1>1, <2>3, <2>4, <3>2, UpTo
    <3>. QED BY <1>6, <3>1
  <2>. QED BY <1>3, <1>4, <2>2, <2>6 DEF N
<1>. QED BY <1>5, <1>6

\* g appends the sequences of ss, one round after the other.
Flattens(g, X, ss) ==
    /\ FlattenSeq(ss) = g[Len(ss)] /\ g[0] = <<>>
    /\ \A n \in 0..Len(ss) : g[n] \in Seq(X)
    /\ \A n \in 1..Len(ss) : g[n] = g[n - 1] \o ss[n]

\* FlattenSeq() is the last of a series of sequences, each with one more sequence
\* appended.
LEMMA FlattenFlattens ==
    ASSUME NEW X, NEW ss \in Seq(Seq(X))
    PROVE  \E g : Flattens(g, X, ss)
BY FlattenRounds DEF Flattens

\* Sequences of elements of X flatten to a sequence of elements of X.
LEMMA FlattenType ==
    ASSUME NEW X, NEW ss \in Seq(Seq(X))
    PROVE  FlattenSeq(ss) \in Seq(X)
<1>1. Len(ss) \in 0..Len(ss)
  OBVIOUS
<1>. QED BY <1>1, FlattenRounds

\* A single sequence flattens to itself.
LEMMA FlattenOne ==
    ASSUME NEW X, NEW s \in Seq(X)
    PROVE  FlattenSeq(<<s>>) = s
<1>1. Len(<<s>>) = 1 /\ <<s>>[1] = s
  OBVIOUS
<1> DEFINE Is(f) == f = [i \in 1..1 |-> IF i = 1 THEN <<s>>[i] ELSE f[i - 1] \o <<s>>[i]]
<1>2. Is([i \in 1..1 |-> s])
  BY <1>1
<1>3. Is(CHOOSE f : Is(f))
  BY <1>2
<1>. QED BY <1>1, <1>3 DEF FlattenSeq

\* The flattening of two lists one after the other is that of the first with that of
\* the second behind it.
LEMMA FlattenConcat ==
    ASSUME NEW X, NEW a \in Seq(Seq(X)), NEW b \in Seq(Seq(X))
    PROVE  FlattenSeq(a \o b) = FlattenSeq(a) \o FlattenSeq(b)
<1> DEFINE c == a \o b
<1>1. /\ c \in Seq(Seq(X)) /\ Len(c) = Len(a) + Len(b)
      /\ Len(a) \in Nat /\ Len(b) \in Nat
      /\ \A n \in 1..Len(a) : c[n] = a[n]
      /\ \A n \in 1..Len(b) : c[Len(a) + n] = b[n]
      /\ \A n \in 1..Len(b) : b[n] \in Seq(X)
  OBVIOUS
<1>2. PICK ga : /\ FlattenSeq(a) = ga[Len(a)] /\ ga[0] = <<>>
                /\ \A n \in 0..Len(a) : ga[n] \in Seq(X)
                /\ \A n \in 1..Len(a) : ga[n] = ga[n - 1] \o a[n]
  BY FlattenRounds
<1>3. PICK gb : /\ FlattenSeq(b) = gb[Len(b)] /\ gb[0] = <<>>
                /\ \A n \in 0..Len(b) : gb[n] \in Seq(X)
                /\ \A n \in 1..Len(b) : gb[n] = gb[n - 1] \o b[n]
  BY FlattenRounds
<1> HIDE DEF c
<1>4. PICK gc : /\ FlattenSeq(c) = gc[Len(c)] /\ gc[0] = <<>>
                /\ \A n \in 0..Len(c) : gc[n] \in Seq(X)
                /\ \A n \in 1..Len(c) : gc[n] = gc[n - 1] \o c[n]
  BY <1>1, FlattenRounds
<1> DEFINE S == {n \in 0..Len(a) : gc[n] = ga[n]}
           R == {n \in 0..Len(b) : gc[Len(a) + n] = ga[Len(a)] \o gb[n]}
<1>5. Len(a) \in S
  <2>1. 0 \in S
    BY <1>1, <1>2, <1>4
  <2>2. ASSUME NEW n \in 0..Len(a), n \in S, n + 1 <= Len(a) PROVE n + 1 \in S
    <3>1. n + 1 \in 1..Len(a) /\ n + 1 \in 1..Len(c) /\ (n + 1) - 1 = n
      BY <1>1, <2>2
    <3>2. gc[n + 1] = gc[n] \o c[n + 1] /\ ga[n + 1] = ga[n] \o a[n + 1] /\ c[n + 1] = a[n + 1]
      BY <1>1, <1>2, <1>4, <3>1
    <3>3. gc[n] = ga[n] /\ n + 1 \in 0..Len(a)
      BY <2>2, <3>1
    <3>. QED BY <3>2, <3>3
  <2> HIDE DEF S
  <2>. QED BY <1>1, <2>1, <2>2, UpTo
<1>0. \A u, v, w \in Seq(X) : (u \o v) \o w = u \o (v \o w)
  BY ConcatAssociative
<1>6. Len(b) \in R
  <2>0. gc[Len(a)] = ga[Len(a)] /\ ga[Len(a)] \in Seq(X)
    BY <1>1, <1>2, <1>5
  <2>1. 0 \in R
    <3>1. ga[Len(a)] \o <<>> = ga[Len(a)]
      BY <2>0, ConcatEmptySeq
    <3>2. 0 \in 0..Len(b) /\ Len(a) + 0 = Len(a)
      BY <1>1
    <3>. QED BY <2>0, <3>1, <3>2, <1>3
  <2>2. ASSUME NEW n \in 0..Len(b), n \in R, n + 1 <= Len(b) PROVE n + 1 \in R
    <3>1. /\ n + 1 \in 1..Len(b) /\ Len(a) + (n + 1) \in 1..Len(c) /\ (n + 1) - 1 = n
          /\ (Len(a) + (n + 1)) - 1 = Len(a) + n
      BY <1>1, <2>2
    <3>2. gc[Len(a) + (n + 1)] = gc[Len(a) + n] \o b[n + 1]
      BY <1>1, <1>4, <3>1
    <3>3. gc[Len(a) + n] = ga[Len(a)] \o gb[n] /\ gb[n + 1] = gb[n] \o b[n + 1]
      BY <1>3, <3>1, <2>2
    <3>4. gb[n] \in Seq(X) /\ b[n + 1] \in Seq(X)
      BY <1>1, <1>3, <3>1
    <3>5. (ga[Len(a)] \o gb[n]) \o b[n + 1] = ga[Len(a)] \o (gb[n] \o b[n + 1])
      BY <1>0, <2>0, <3>4
    <3>6. n + 1 \in 0..Len(b)
      BY <3>1
    <3>. QED BY <3>2, <3>3, <3>5, <3>6
  <2> HIDE DEF R
  <2>. QED BY <1>1, <2>1, <2>2, UpTo
<1>. QED BY <1>1, <1>2, <1>3, <1>4, <1>6 DEF c

-----------------------------------------------------------------------------
\* g gathers the elements of s, a sequence of X, that are in P.
Gathers(g, X, s, P) ==
    /\ Among(s, P) = g[Len(s)] /\ g[0] = <<>>
    /\ \A n \in 0..Len(s) : g[n] \in Seq(X \cap P)
    /\ \A n \in 1..Len(s) :
          g[n] = IF s[n] \in P THEN Append(g[n - 1], s[n]) ELSE g[n - 1]

\* Among() is the last of a series of sequences, each with one more element looked
\* at.
LEMMA AmongGathers ==
    ASSUME NEW X, NEW s \in Seq(X), NEW P
    PROVE  \E g : Gathers(g, X, s, P)
BY AmongRounds DEF Gathers

\* What is in P of two sequences one after the other is what is in P of each.
LEMMA AmongConcat ==
    ASSUME NEW X, NEW a \in Seq(X), NEW b \in Seq(X), NEW P
    PROVE  Among(a \o b, P) = Among(a, P) \o Among(b, P)
<1> DEFINE c == a \o b
           Y == X \cap P
<1>1. /\ c \in Seq(X) /\ Len(c) = Len(a) + Len(b)
      /\ Len(a) \in Nat /\ Len(b) \in Nat
      /\ \A n \in 1..Len(a) : c[n] = a[n]
      /\ \A n \in 1..Len(b) : c[Len(a) + n] = b[n]
      /\ \A n \in 1..Len(b) : b[n] \in X
  OBVIOUS
<1>2. PICK ga : Gathers(ga, X, a, P)
  BY AmongGathers
<1>3. PICK gb : Gathers(gb, X, b, P)
  BY AmongGathers
<1> HIDE DEF c
<1>4. PICK gc : Gathers(gc, X, c, P)
  BY <1>1, AmongGathers
<1>0. ASSUME NEW u \in Seq(Y), NEW v \in Seq(Y), NEW x \in Y
      PROVE  Append(u \o v, x) = u \o Append(v, x)
  <2>1. Append(u \o v, x) = (u \o v) \o <<x>> /\ Append(v, x) = v \o <<x>>
    BY ConcatProperties, AppendIsConcat
  <2>2. <<x>> \in Seq(Y)
    OBVIOUS
  <2>. QED BY <2>1, <2>2, ConcatAssociative, SMTT(20)
<1>01. \A x \in X : x \in P => x \in Y
  OBVIOUS
<1> HIDE DEF Y
<1> DEFINE S == {n \in 0..Len(a) : gc[n] = ga[n]}
           R == {n \in 0..Len(b) : gc[Len(a) + n] = ga[Len(a)] \o gb[n]}
<1>5. Len(a) \in S
  <2>1. 0 \in S
    BY <1>1, <1>2, <1>4 DEF Gathers, Y
  <2>2. ASSUME NEW n \in 0..Len(a), n \in S, n + 1 <= Len(a) PROVE n + 1 \in S
    <3>1. n + 1 \in 1..Len(a) /\ n + 1 \in 1..Len(c) /\ (n + 1) - 1 = n
      BY <1>1, <2>2
    <3>2. /\ gc[n + 1] = IF c[n + 1] \in P THEN Append(gc[n], c[n + 1]) ELSE gc[n]
          /\ ga[n + 1] = IF a[n + 1] \in P THEN Append(ga[n], a[n + 1]) ELSE ga[n]
          /\ c[n + 1] = a[n + 1]
      BY <1>1, <1>2, <1>4, <3>1 DEF Gathers, Y
    <3>. QED BY <2>2, <3>1, <3>2
  <2> HIDE DEF S
  <2>. QED BY <1>1, <2>1, <2>2, UpTo
<1>6. Len(b) \in R
  <2>0. gc[Len(a)] = ga[Len(a)] /\ ga[Len(a)] \in Seq(Y)
    BY <1>1, <1>2, <1>5 DEF Gathers, Y
  <2>1. 0 \in R
    <3>1. ga[Len(a)] \o <<>> = ga[Len(a)]
      BY <2>0, ConcatEmptySeq
    <3>2. 0 \in 0..Len(b) /\ Len(a) + 0 = Len(a)
      BY <1>1
    <3>. QED BY <2>0, <3>1, <3>2, <1>3 DEF Gathers, Y
  <2>2. ASSUME NEW n \in 0..Len(b), n \in R, n + 1 <= Len(b) PROVE n + 1 \in R
    <3>1. /\ n + 1 \in 1..Len(b) /\ Len(a) + (n + 1) \in 1..Len(c) /\ (n + 1) - 1 = n
          /\ (Len(a) + (n + 1)) - 1 = Len(a) + n
      BY <1>1, <2>2
    <3>2. gc[Len(a) + (n + 1)] = IF b[n + 1] \in P THEN Append(gc[Len(a) + n], b[n + 1])
                                 ELSE gc[Len(a) + n]
      BY <1>1, <1>4, <3>1 DEF Gathers, Y
    <3>3. /\ gc[Len(a) + n] = ga[Len(a)] \o gb[n]
          /\ gb[n + 1] = IF b[n + 1] \in P THEN Append(gb[n], b[n + 1]) ELSE gb[n]
      BY <1>3, <3>1, <2>2 DEF Gathers, Y
    <3>4. gb[n] \in Seq(Y) /\ b[n + 1] \in X
      BY <1>1, <1>3, <3>1 DEF Gathers, Y
    <3>6. n + 1 \in 0..Len(b)
      BY <3>1
    <3>7. CASE b[n + 1] \in P
      <4>1. Append(ga[Len(a)] \o gb[n], b[n + 1]) = ga[Len(a)] \o Append(gb[n], b[n + 1])
        BY <1>0, <1>01, <2>0, <3>4, <3>7
      <4>. QED BY <3>2, <3>3, <3>6, <3>7, <4>1
    <3>8. CASE b[n + 1] \notin P
      BY <3>2, <3>3, <3>6, <3>8
    <3>. QED BY <3>7, <3>8
  <2> HIDE DEF R
  <2>. QED BY <1>1, <2>1, <2>2, UpTo
<1>. QED BY <1>1, <1>2, <1>3, <1>4, <1>6 DEF c, Gathers

\* A single element is kept if it is in P.
LEMMA AmongOne ==
    ASSUME NEW x, NEW P
    PROVE  Among(<<x>>, P) = IF x \in P THEN <<x>> ELSE <<>>
<1> DEFINE s == <<x>>
<1>1. s \in Seq({x}) /\ Len(s) = 1 /\ s[1] = x
  OBVIOUS
<1> HIDE DEF s
<1>2. PICK g : Gathers(g, {x}, s, P)
  BY <1>1, AmongGathers
<1>3. 1 \in 1..1 /\ 1 - 1 = 0 /\ Append(<<>>, x) = <<x>>
  OBVIOUS
<1>. QED BY <1>1, <1>2, <1>3 DEF s, Gathers

-----------------------------------------------------------------------------
(* What the builder and the extractor go through.                          *)

\* A sequence whose elements are all in P is gathered whole.
LEMMA AmongAll ==
    ASSUME NEW X, NEW s \in Seq(X), NEW P, \A n \in 1..Len(s) : s[n] \in P
    PROVE  Among(s, P) = s
<1>1. Len(s) \in Nat
  OBVIOUS
<1>2. PICK g : Gathers(g, X, s, P)
  BY AmongGathers
<1> DEFINE S == {n \in 0..Len(s) : Len(g[n]) = n /\ \A m \in 1..n : g[n][m] = s[m]}
<1>3. 0 \in S
  BY <1>1, <1>2 DEF Gathers
<1>4. ASSUME NEW n \in 0..Len(s), n \in S, n + 1 <= Len(s) PROVE n + 1 \in S
  <2>1. n + 1 \in 1..Len(s) /\ (n + 1) - 1 = n /\ n + 1 \in 0..Len(s)
    BY <1>1, <1>4
  <2>2. g[n + 1] = Append(g[n], s[n + 1])
    BY <1>2, <2>1 DEF Gathers
  <2>3. g[n] \in Seq(X \cap P) /\ s[n + 1] \in X \cap P
    BY <1>2, <2>1 DEF Gathers
  <2>4. /\ Len(g[n + 1]) = n + 1
        /\ \A m \in 1..n : g[n + 1][m] = g[n][m]
        /\ g[n + 1][n + 1] = s[n + 1]
    BY <1>4, <2>2, <2>3, AppendProperties
  <2>5. \A m \in 1..(n + 1) : m \in 1..n \/ m = n + 1
    BY <1>1
  <2>. QED BY <1>4, <2>1, <2>4, <2>5
<1>5. Len(s) \in S
  <2> HIDE DEF S
  <2>. QED BY <1>1, <1>3, <1>4, UpTo
<1>6. /\ Among(s, P) \in Seq(X \cap P) /\ Len(Among(s, P)) = Len(s)
      /\ \A m \in 1..Len(s) : Among(s, P)[m] = s[m]
  BY <1>1, <1>2, <1>5 DEF Gathers
<1>7. Among(s, P) \in Seq(X)
  BY <1>6, SeqMonotonic
<1>. QED BY <1>6, <1>7, SeqEqual

-----------------------------------------------------------------------------
\* What is kept of a vector of fields of a table is a sequence of such fields of the
\* table.
LEMMA KeptFields ==
    ASSUME NEW t \in Table, NEW excluded
    PROVE  /\ Kept(excluded, OneFields[t]) \in Seq({f \in Field : IsOne(f)})
           /\ Kept(excluded, ManyFields[t]) \in Seq({f \in Field : IsMany(f)})
           /\ Kept(excluded, DataFields[t]) \in Seq({f \in Field : IsData(f)})
<1>1. ASSUME NEW X, NEW s \in Seq(X) PROVE Kept(excluded, s) \in Seq(X)
  <2> DEFINE P == {f \in Field : ~IsExcluded(excluded, f)
                                 /\ (IsData(f) \/ ~IsExcluded(excluded, RefOf[f]))}
  <2>1. Kept(excluded, s) = Among(s, P)
    BY DEF Kept
  <2> HIDE DEF P
  <2>2. Among(s, P) \in Seq(X \cap P)
    BY AmongType
  <2>. QED BY <2>1, <2>2, SeqMonotonic
<1>. QED BY <1>1, FieldVectors

\* The derived tables of a table, in some order.
LEMMA DerivedSeqType ==
    ASSUME NEW t \in Table
    PROVE  /\ DerivedSeq(t) \in Seq(DerivedTables(t))
           /\ DerivedSeq(t) \in Seq(Table)
<1>1. IsFiniteSet(DerivedTables(t)) /\ DerivedTables(t) \subseteq Table
  BY SchemaAssumption, FS_Subset DEF DerivedTables
<1>. QED BY <1>1, SetToSeqType, SeqMonotonic DEF DerivedSeq

\* The depth of the calls of add_table() and read_table() is a number.
LEMMA LevelsType == Levels \in Nat
BY SchemaAssumption, FS_CardinalityType DEF Levels

-----------------------------------------------------------------------------
\* BuildSelect() is the last of a series of functions: the n-th is what add_table()
\* writes if it calls itself n - 1 levels deep.
LEMMA BuildRounds ==
    ASSUME NEW t, NEW excluded, NEW dyn
    PROVE  \E add :
              /\ BuildSelect(t, excluded, dyn).cols
                   = add[Levels][[table |-> t, alias |-> <<>>, add_base |-> TRUE,
                                  add_derived |-> TRUE, is_dynamic |-> dyn]].cols
              /\ \A ctx \in LocalContext : add[0][ctx] = Nothing
              /\ \A n \in 1..Levels : \A ctx \in LocalContext :
                    add[n][ctx] = AddTable(excluded, add[n - 1], ctx)
<1> DEFINE Is(f, m) == f = [n \in 0..m |-> [ctx \in LocalContext |->
                              IF n = 0 THEN Nothing ELSE AddTable(excluded, f[n - 1], ctx)]]
           S == {m \in Nat : \E f : Is(f, m)}
<1>1. 0 \in S
  <2> DEFINE f == [n \in 0..0 |-> [ctx \in LocalContext |-> Nothing]]
  <2>1. Is(f, 0)
    OBVIOUS
  <2>. QED BY <2>1
<1>2. ASSUME NEW m \in S PROVE m + 1 \in S
  <2>1. PICK f : Is(f, m)
    OBVIOUS
  <2> DEFINE g == [n \in 0..m + 1 |->
                     IF n = m + 1 THEN [ctx \in LocalContext |-> AddTable(excluded, f[m], ctx)]
                     ELSE f[n]]
  <2>2. m \in Nat
    OBVIOUS
  <2>3. ASSUME NEW n \in 0..m + 1
        PROVE  g[n] = [ctx \in LocalContext |->
                         IF n = 0 THEN Nothing ELSE AddTable(excluded, g[n - 1], ctx)]
    <3>1. CASE n = m + 1
      <4>1. n # 0 /\ n - 1 = m /\ m \in 0..m + 1 /\ m # m + 1
        BY <2>2, <3>1
      <4>2. g[n - 1] = f[m]
        BY <4>1
      <4>3. g[n] = [ctx \in LocalContext |-> AddTable(excluded, f[m], ctx)]
        BY <3>1
      <4>. QED BY <4>1, <4>2, <4>3
    <3>2. CASE n # m + 1
      <4>1. n \in 0..m
        BY <2>2, <3>2
      <4>2. g[n] = f[n]
        BY <3>2
      <4>3. f[n] = [ctx \in LocalContext |->
                      IF n = 0 THEN Nothing ELSE AddTable(excluded, f[n - 1], ctx)]
        BY <2>1, <4>1
      <4>4. n # 0 => g[n - 1] = f[n - 1]
        <5>1. n # 0 => n - 1 \in 0..m + 1 /\ n - 1 # m + 1
          BY <2>2, <4>1
        <5>. QED BY <5>1
      <4>. QED BY <4>2, <4>3, <4>4
    <3>. QED BY <3>1, <3>2
  <2>4. Is(g, m + 1)
    <3> HIDE DEF g
    <3>1. g = [n \in 0..m + 1 |-> g[n]]
      BY DEF g
    <3>. QED BY <2>3, <3>1
  <2> HIDE DEF g, Is
  <2>. QED BY <2>2, <2>4
<1>3. S = Nat
  <2> HIDE DEF S
  <2>1. S \in SUBSET Nat
    BY DEF S
  <2>. QED BY <1>1, <1>2, <2>1, NatSetInduction
<1>4. \E f : Is(f, Levels)
  <2> HIDE DEF Is
  <2>. QED BY <1>3, LevelsType
<1> DEFINE add == CHOOSE f : Is(f, Levels)
<1>5. Is(add, Levels)
  BY <1>4
<1>6. BuildSelect(t, excluded, dyn).cols
        = add[Levels][[table |-> t, alias |-> <<>>, add_base |-> TRUE,
                       add_derived |-> TRUE, is_dynamic |-> dyn]].cols
  BY DEF BuildSelect
<1> HIDE DEF add
<1>7. \A ctx \in LocalContext : add[0][ctx] = Nothing
  BY <1>5, LevelsType
<1>8. \A n \in 1..Levels : \A ctx \in LocalContext :
         add[n][ctx] = AddTable(excluded, add[n - 1], ctx)
  BY <1>5, LevelsType
<1>. QED BY <1>6, <1>7, <1>8

\* Walk() is the last of a series of functions: the n-th is what read_table() does
\* if it calls itself n - 1 levels deep.
LEMMA WalkRounds ==
    ASSUME NEW t, NEW excluded, NEW dyn
    PROVE  \E read :
              /\ Walk(t, excluded, dyn)
                   = read[Levels][[table |-> t, read_base |-> TRUE, read_derived |-> TRUE,
                                  is_dynamic |-> dyn]]
              /\ \A v \in Visit : read[0][v] = <<>>
              /\ \A n \in 1..Levels : \A v \in Visit :
                    read[n][v] = ReadTable(excluded, read[n - 1], v)
<1> DEFINE Is(f, m) == f = [n \in 0..m |-> [v \in Visit |->
                              IF n = 0 THEN <<>> ELSE ReadTable(excluded, f[n - 1], v)]]
           S == {m \in Nat : \E f : Is(f, m)}
<1>1. 0 \in S
  <2> DEFINE f == [n \in 0..0 |-> [v \in Visit |-> <<>>]]
  <2>1. Is(f, 0)
    OBVIOUS
  <2>. QED BY <2>1
<1>2. ASSUME NEW m \in S PROVE m + 1 \in S
  <2>1. PICK f : Is(f, m)
    OBVIOUS
  <2> DEFINE g == [n \in 0..m + 1 |->
                     IF n = m + 1 THEN [v \in Visit |-> ReadTable(excluded, f[m], v)]
                     ELSE f[n]]
  <2>2. m \in Nat
    OBVIOUS
  <2>3. ASSUME NEW n \in 0..m + 1
        PROVE  g[n] = [v \in Visit |->
                         IF n = 0 THEN <<>> ELSE ReadTable(excluded, g[n - 1], v)]
    <3>1. CASE n = m + 1
      <4>1. n # 0 /\ n - 1 = m /\ m \in 0..m + 1 /\ m # m + 1
        BY <2>2, <3>1
      <4>2. g[n - 1] = f[m]
        BY <4>1
      <4>3. g[n] = [v \in Visit |-> ReadTable(excluded, f[m], v)]
        BY <3>1
      <4>. QED BY <4>1, <4>2, <4>3
    <3>2. CASE n # m + 1
      <4>1. n \in 0..m
        BY <2>2, <3>2
      <4>2. g[n] = f[n]
        BY <3>2
      <4>3. f[n] = [v \in Visit |->
                      IF n = 0 THEN <<>> ELSE ReadTable(excluded, f[n - 1], v)]
        BY <2>1, <4>1
      <4>4. n # 0 => g[n - 1] = f[n - 1]
        <5>1. n # 0 => n - 1 \in 0..m + 1 /\ n - 1 # m + 1
          BY <2>2, <4>1
        <5>. QED BY <5>1
      <4>. QED BY <4>2, <4>3, <4>4
    <3>. QED BY <3>1, <3>2
  <2>4. Is(g, m + 1)
    <3> HIDE DEF g
    <3>1. g = [n \in 0..m + 1 |-> g[n]]
      BY DEF g
    <3>. QED BY <2>3, <3>1
  <2> HIDE DEF g, Is
  <2>. QED BY <2>2, <2>4
<1>3. S = Nat
  <2> HIDE DEF S
  <2>1. S \in SUBSET Nat
    BY DEF S
  <2>. QED BY <1>1, <1>2, <2>1, NatSetInduction
<1>4. \E f : Is(f, Levels)
  <2> HIDE DEF Is
  <2>. QED BY <1>3, LevelsType
<1> DEFINE read == CHOOSE f : Is(f, Levels)
<1>5. Is(read, Levels)
  BY <1>4
<1>6. Walk(t, excluded, dyn)
        = read[Levels][[table |-> t, read_base |-> TRUE, read_derived |-> TRUE,
                       is_dynamic |-> dyn]]
  BY DEF Walk
<1> HIDE DEF read
<1>7. \A v \in Visit : read[0][v] = <<>>
  BY <1>5, LevelsType
<1>8. \A n \in 1..Levels : \A v \in Visit :
         read[n][v] = ReadTable(excluded, read[n - 1], v)
  BY <1>5, LevelsType
<1>. QED BY <1>6, <1>7, <1>8

-----------------------------------------------------------------------------
(* The steps of the extractor and the columns of the builder.              *)

\* The steps of a walk, and those that take a cell of the row.
WalkStep ==
    [do : {"type", "make", "key", "data", "part", "finish", "many", "enter", "leave"},
     of : Table \cup Field]
Taking == {step \in WalkStep : step.do \in {"type", "key", "data"}}

\* The columns and joins of a query.
QueryColumn ==
    [alias : Seq(Table \cup Field), kind : {"type", "key", "data"}, of : Table \cup Field]
QueryJoin ==
    [inner : BOOLEAN, alias : Seq(Table \cup Field), table : Table,
     from : Seq(Table \cup Field), by : {"base", "derived"} \cup Field]
Query == [cols : Seq(QueryColumn), joins : Seq(QueryJoin)]

\* The step that should take a column.
TakerOf(cols) == [i \in DOMAIN cols |-> Step(cols[i].kind, cols[i].of)]

\* The steps take the columns, one by one and in their order.
Takes(steps, cols) ==
    /\ steps \in Seq(WalkStep) /\ cols \in Seq(QueryColumn)
    /\ Among(steps, Taking) = TakerOf(cols)

-----------------------------------------------------------------------------
\* There is one step for each column, with the label of the column.
LEMMA TakerType ==
    ASSUME NEW cols \in Seq(QueryColumn)
    PROVE  /\ TakerOf(cols) \in Seq(WalkStep) /\ Len(TakerOf(cols)) = Len(cols)
           /\ \A i \in 1..Len(cols) : TakerOf(cols)[i] = Step(cols[i].kind, cols[i].of)
<1>1. ASSUME NEW i \in 1..Len(cols) PROVE Step(cols[i].kind, cols[i].of) \in WalkStep
  <2>1. cols[i] \in QueryColumn
    OBVIOUS
  <2>. QED BY <2>1 DEF Step, QueryColumn, WalkStep
<1>2. DOMAIN cols = 1..Len(cols) /\ Len(cols) \in Nat
  OBVIOUS
<1>. QED BY <1>1, <1>2 DEF TakerOf

\* No steps take no columns.
LEMMA TakesNone == Takes(<<>>, <<>>)
<1>1. <<>> \in Seq(WalkStep) /\ <<>> \in Seq(QueryColumn) /\ Len(<<>>) = 0
  OBVIOUS
<1>2. Among(<<>>, Taking) = <<>>
  <2>1. PICK g : Gathers(g, WalkStep, <<>>, Taking)
    BY <1>1, AmongGathers
  <2>. QED BY <1>1, <2>1 DEF Gathers
<1>3. TakerOf(<<>>) = <<>>
  BY DEF TakerOf
<1>. QED BY <1>1, <1>2, <1>3 DEF Takes

\* If steps take columns and further steps take further columns, all steps take all
\* columns, one after the other.
LEMMA TakesConcat ==
    ASSUME NEW p, NEW c, NEW r, NEW d, Takes(p, c), Takes(r, d)
    PROVE  Takes(p \o r, c \o d)
<1>1. /\ p \in Seq(WalkStep) /\ r \in Seq(WalkStep)
      /\ c \in Seq(QueryColumn) /\ d \in Seq(QueryColumn)
  BY DEF Takes
<1>2. p \o r \in Seq(WalkStep) /\ c \o d \in Seq(QueryColumn)
  BY <1>1
<1>3. Among(p \o r, Taking) = TakerOf(c) \o TakerOf(d)
  BY <1>1, AmongConcat DEF Takes
<1>4. TakerOf(c \o d) = TakerOf(c) \o TakerOf(d)
  <2>1. TakerOf(c) \in Seq(WalkStep) /\ TakerOf(d) \in Seq(WalkStep)
        /\ TakerOf(c \o d) \in Seq(WalkStep)
    BY <1>1, <1>2, TakerType
  <2>2. /\ Len(c \o d) = Len(c) + Len(d)
        /\ \A i \in 1..Len(c) : i \in 1..Len(c \o d) /\ (c \o d)[i] = c[i]
        /\ \A i \in 1..Len(d) : Len(c) + i \in 1..Len(c \o d) /\ (c \o d)[Len(c) + i] = d[i]
    BY <1>1, ConcatElements
  <2>3. /\ Len(TakerOf(c)) = Len(c) /\ Len(TakerOf(d)) = Len(d)
        /\ Len(TakerOf(c \o d)) = Len(c \o d)
        /\ \A i \in 1..Len(c) : TakerOf(c)[i] = Step(c[i].kind, c[i].of)
        /\ \A i \in 1..Len(d) : TakerOf(d)[i] = Step(d[i].kind, d[i].of)
        /\ \A i \in 1..Len(c \o d) : TakerOf(c \o d)[i] = Step((c \o d)[i].kind, (c \o d)[i].of)
    BY <1>1, <1>2, TakerType
  <2>4. ASSUME NEW i \in 1..Len(c) PROVE TakerOf(c \o d)[i] = TakerOf(c)[i]
    BY <2>2, <2>3
  <2>5. ASSUME NEW i \in 1..Len(d) PROVE TakerOf(c \o d)[Len(c) + i] = TakerOf(d)[i]
    BY <2>2, <2>3
  <2> DEFINE x == TakerOf(c)
             y == TakerOf(d)
             z == TakerOf(c \o d)
  <2>6. /\ x \in Seq(WalkStep) /\ y \in Seq(WalkStep) /\ z \in Seq(WalkStep)
        /\ Len(z) = Len(x) + Len(y)
        /\ \A i \in 1..Len(x) : z[i] = x[i]
        /\ \A i \in 1..Len(y) : z[Len(x) + i] = y[i]
    BY <2>1, <2>2, <2>3, <2>4, <2>5
  <2>7. z = x \o y
    <3> HIDE DEF x, y, z
    <3>. QED BY <2>6, ConcatIs
  <2>. QED BY <2>7
<1>. QED BY <1>2, <1>3, <1>4 DEF Takes

\* Steps that do not look at the row take no columns.
LEMMA TakesNothing ==
    ASSUME NEW step \in WalkStep, step \notin Taking
    PROVE  Takes(<<step>>, <<>>)
<1>1. <<step>> \in Seq(WalkStep) /\ <<>> \in Seq(QueryColumn)
  OBVIOUS
<1>2. Among(<<step>>, Taking) = <<>>
  BY AmongOne
<1>3. TakerOf(<<>>) = <<>>
  BY DEF TakerOf
<1>. QED BY <1>1, <1>2, <1>3 DEF Takes

\* Steps that take a cell each take as many columns, if the labels are theirs.
LEMMA TakesEach ==
    ASSUME NEW p \in Seq(Taking), NEW c \in Seq(QueryColumn), Len(p) = Len(c),
           \A i \in 1..Len(p) : p[i] = Step(c[i].kind, c[i].of)
    PROVE  Takes(p, c)
<1>1. p \in Seq(WalkStep)
  BY DEF Taking
<1>2. Among(p, Taking) = p
  BY <1>1, AmongAll
<1>3. TakerOf(c) = p
  BY DEF TakerOf
<1>. QED BY <1>1, <1>2, <1>3 DEF Takes

\* A step that takes a cell takes the column with its label.
LEMMA TakesOne ==
    ASSUME NEW col \in QueryColumn
    PROVE  Takes(<<Step(col.kind, col.of)>>, <<col>>)
<1> DEFINE p == <<Step(col.kind, col.of)>>
           c == <<col>>
<1>1. Step(col.kind, col.of) \in Taking
  BY DEF Step, QueryColumn, Taking, WalkStep
<1>2. /\ p \in Seq(Taking) /\ c \in Seq(QueryColumn) /\ Len(p) = 1 /\ Len(c) = 1
      /\ p[1] = Step(c[1].kind, c[1].of)
  BY <1>1
<1> HIDE DEF p, c
<1>3. Takes(p, c)
  BY <1>2, TakesEach
<1>. QED BY <1>3 DEF p, c

\* If the steps of each list take the columns of a list of columns, the steps of all
\* take the columns of all.
LEMMA TakesFlatten ==
    ASSUME NEW pp \in Seq(Seq(WalkStep)), NEW cc \in Seq(Seq(QueryColumn)),
           Len(pp) = Len(cc), \A i \in 1..Len(pp) : Takes(pp[i], cc[i])
    PROVE  Takes(FlattenSeq(pp), FlattenSeq(cc))
<1>1. PICK g : Flattens(g, WalkStep, pp)
  BY FlattenFlattens
<1>2. PICK h : Flattens(h, QueryColumn, cc)
  BY FlattenFlattens
<1>3. Len(pp) \in Nat
  OBVIOUS
<1> DEFINE S == {n \in 0..Len(pp) : Takes(g[n], h[n])}
<1>4. 0 \in S
  BY <1>1, <1>2, <1>3, TakesNone DEF Flattens
<1>5. ASSUME NEW n \in 0..Len(pp), n \in S, n + 1 <= Len(pp) PROVE n + 1 \in S
  <2>1. n + 1 \in 1..Len(pp) /\ (n + 1) - 1 = n /\ n + 1 \in 0..Len(pp)
    BY <1>3, <1>5
  <2>2. g[n + 1] = g[n] \o pp[n + 1] /\ h[n + 1] = h[n] \o cc[n + 1]
    BY <1>1, <1>2, <2>1 DEF Flattens
  <2>3. Takes(g[n], h[n]) /\ Takes(pp[n + 1], cc[n + 1])
    BY <1>5, <2>1
  <2>. QED BY <2>1, <2>2, <2>3, TakesConcat
<1>6. Len(pp) \in S
  <2> HIDE DEF S
  <2>. QED BY <1>3, <1>4, <1>5, UpTo
<1>. QED BY <1>1, <1>2, <1>6 DEF Flattens

-----------------------------------------------------------------------------
\* The columns of queries.
ColumnsOf(queries) == [i \in DOMAIN queries |-> queries[i].cols]

\* The columns of some queries, query by query.
LEMMA ColumnsType ==
    ASSUME NEW qs \in Seq(Query)
    PROVE  /\ ColumnsOf(qs) \in Seq(Seq(QueryColumn)) /\ Len(ColumnsOf(qs)) = Len(qs)
           /\ \A i \in 1..Len(qs) : ColumnsOf(qs)[i] = qs[i].cols
<1>1. ASSUME NEW i \in 1..Len(qs) PROVE qs[i].cols \in Seq(QueryColumn)
  <2>1. qs[i] \in Query
    OBVIOUS
  <2>. QED BY <2>1 DEF Query
<1>2. DOMAIN qs = 1..Len(qs) /\ Len(qs) \in Nat
  OBVIOUS
<1>. QED BY <1>1, <1>2 DEF ColumnsOf

\* Several queries written one after the other are a query.
LEMMA AllType ==
    ASSUME NEW qs \in Seq(Query)
    PROVE  All(qs) \in Query
<1>1. ASSUME NEW i \in 1..Len(qs) PROVE qs[i].joins \in Seq(QueryJoin)
  <2>1. qs[i] \in Query
    OBVIOUS
  <2>. QED BY <2>1 DEF Query
<1>2. DOMAIN qs = 1..Len(qs) /\ Len(qs) \in Nat
  OBVIOUS
<1>3. [i \in DOMAIN qs |-> qs[i].joins] \in Seq(Seq(QueryJoin))
  BY <1>1, <1>2
<1>4. FlattenSeq(ColumnsOf(qs)) \in Seq(QueryColumn)
  BY ColumnsType, FlattenType
<1>5. FlattenSeq([i \in DOMAIN qs |-> qs[i].joins]) \in Seq(QueryJoin)
  BY <1>3, FlattenType
<1>. QED BY <1>4, <1>5 DEF All, Query, ColumnsOf

\* Two lists of queries have the columns of the first and then those of the second.
LEMMA AllConcat ==
    ASSUME NEW qs \in Seq(Query), NEW rs \in Seq(Query)
    PROVE  All(qs \o rs).cols = All(qs).cols \o All(rs).cols
<1>1. ColumnsOf(qs \o rs) = ColumnsOf(qs) \o ColumnsOf(rs)
  <2>1. qs \o rs \in Seq(Query)
    OBVIOUS
  <2>2. /\ Len(qs \o rs) = Len(qs) + Len(rs)
        /\ \A i \in 1..Len(qs) : i \in 1..Len(qs \o rs) /\ (qs \o rs)[i] = qs[i]
        /\ \A i \in 1..Len(rs) : Len(qs) + i \in 1..Len(qs \o rs) /\ (qs \o rs)[Len(qs) + i] = rs[i]
    BY ConcatElements
  <2>3. /\ Len(ColumnsOf(qs)) = Len(qs) /\ Len(ColumnsOf(rs)) = Len(rs)
        /\ Len(ColumnsOf(qs \o rs)) = Len(qs \o rs)
        /\ \A i \in 1..Len(qs) : ColumnsOf(qs)[i] = qs[i].cols
        /\ \A i \in 1..Len(rs) : ColumnsOf(rs)[i] = rs[i].cols
        /\ \A i \in 1..Len(qs \o rs) : ColumnsOf(qs \o rs)[i] = (qs \o rs)[i].cols
    BY <2>1, ColumnsType
  <2>4. ASSUME NEW i \in 1..Len(qs) PROVE ColumnsOf(qs \o rs)[i] = ColumnsOf(qs)[i]
    BY <2>2, <2>3
  <2>5. ASSUME NEW i \in 1..Len(rs) PROVE ColumnsOf(qs \o rs)[Len(qs) + i] = ColumnsOf(rs)[i]
    BY <2>2, <2>3
  <2>6. /\ ColumnsOf(qs) \in Seq(Seq(QueryColumn)) /\ ColumnsOf(rs) \in Seq(Seq(QueryColumn))
        /\ ColumnsOf(qs \o rs) \in Seq(Seq(QueryColumn))
    BY <2>1, ColumnsType
  <2> DEFINE x == ColumnsOf(qs)
             y == ColumnsOf(rs)
             z == ColumnsOf(qs \o rs)
  <2>7. /\ Len(z) = Len(x) + Len(y)
        /\ \A i \in 1..Len(x) : z[i] = x[i]
        /\ \A i \in 1..Len(y) : z[Len(x) + i] = y[i]
    BY <2>2, <2>3, <2>4, <2>5
  <2>8. z = x \o y
    <3> HIDE DEF x, y, z
    <3>. QED BY <2>6, <2>7, ConcatIs DEF x, y, z
  <2>. QED BY <2>8
<1>2. FlattenSeq(ColumnsOf(qs \o rs)) = FlattenSeq(ColumnsOf(qs)) \o FlattenSeq(ColumnsOf(rs))
  BY <1>1, ColumnsType, FlattenConcat
<1>. QED BY <1>2 DEF All, ColumnsOf

\* A list of one query has the columns of that query.
LEMMA AllOne ==
    ASSUME NEW q \in Query
    PROVE  All(<<q>>).cols = q.cols
<1>1. ColumnsOf(<<q>>) = <<q.cols>>
  BY DEF ColumnsOf
<1>2. q.cols \in Seq(QueryColumn)
  BY DEF Query
<1>3. FlattenSeq(ColumnsOf(<<q>>)) = q.cols
  BY <1>1, <1>2, FlattenOne
<1>. QED BY <1>3 DEF All, ColumnsOf

\* Joining a table, or erasing a join that selects nothing, leaves the columns of
\* the query as they are.
LEMMA JoiningColumns ==
    ASSUME NEW j \in QueryJoin, NEW q \in Query
    PROVE  Joining(j, q) \in Query /\ Joining(j, q).cols = q.cols
<1>1. CASE q.cols = <<>>
  BY <1>1 DEF Joining, Nothing, Selecting, Query
<1>2. CASE q.cols # <<>>
  <2>1. <<j>> \o q.joins \in Seq(QueryJoin)
    BY DEF Query
  <2>. QED BY <1>2, <2>1 DEF Joining, Query
<1>. QED BY <1>1, <1>2

-----------------------------------------------------------------------------
(* The parts of add_table() and of read_table().                           *)

\* The arguments of read_table() that go with a context of add_table().
Fits(v, ctx) ==
    /\ v.table = ctx.table /\ v.read_base = ctx.add_base
    /\ v.read_derived = ctx.add_derived /\ v.is_dynamic = ctx.is_dynamic
    /\ ctx.add_base \/ BaseOf[ctx.table] # NoTable

\* What is done one level below.
Agrees(reads, adds) ==
    \A ctx \in LocalContext :
       /\ adds[ctx] \in Query
       /\ \A v \in Visit : Fits(v, ctx) => Takes(reads[v], adds[ctx].cols)

-----------------------------------------------------------------------------
\* An alias is a sequence of tables and fields.
LEMMA AliasType ==
    ASSUME NEW ctx \in LocalContext
    PROVE  /\ RealAlias(ctx) \in Seq(Table \cup Field)
           /\ \A t \in Table : AliasUnder(ctx, t) \in Seq(Table \cup Field)
<1>1. ctx.table \in Table /\ ctx.alias \in Seq(Table \cup Field)
  BY DEF LocalContext
<1>2. <<ctx.table>> \in Seq(Table \cup Field) /\ <<>> \in Seq(Table \cup Field)
  BY <1>1
<1>3. \A t \in Table : Append(ctx.alias, t) \in Seq(Table \cup Field)
  BY <1>1
<1>. QED BY <1>1, <1>2, <1>3 DEF RealAlias, AliasUnder

\* A query may have no columns.
LEMMA NothingIsQuery == Nothing \in Query
<1>1. <<>> \in Seq(QueryColumn) /\ <<>> \in Seq(QueryJoin)
  OBVIOUS
<1>. QED BY <1>1 DEF Nothing, Selecting, Query

\* The columns of the base tables are taken where read_table() reads the base table.
LEMMA BaseTaken ==
    ASSUME NEW reads, NEW adds, Agrees(reads, adds), NEW ctx \in LocalContext
    PROVE  /\ AddBase(adds, ctx) \in Query
           /\ \A v \in Visit : Fits(v, ctx) /\ ctx.add_base /\ BaseOf[ctx.table] # NoTable
                 => Takes(ReadBase(reads, v), AddBase(adds, ctx).cols)
<1>1. CASE ~(ctx.add_base /\ BaseOf[ctx.table] # NoTable)
  BY <1>1, NothingIsQuery DEF AddBase
<1>2. CASE ctx.add_base /\ BaseOf[ctx.table] # NoTable
  <2> DEFINE b == BaseOf[ctx.table]
             base == [ctx EXCEPT !.table = b, !.alias = AliasUnder(ctx, b),
                                 !.add_base = TRUE, !.add_derived = FALSE]
             join == Join(TRUE, base, ctx, "base")
  <2>1. b \in Table
    BY <1>2, SchemaAssumption DEF LocalContext
  <2>2. base \in LocalContext
    BY <2>1, AliasType DEF LocalContext
  <2>3. join \in QueryJoin
    BY <2>2, AliasType DEF Join, QueryJoin, LocalContext
  <2>4. AddBase(adds, ctx) = Joining(join, adds[base])
    BY <1>2 DEF AddBase
  <2>5. adds[base] \in Query
    BY <2>2 DEF Agrees
  <2>6. AddBase(adds, ctx) \in Query /\ AddBase(adds, ctx).cols = adds[base].cols
    BY <2>3, <2>4, <2>5, JoiningColumns
  <2>7. ASSUME NEW v \in Visit, Fits(v, ctx)
        PROVE  Takes(ReadBase(reads, v), adds[base].cols)
    <3> DEFINE u == [v EXCEPT !.table = b, !.read_derived = FALSE]
    <3>1. u \in Visit /\ ReadBase(reads, v) = reads[u]
      BY <1>2, <2>1, <2>7 DEF Visit, ReadBase, Fits
    <3>2. Fits(u, base)
      BY <1>2, <2>1, <2>7 DEF Visit, LocalContext, Fits
    <3>. QED BY <2>2, <3>1, <3>2 DEF Agrees
  <2>. QED BY <2>6, <2>7
<1>. QED BY <1>1, <1>2

\* The column of __type makes a query, and so does its absence.
LEMMA TypeQuery ==
    ASSUME NEW ctx \in LocalContext
    PROVE  AddType(ctx) \in Query
<1>1. ctx.table \in Table
  BY DEF LocalContext
<1>2. [alias |-> <<ctx.table>>, kind |-> "type", of |-> ctx.table] \in QueryColumn
  BY <1>1 DEF QueryColumn
<1>. QED BY <1>2 DEF AddType, Selecting, Nothing, Query

\* The columns of the base tables, or the column of __type at the root of a
\* hierarchy, are what the steps before the key of a table take.
LEMMA HeadTaken ==
    ASSUME NEW reads, NEW adds, Agrees(reads, adds), NEW ctx \in LocalContext,
           NEW v \in Visit, Fits(v, ctx)
    PROVE  Takes(ReadBase(reads, v), AddBase(adds, ctx).cols \o AddType(ctx).cols)
<1> DEFINE t == ctx.table
<1>0. t \in Table /\ v.table = t /\ v.read_base = ctx.add_base /\ v.is_dynamic = ctx.is_dynamic
      /\ ctx.add_base \in BOOLEAN
  BY DEF LocalContext, Fits
<1>1. CASE BaseOf[t] # NoTable
  <2>1. AddType(ctx).cols = <<>>
    BY <1>1 DEF AddType, HasTypeColumn, Nothing, Selecting
  <2>2. AddBase(adds, ctx).cols \in Seq(QueryColumn)
    BY BaseTaken DEF Query
  <2>3. AddBase(adds, ctx).cols \o AddType(ctx).cols = AddBase(adds, ctx).cols
    BY <2>1, <2>2, ConcatEmptySeq
  <2>4. CASE ctx.add_base
    BY <1>1, <2>3, <2>4, BaseTaken
  <2>5. CASE ~ctx.add_base
    BY <1>0, <2>3, <2>5, TakesNone DEF AddBase, ReadBase, Nothing, Selecting
  <2>. QED BY <1>0, <2>4, <2>5
<1>2. CASE BaseOf[t] = NoTable
  <2>1. ctx.add_base
    BY <1>2 DEF Fits
  <2>2. AddBase(adds, ctx).cols = <<>>
    BY <1>2 DEF AddBase, Nothing, Selecting
  <2>3. CASE ctx.is_dynamic /\ DerivedTables(t) # {}
    <3> DEFINE col == [alias |-> <<t>>, kind |-> "type", of |-> t]
    <3>1. AddType(ctx).cols = <<col>>
      BY <1>2, <2>3 DEF AddType, HasTypeColumn, Selecting
    <3>2. ReadBase(reads, v) = <<Step("type", t)>>
      BY <1>0, <1>2, <2>1, <2>3 DEF ReadBase
    <3>3. col \in QueryColumn /\ Step("type", t) \in Taking
      BY <1>0 DEF QueryColumn, Taking, WalkStep, Step
    <3>4. Takes(<<Step("type", t)>>, <<col>>)
      <4>1. Step("type", t) = Step(col.kind, col.of)
        OBVIOUS
      <4> HIDE DEF col
      <4>. QED BY <3>3, <4>1, TakesOne
    <3>5. <<>> \o <<col>> = <<col>>
      OBVIOUS
    <3>. QED BY <2>2, <3>1, <3>2, <3>4, <3>5
  <2>4. CASE ~(ctx.is_dynamic /\ DerivedTables(t) # {})
    <3>1. AddType(ctx).cols = <<>>
      BY <2>4 DEF AddType, HasTypeColumn, Nothing, Selecting
    <3>2. ReadBase(reads, v) = <<Step("make", t)>>
      BY <1>0, <1>2, <2>1, <2>4 DEF ReadBase
    <3>3. Step("make", t) \in WalkStep /\ Step("make", t) \notin Taking
      BY <1>0 DEF Taking, WalkStep, Step
    <3>4. <<>> \o <<>> = <<>>
      OBVIOUS
    <3>. QED BY <2>2, <3>1, <3>2, <3>3, <3>4, TakesNothing
  <2>. QED BY <2>3, <2>4
<1>. QED BY <1>1, <1>2

-----------------------------------------------------------------------------
\* The key and the data fields of a table are taken in the order their columns are
\* in.
LEMMA ColumnsTaken ==
    ASSUME NEW ctx \in LocalContext, NEW excluded
    PROVE  LET data == Kept(excluded, DataFields[ctx.table])
           IN /\ AddColumns(excluded, ctx) \in Query
              /\ Takes(<<Step("key", ctx.table)>> \o [i \in DOMAIN data |-> Step("data", data[i])],
                       AddColumns(excluded, ctx).cols)
<1> DEFINE t == ctx.table
           data == Kept(excluded, DataFields[t])
           key == Column(ctx, "key", t)
           steps == [i \in DOMAIN data |-> Step("data", data[i])]
           cols == [i \in DOMAIN data |-> Column(ctx, "data", data[i])]
<1>1. t \in Table
  BY DEF LocalContext
<1>2. data \in Seq(Field)
  BY <1>1, KeptFields, SeqMonotonic
<1> HIDE DEF data
<1>3. ASSUME NEW i \in 1..Len(data)
      PROVE  Step("data", data[i]) \in Taking /\ Column(ctx, "data", data[i]) \in QueryColumn
  <2>1. data[i] \in Field
    BY <1>2
  <2>. QED BY <2>1, AliasType DEF Step, Column, Taking, WalkStep, QueryColumn
<1>4. DOMAIN data = 1..Len(data) /\ Len(data) \in Nat
  BY <1>2
<1>5. /\ steps \in Seq(Taking) /\ Len(steps) = Len(data)
      /\ cols \in Seq(QueryColumn) /\ Len(cols) = Len(data)
  BY <1>3, <1>4
<1>6. \A i \in 1..Len(data) : steps[i] = Step(cols[i].kind, cols[i].of)
  BY <1>4 DEF Column
<1>7. Takes(steps, cols)
  <2> HIDE DEF steps, cols
  <2>. QED BY <1>5, <1>6, TakesEach
<1>8. Takes(<<Step("key", t)>>, <<key>>)
  <2>1. key \in QueryColumn
    BY <1>1, AliasType DEF Column, QueryColumn
  <2>2. Step("key", t) = Step(key.kind, key.of)
    BY DEF Column
  <2> HIDE DEF key
  <2>. QED BY <2>1, <2>2, TakesOne
<1>9. Takes(<<Step("key", t)>> \o steps, <<key>> \o cols)
  <2> HIDE DEF steps, cols, key
  <2>. QED BY <1>7, <1>8, TakesConcat
<1>10. AddColumns(excluded, ctx) = [cols |-> <<key>> \o cols, joins |-> <<>>]
  BY DEF AddColumns, Selecting, data
<1>11. <<key>> \o cols \in Seq(QueryColumn)
  <2> HIDE DEF steps, cols, key
  <2>. QED BY <1>9 DEF Takes
<1>12. AddColumns(excluded, ctx) \in Query
  <2> HIDE DEF steps, cols, key
  <2>. QED BY <1>10, <1>11 DEF Query
<1>. QED BY <1>9, <1>10, <1>12 DEF data

\* Steps that take no cell may be before and after those that take the columns.
LEMMA TakesBetween ==
    ASSUME NEW before \in WalkStep, NEW after \in WalkStep, before \notin Taking,
           after \notin Taking, NEW p, NEW c, Takes(p, c)
    PROVE  Takes(<<before>> \o p \o <<after>>, c)
<1>1. Takes(<<before>>, <<>>) /\ Takes(<<after>>, <<>>)
  BY TakesNothing
<1>2. Takes((<<before>> \o p) \o <<after>>, (<<>> \o c) \o <<>>)
  BY <1>1, TakesConcat
<1>3. c \in Seq(QueryColumn)
  BY DEF Takes
<1>4. (<<>> \o c) \o <<>> = c
  BY <1>3, ConcatEmptySeq
<1>. QED BY <1>2, <1>4

\* The steps of the part of a one field take the columns of its join.
LEMMA PartTaken ==
    ASSUME NEW reads, NEW adds, Agrees(reads, adds), NEW ctx \in LocalContext,
           NEW f \in Field, IsOne(f)
    PROVE  /\ AddPart(adds, ctx, f) \in Query
           /\ Takes(ReadPart(reads, f), AddPart(adds, ctx, f).cols)
<1> DEFINE part == [table |-> RefOf[f], alias |-> Append(RealAlias(ctx), f), add_base |-> TRUE,
                    add_derived |-> TRUE, is_dynamic |-> f \in PointerField]
           v == [table |-> RefOf[f], read_base |-> TRUE, read_derived |-> TRUE,
                 is_dynamic |-> f \in PointerField]
           join == Join(FALSE, part, ctx, f)
<1>1. RefOf[f] \in Table
  BY SchemaAssumption DEF IsOne
<1>2. part \in LocalContext /\ v \in Visit /\ Fits(v, part)
  BY <1>1, AliasType DEF LocalContext, Visit, Fits
<1>3. join \in QueryJoin
  BY <1>2, AliasType DEF Join, QueryJoin, LocalContext
<1>4. adds[part] \in Query /\ Takes(reads[v], adds[part].cols)
  BY <1>2 DEF Agrees
<1>5. AddPart(adds, ctx, f) = Joining(join, adds[part])
  BY DEF AddPart
<1>6. ReadPart(reads, f) = <<Step("part", f)>> \o reads[v] \o <<Step("finish", f)>>
  BY DEF ReadPart
<1>7. /\ Step("part", f) \in WalkStep /\ Step("part", f) \notin Taking
      /\ Step("finish", f) \in WalkStep /\ Step("finish", f) \notin Taking
  BY DEF Step, WalkStep, Taking
<1> HIDE DEF part, v, join
<1>8. AddPart(adds, ctx, f) \in Query /\ AddPart(adds, ctx, f).cols = adds[part].cols
  BY <1>3, <1>4, <1>5, JoiningColumns
<1>. QED BY <1>4, <1>6, <1>7, <1>8, TakesBetween

\* The steps of a derived table take the columns of its join.
LEMMA DerivedTaken ==
    ASSUME NEW reads, NEW adds, Agrees(reads, adds), NEW ctx \in LocalContext,
           NEW d \in DerivedTables(ctx.table)
    PROVE  /\ AddDerived(adds, ctx, d) \in Query
           /\ \A v \in Visit : Fits(v, ctx)
                 => Takes(ReadDerived(reads, v, d), AddDerived(adds, ctx, d).cols)
<1> DEFINE derived == [ctx EXCEPT !.table = d, !.alias = AliasUnder(ctx, d),
                                  !.add_base = FALSE, !.add_derived = TRUE]
           join == Join(FALSE, derived, ctx, "derived")
<1>1. d \in Table /\ BaseOf[d] = ctx.table /\ ctx.table \in Table
  BY DEF DerivedTables, LocalContext
<1>2. BaseOf[d] # NoTable
  BY <1>1, SchemaAssumption
<1>3. derived \in LocalContext
  BY <1>1, AliasType DEF LocalContext
<1>4. join \in QueryJoin
  BY <1>1, <1>3, AliasType DEF Join, QueryJoin, LocalContext
<1>5. AddDerived(adds, ctx, d) = Joining(join, adds[derived])
  BY DEF AddDerived
<1>6. adds[derived] \in Query
  BY <1>3 DEF Agrees
<1>7. AddDerived(adds, ctx, d) \in Query /\ AddDerived(adds, ctx, d).cols = adds[derived].cols
  BY <1>4, <1>5, <1>6, JoiningColumns
<1>8. ASSUME NEW v \in Visit, Fits(v, ctx)
      PROVE  Takes(ReadDerived(reads, v, d), AddDerived(adds, ctx, d).cols)
  <2> DEFINE u == [v EXCEPT !.table = d, !.read_base = FALSE, !.read_derived = TRUE]
  <2>1. u \in Visit
    BY <1>1 DEF Visit
  <2>2. Fits(u, derived)
    BY <1>1, <1>2, <1>8 DEF Visit, LocalContext, Fits
  <2>3. Takes(reads[u], adds[derived].cols)
    BY <1>3, <2>1, <2>2 DEF Agrees
  <2>4. ReadDerived(reads, v, d) = <<Step("enter", d)>> \o reads[u] \o <<Step("leave", d)>>
    BY DEF ReadDerived
  <2>5. /\ Step("enter", d) \in WalkStep /\ Step("enter", d) \notin Taking
        /\ Step("leave", d) \in WalkStep /\ Step("leave", d) \notin Taking
    BY <1>1 DEF Step, WalkStep, Taking
  <2> HIDE DEF u, derived, join
  <2>. QED BY <1>7, <2>3, <2>4, <2>5, TakesBetween
<1>. QED BY <1>7, <1>8

-----------------------------------------------------------------------------
(* What add_table() selects and read_table() takes, part by part.          *)

\* If the steps of each part take the columns of its query, those of all parts take
\* the columns of all queries.
LEMMA ListTaken ==
    ASSUME NEW n \in Nat, NEW pp, NEW qs, DOMAIN pp = 1..n, DOMAIN qs = 1..n,
           pp = [i \in 1..n |-> pp[i]], qs = [i \in 1..n |-> qs[i]],
           \A i \in 1..n : qs[i] \in Query /\ Takes(pp[i], qs[i].cols)
    PROVE  qs \in Seq(Query) /\ Takes(FlattenSeq(pp), All(qs).cols)
<1>1. qs \in Seq(Query) /\ Len(qs) = n
  OBVIOUS
<1>2. ASSUME NEW i \in 1..n PROVE pp[i] \in Seq(WalkStep)
  BY DEF Takes
<1>3. pp \in Seq(Seq(WalkStep)) /\ Len(pp) = n
  BY <1>2
<1>4. /\ ColumnsOf(qs) \in Seq(Seq(QueryColumn)) /\ Len(ColumnsOf(qs)) = n
      /\ \A i \in 1..n : ColumnsOf(qs)[i] = qs[i].cols
  BY <1>1, ColumnsType
<1>5. Takes(FlattenSeq(pp), FlattenSeq(ColumnsOf(qs)))
  BY <1>3, <1>4, TakesFlatten
<1>. QED BY <1>1, <1>5 DEF All, ColumnsOf

\* The steps of the parts of all one fields take the columns of all their joins.
LEMMA PartsTaken ==
    ASSUME NEW reads, NEW adds, Agrees(reads, adds), NEW ctx \in LocalContext,
           NEW parts \in Seq({f \in Field : IsOne(f)})
    PROVE  /\ [i \in DOMAIN parts |-> AddPart(adds, ctx, parts[i])] \in Seq(Query)
           /\ Takes(FlattenSeq([i \in DOMAIN parts |-> ReadPart(reads, parts[i])]),
                    All([i \in DOMAIN parts |-> AddPart(adds, ctx, parts[i])]).cols)
<1> DEFINE pp == [i \in DOMAIN parts |-> ReadPart(reads, parts[i])]
           qs == [i \in DOMAIN parts |-> AddPart(adds, ctx, parts[i])]
<1>1. DOMAIN parts = 1..Len(parts) /\ Len(parts) \in Nat
  OBVIOUS
<1>2. ASSUME NEW i \in 1..Len(parts) PROVE qs[i] \in Query /\ Takes(pp[i], qs[i].cols)
  <2>1. parts[i] \in Field /\ IsOne(parts[i])
    OBVIOUS
  <2>2. qs[i] = AddPart(adds, ctx, parts[i]) /\ pp[i] = ReadPart(reads, parts[i])
    BY <1>1
  <2> HIDE DEF qs, pp
  <2>. QED BY <2>1, <2>2, PartTaken
<1>3. /\ DOMAIN pp = 1..Len(parts) /\ DOMAIN qs = 1..Len(parts)
      /\ pp = [i \in 1..Len(parts) |-> pp[i]] /\ qs = [i \in 1..Len(parts) |-> qs[i]]
  BY <1>1
<1>4. qs \in Seq(Query) /\ Takes(FlattenSeq(pp), All(qs).cols)
  <2> HIDE DEF qs, pp
  <2>. QED BY <1>1, <1>2, <1>3, ListTaken
<1>. QED BY <1>4

\* The steps of all derived tables take the columns of all their joins.
LEMMA DerivedsTaken ==
    ASSUME NEW reads, NEW adds, Agrees(reads, adds), NEW ctx \in LocalContext,
           NEW ds \in Seq(DerivedTables(ctx.table))
    PROVE  /\ [i \in DOMAIN ds |-> AddDerived(adds, ctx, ds[i])] \in Seq(Query)
           /\ \A v \in Visit : Fits(v, ctx)
                 => Takes(FlattenSeq([i \in DOMAIN ds |-> ReadDerived(reads, v, ds[i])]),
                          All([i \in DOMAIN ds |-> AddDerived(adds, ctx, ds[i])]).cols)
<1> DEFINE qs == [i \in DOMAIN ds |-> AddDerived(adds, ctx, ds[i])]
<1>1. DOMAIN ds = 1..Len(ds) /\ Len(ds) \in Nat
  OBVIOUS
<1>2. ASSUME NEW i \in 1..Len(ds)
      PROVE  ds[i] \in DerivedTables(ctx.table) /\ qs[i] = AddDerived(adds, ctx, ds[i])
  BY <1>1
<1>3. DOMAIN qs = 1..Len(ds) /\ qs = [i \in 1..Len(ds) |-> qs[i]]
  BY <1>1
<1>4. qs \in Seq(Query)
  <2>1. ASSUME NEW i \in 1..Len(ds) PROVE qs[i] \in Query
    <3> HIDE DEF qs
    <3>. QED BY <1>2, DerivedTaken
  <2> HIDE DEF qs
  <2>. QED BY <1>1, <1>3, <2>1
<1>5. ASSUME NEW v \in Visit, Fits(v, ctx)
      PROVE  Takes(FlattenSeq([i \in DOMAIN ds |-> ReadDerived(reads, v, ds[i])]), All(qs).cols)
  <2> DEFINE pp == [i \in DOMAIN ds |-> ReadDerived(reads, v, ds[i])]
  <2>1. ASSUME NEW i \in 1..Len(ds) PROVE qs[i] \in Query /\ Takes(pp[i], qs[i].cols)
    <3>1. pp[i] = ReadDerived(reads, v, ds[i])
      BY <1>1
    <3> HIDE DEF qs, pp
    <3>. QED BY <1>2, <1>5, <3>1, DerivedTaken
  <2>2. DOMAIN pp = 1..Len(ds) /\ pp = [i \in 1..Len(ds) |-> pp[i]]
    BY <1>1
  <2>3. Takes(FlattenSeq(pp), All(qs).cols)
    <3> HIDE DEF qs, pp
    <3>. QED BY <1>1, <1>3, <2>1, <2>2, ListTaken
  <2>. QED BY <2>3
<1>. QED BY <1>4, <1>5

\* read_table() takes what add_table() selects for the same arguments.
LEMMA TableTaken ==
    ASSUME NEW reads, NEW adds, Agrees(reads, adds), NEW ctx \in LocalContext, NEW excluded
    PROVE  /\ AddTable(excluded, adds, ctx) \in Query
           /\ \A v \in Visit : Fits(v, ctx)
                 => Takes(ReadTable(excluded, reads, v), AddTable(excluded, adds, ctx).cols)
<1> DEFINE t == ctx.table
           base == AddBase(adds, ctx)
           type == AddType(ctx)
           head == <<base, type>>
           columns == AddColumns(excluded, ctx)
           parts == Kept(excluded, OneFields[t])
           ds == IF ctx.add_derived /\ ctx.is_dynamic THEN DerivedSeq(t) ELSE <<>>
           ps == [i \in DOMAIN parts |-> AddPart(adds, ctx, parts[i])]
           qs == [i \in DOMAIN ds |-> AddDerived(adds, ctx, ds[i])]
<1>1. t \in Table
  BY DEF LocalContext
<1>2. base \in Query /\ type \in Query /\ columns \in Query
  BY BaseTaken, TypeQuery, ColumnsTaken
<1>3. parts \in Seq({f \in Field : IsOne(f)})
  BY <1>1, KeptFields
<1>4. ds \in Seq(DerivedTables(t))
  <2>1. <<>> \in Seq(DerivedTables(t)) /\ DerivedSeq(t) \in Seq(DerivedTables(t))
    BY <1>1, DerivedSeqType
  <2>. QED BY <2>1
<1>5. ps \in Seq(Query) /\ qs \in Seq(Query)
  <2> HIDE DEF parts, ds
  <2>. QED BY <1>3, <1>4, PartsTaken, DerivedsTaken
<1>6. AddTable(excluded, adds, ctx)
        = IF IsExcluded(excluded, t) THEN All(head) ELSE All(head \o <<columns>> \o ps \o qs)
  BY DEF AddTable
<1>7. ASSUME NEW v \in Visit, Fits(v, ctx)
      PROVE  /\ Takes(ReadBase(reads, v), base.cols \o type.cols)
             /\ Takes(FlattenSeq([i \in DOMAIN parts |-> ReadPart(reads, parts[i])]), All(ps).cols)
             /\ Takes(FlattenSeq([i \in DOMAIN ds |-> ReadDerived(reads, v, ds[i])]), All(qs).cols)
  <2>1. Takes(ReadBase(reads, v), base.cols \o type.cols)
    BY <1>7, HeadTaken
  <2> HIDE DEF parts, ds
  <2>. QED BY <1>3, <1>4, <1>7, <2>1, PartsTaken, DerivedsTaken
<1>8. ASSUME NEW v \in Visit, Fits(v, ctx)
      PROVE  ReadTable(excluded, reads, v)
               = IF IsExcluded(excluded, t) THEN ReadBase(reads, v)
                 ELSE ReadBase(reads, v)
                      \o <<Step("key", t)>>
                      \o [i \in DOMAIN Kept(excluded, DataFields[t]) |->
                            Step("data", Kept(excluded, DataFields[t])[i])]
                      \o FlattenSeq([i \in DOMAIN parts |-> ReadPart(reads, parts[i])])
                      \o <<Step("many", t)>>
                      \o FlattenSeq([i \in DOMAIN ds |-> ReadDerived(reads, v, ds[i])])
  BY <1>8 DEF ReadTable, Fits
<1>9. head \in Seq(Query) /\ All(head).cols = base.cols \o type.cols
  <2>1. /\ <<base>> \in Seq(Query) /\ <<type>> \in Seq(Query)
        /\ <<base>> \o <<type>> \in Seq(Query) /\ head = <<base>> \o <<type>>
    BY <1>2
  <2> HIDE DEF base, type
  <2>2. All(<<base>> \o <<type>>).cols = All(<<base>>).cols \o All(<<type>>).cols
    <3> HIDE DEF head
    <3>. QED BY <2>1, AllConcat
  <2>3. All(<<base>>).cols = base.cols /\ All(<<type>>).cols = type.cols
    BY <1>2, AllOne
  <2> HIDE DEF head
  <2>. QED BY <2>1, <2>2, <2>3
<1> DEFINE data == Kept(excluded, DataFields[t])
           reading == [i \in DOMAIN data |-> Step("data", data[i])]
<1>10. Takes(<<Step("key", t)>> \o reading, columns.cols)
  BY ColumnsTaken
<1>11. <<Step("key", t)>> \in Seq(WalkStep) /\ reading \in Seq(WalkStep)
  <2>1. data \in Seq(Field)
    BY <1>1, KeptFields, SeqMonotonic
  <2> HIDE DEF data
  <2>2. ASSUME NEW i \in 1..Len(data) PROVE Step("data", data[i]) \in WalkStep
    <3>1. data[i] \in Field
      BY <2>1
    <3>. QED BY <3>1 DEF Step, WalkStep
  <2>3. DOMAIN data = 1..Len(data) /\ Len(data) \in Nat
    BY <2>1
  <2>4. Step("key", t) \in WalkStep
    BY <1>1 DEF Step, WalkStep
  <2>. QED BY <2>2, <2>3, <2>4
<1> HIDE DEF reading, data, t, base, type, columns, parts, ds, ps, qs, head
<1>12. CASE IsExcluded(excluded, t)
  <2>1. AddTable(excluded, adds, ctx) = All(head)
    BY <1>6, <1>12
  <2>. QED BY <1>7, <1>8, <1>9, <1>12, <2>1, AllType
<1>13. CASE ~IsExcluded(excluded, t)
  <2>1. AddTable(excluded, adds, ctx) = All(head \o <<columns>> \o ps \o qs)
    BY <1>6, <1>13
  <2>2. <<columns>> \in Seq(Query) /\ All(<<columns>>).cols = columns.cols
    BY <1>2, AllOne
  <2>3. /\ head \o <<columns>> \in Seq(Query) /\ (head \o <<columns>>) \o ps \in Seq(Query)
        /\ ((head \o <<columns>>) \o ps) \o qs \in Seq(Query)
    BY <1>5, <1>9, <2>2, ConcatProperties
  <2>4. AddTable(excluded, adds, ctx).cols
          = (((base.cols \o type.cols) \o columns.cols) \o All(ps).cols) \o All(qs).cols
    <3>1. All(head \o <<columns>>).cols = (base.cols \o type.cols) \o columns.cols
      BY <1>9, <2>2, AllConcat
    <3>2. All((head \o <<columns>>) \o ps).cols = All(head \o <<columns>>).cols \o All(ps).cols
      BY <1>5, <2>3, AllConcat
    <3>3. All(((head \o <<columns>>) \o ps) \o qs).cols
            = All((head \o <<columns>>) \o ps).cols \o All(qs).cols
      BY <1>5, <2>3, AllConcat
    <3>. QED BY <2>1, <3>1, <3>2, <3>3
  <2>5. ASSUME NEW v \in Visit, Fits(v, ctx)
        PROVE  Takes(ReadTable(excluded, reads, v), AddTable(excluded, adds, ctx).cols)
    <3> DEFINE rb == ReadBase(reads, v)
               fp == FlattenSeq([i \in DOMAIN parts |-> ReadPart(reads, parts[i])])
               fd == FlattenSeq([i \in DOMAIN ds |-> ReadDerived(reads, v, ds[i])])
               key == <<Step("key", t)>>
               many == <<Step("many", t)>>
    <3>1. ReadTable(excluded, reads, v) = ((((rb \o key) \o reading) \o fp) \o many) \o fd
      BY <1>8, <1>13, <2>5 DEF reading, data
    <3>2. Takes(rb, base.cols \o type.cols) /\ Takes(fp, All(ps).cols) /\ Takes(fd, All(qs).cols)
      BY <1>7, <2>5
    <3>3. Takes(many, <<>>)
      <4>1. Step("many", t) \in WalkStep /\ Step("many", t) \notin Taking
        BY <1>1 DEF Step, WalkStep, Taking
      <4>. QED BY <4>1, TakesNothing
    <3>4. Takes(key \o reading, columns.cols) /\ key \in Seq(WalkStep) /\ reading \in Seq(WalkStep)
      BY <1>10, <1>11
    <3> HIDE DEF rb, fp, fd, key, many
    <3>5. rb \in Seq(WalkStep)
      BY <3>2 DEF Takes
    <3>6. (rb \o key) \o reading = rb \o (key \o reading)
      BY <3>4, <3>5, ConcatAssociative
    <3>7. Takes(rb \o (key \o reading), (base.cols \o type.cols) \o columns.cols)
      BY <3>2, <3>4, TakesConcat
    <3>8. Takes((rb \o (key \o reading)) \o fp,
                ((base.cols \o type.cols) \o columns.cols) \o All(ps).cols)
      BY <3>2, <3>7, TakesConcat
    <3>9. Takes(((rb \o (key \o reading)) \o fp) \o many,
                (((base.cols \o type.cols) \o columns.cols) \o All(ps).cols) \o <<>>)
      BY <3>3, <3>8, TakesConcat
    <3>10. (((base.cols \o type.cols) \o columns.cols) \o All(ps).cols) \o <<>>
              = ((base.cols \o type.cols) \o columns.cols) \o All(ps).cols
      <4>1. ((base.cols \o type.cols) \o columns.cols) \o All(ps).cols \in Seq(QueryColumn)
        BY <3>8 DEF Takes
      <4>. QED BY <4>1, ConcatEmptySeq
    <3>11. Takes((((rb \o (key \o reading)) \o fp) \o many) \o fd,
                 (((base.cols \o type.cols) \o columns.cols) \o All(ps).cols) \o All(qs).cols)
      BY <3>2, <3>9, <3>10, TakesConcat
    <3>. QED BY <2>4, <3>1, <3>6, <3>11
  <2>. QED BY <2>1, <2>3, <2>5, AllType
<1>. QED BY <1>12, <1>13

-----------------------------------------------------------------------------
\* For every schema and every filter, data_extractor_t takes exactly the columns
\* select_query_builder_t has selected, in the same order: each key, each __type
\* and each field gets the cell of its own column (table.cpp:75, 247).
THEOREM WalkTakesColumns ==
    ASSUME NEW t \in Table, NEW excluded, NEW dyn \in BOOLEAN
    PROVE  Takes(Walk(t, excluded, dyn), BuildSelect(t, excluded, dyn).cols)
<1> DEFINE top == [table |-> t, alias |-> <<>>, add_base |-> TRUE, add_derived |-> TRUE,
                   is_dynamic |-> dyn]
           first == [table |-> t, read_base |-> TRUE, read_derived |-> TRUE, is_dynamic |-> dyn]
<1>1. PICK add : /\ BuildSelect(t, excluded, dyn).cols = add[Levels][top].cols
                 /\ \A ctx \in LocalContext : add[0][ctx] = Nothing
                 /\ \A n \in 1..Levels : \A ctx \in LocalContext :
                       add[n][ctx] = AddTable(excluded, add[n - 1], ctx)
  BY BuildRounds
<1>2. PICK read : /\ Walk(t, excluded, dyn) = read[Levels][first]
                  /\ \A v \in Visit : read[0][v] = <<>>
                  /\ \A n \in 1..Levels : \A v \in Visit :
                        read[n][v] = ReadTable(excluded, read[n - 1], v)
  BY WalkRounds
<1> DEFINE S == {n \in 0..Levels : Agrees(read[n], add[n])}
<1>3. 0 \in S
  BY <1>1, <1>2, LevelsType, NothingIsQuery, TakesNone DEF Agrees, Nothing, Selecting
<1>4. ASSUME NEW n \in 0..Levels, n \in S, n + 1 <= Levels PROVE n + 1 \in S
  <2>1. n + 1 \in 1..Levels /\ (n + 1) - 1 = n /\ n + 1 \in 0..Levels
    BY <1>4, LevelsType
  <2>2. Agrees(read[n], add[n])
    BY <1>4
  <2>3. /\ \A ctx \in LocalContext : add[n + 1][ctx] = AddTable(excluded, add[n], ctx)
        /\ \A v \in Visit : read[n + 1][v] = ReadTable(excluded, read[n], v)
    BY <1>1, <1>2, <2>1
  <2>4. Agrees(read[n + 1], add[n + 1])
    <3>1. ASSUME NEW ctx \in LocalContext
          PROVE  /\ AddTable(excluded, add[n], ctx) \in Query
                 /\ \A v \in Visit : Fits(v, ctx)
                       => Takes(ReadTable(excluded, read[n], v),
                                AddTable(excluded, add[n], ctx).cols)
      BY <2>2, TableTaken
    <3>. QED BY <2>3, <3>1 DEF Agrees
  <2>. QED BY <2>1, <2>4
<1>5. Levels \in S
  <2> HIDE DEF S
  <2>. QED BY <1>3, <1>4, LevelsType, UpTo
<1>6. top \in LocalContext /\ first \in Visit /\ Fits(first, top)
  BY DEF LocalContext, Visit, Fits
<1>7. Agrees(read[Levels], add[Levels])
  BY <1>5
<1> HIDE DEF top, first, S
<1>8. Takes(read[Levels][first], add[Levels][top].cols)
  BY <1>6, <1>7 DEF Agrees
<1>. QED BY <1>1, <1>2, <1>8

-----------------------------------------------------------------------------
(* The steps of a row, one after the other.                                *)

\* run goes through the steps one after the other.
Runs(run, q, s, steps) ==
    /\ Run(q, s, steps) = run[Len(steps)] /\ run[0] = s
    /\ \A n \in 1..Len(steps) : run[n] = Do(q, run[n - 1], steps[n])

\* Run() is the last of a series of states, each reached by one more step.
LEMMA RunRounds ==
    ASSUME NEW q, NEW s, NEW X, NEW steps \in Seq(X)
    PROVE  \E run : Runs(run, q, s, steps)
<1> DEFINE Is(f, m) == f = [n \in 0..m |-> IF n = 0 THEN s ELSE Do(q, f[n - 1], steps[n])]
           S == {m \in Nat : \E f : Is(f, m)}
<1>0. Len(steps) \in Nat
  OBVIOUS
<1>1. 0 \in S
  <2> DEFINE f == [n \in 0..0 |-> s]
  <2>1. Is(f, 0)
    OBVIOUS
  <2>. QED BY <2>1
<1>2. ASSUME NEW m \in S PROVE m + 1 \in S
  <2>1. PICK f : Is(f, m)
    OBVIOUS
  <2> DEFINE g == [n \in 0..m + 1 |-> IF n = m + 1 THEN Do(q, f[m], steps[n]) ELSE f[n]]
  <2>2. m \in Nat
    OBVIOUS
  <2>3. ASSUME NEW n \in 0..m + 1
        PROVE  g[n] = IF n = 0 THEN s ELSE Do(q, g[n - 1], steps[n])
    <3>1. CASE n = m + 1
      <4>1. n # 0 /\ n - 1 = m /\ m \in 0..m + 1 /\ m # m + 1
        BY <2>2, <3>1
      <4>2. g[n - 1] = f[m]
        BY <4>1
      <4>3. g[n] = Do(q, f[m], steps[n])
        BY <3>1
      <4>. QED BY <4>1, <4>2, <4>3
    <3>2. CASE n # m + 1
      <4>1. n \in 0..m
        BY <2>2, <3>2
      <4>2. g[n] = f[n]
        BY <3>2
      <4>3. f[n] = IF n = 0 THEN s ELSE Do(q, f[n - 1], steps[n])
        BY <2>1, <4>1
      <4>4. n # 0 => g[n - 1] = f[n - 1]
        <5>1. n # 0 => n - 1 \in 0..m + 1 /\ n - 1 # m + 1
          BY <2>2, <4>1
        <5>. QED BY <5>1
      <4>. QED BY <4>2, <4>3, <4>4
    <3>. QED BY <3>1, <3>2
  <2>4. Is(g, m + 1)
    <3> HIDE DEF g
    <3>1. g = [n \in 0..m + 1 |-> g[n]]
      BY DEF g
    <3>. QED BY <2>3, <3>1
  <2> HIDE DEF g, Is
  <2>. QED BY <2>2, <2>4
<1>3. S = Nat
  <2> HIDE DEF S
  <2>1. S \in SUBSET Nat
    BY DEF S
  <2>. QED BY <1>1, <1>2, <2>1, NatSetInduction
<1>4. \E f : Is(f, Len(steps))
  <2> HIDE DEF Is
  <2>. QED BY <1>0, <1>3
<1> DEFINE run == CHOOSE f : Is(f, Len(steps))
<1>5. Is(run, Len(steps))
  BY <1>4
<1>6. Run(q, s, steps) = run[Len(steps)]
  BY DEF Run
<1> HIDE DEF run
<1>7. run[0] = s /\ \A n \in 1..Len(steps) : run[n] = Do(q, run[n - 1], steps[n])
  BY <1>0, <1>5
<1>. QED BY <1>6, <1>7 DEF Runs

\* Nothing is done for no step.
LEMMA RunNone ==
    ASSUME NEW q, NEW s
    PROVE  Run(q, s, <<>>) = s
<1>1. <<>> \in Seq(Nat) /\ Len(<<>>) = 0
  OBVIOUS
<1>2. PICK run : Runs(run, q, s, <<>>)
  BY <1>1, RunRounds
<1>. QED BY <1>1, <1>2 DEF Runs

\* One step is one call of Do().
LEMMA RunOne ==
    ASSUME NEW q, NEW s, NEW step
    PROVE  Run(q, s, <<step>>) = Do(q, s, step)
<1> DEFINE p == <<step>>
<1>1. p \in Seq({step}) /\ Len(p) = 1 /\ p[1] = step
  OBVIOUS
<1> HIDE DEF p
<1>2. PICK run : Runs(run, q, s, p)
  BY <1>1, RunRounds
<1>3. 1 \in 1..1 /\ 1 - 1 = 0
  OBVIOUS
<1>. QED BY <1>1, <1>2, <1>3 DEF Runs, p

\* What was thrown ends the row.
LEMMA RunFailed ==
    ASSUME NEW q, NEW s, Failed(s), NEW X, NEW steps \in Seq(X)
    PROVE  Run(q, s, steps) = s
<1>1. PICK run : Runs(run, q, s, steps)
  BY RunRounds
<1>2. Len(steps) \in Nat
  OBVIOUS
<1> DEFINE S == {n \in 0..Len(steps) : run[n] = s}
<1>3. 0 \in S
  BY <1>1, <1>2 DEF Runs
<1>4. ASSUME NEW n \in 0..Len(steps), n \in S, n + 1 <= Len(steps) PROVE n + 1 \in S
  <2>1. n + 1 \in 1..Len(steps) /\ (n + 1) - 1 = n /\ n + 1 \in 0..Len(steps)
    BY <1>2, <1>4
  <2>2. run[n + 1] = Do(q, s, steps[n + 1])
    BY <1>1, <1>4, <2>1 DEF Runs
  <2>. QED BY <2>1, <2>2 DEF Do
<1>5. Len(steps) \in S
  <2> HIDE DEF S
  <2>. QED BY <1>2, <1>3, <1>4, UpTo
<1>. QED BY <1>1, <1>5 DEF Runs

\* Steps after steps are done from where those end.
LEMMA RunConcat ==
    ASSUME NEW q, NEW s, NEW X, NEW a \in Seq(X), NEW b \in Seq(X)
    PROVE  Run(q, s, a \o b) = Run(q, Run(q, s, a), b)
<1> DEFINE c == a \o b
<1>1. /\ c \in Seq(X) /\ Len(c) = Len(a) + Len(b)
      /\ Len(a) \in Nat /\ Len(b) \in Nat
      /\ \A n \in 1..Len(a) : c[n] = a[n]
      /\ \A n \in 1..Len(b) : c[Len(a) + n] = b[n]
  OBVIOUS
<1> HIDE DEF c
<1>2. PICK ra : Runs(ra, q, s, a)
  BY RunRounds
<1>3. PICK rb : Runs(rb, q, Run(q, s, a), b)
  BY RunRounds
<1>4. PICK rc : Runs(rc, q, s, c)
  BY <1>1, RunRounds
<1> DEFINE S == {n \in 0..Len(a) : rc[n] = ra[n]}
           R == {n \in 0..Len(b) : rc[Len(a) + n] = rb[n]}
<1>5. Len(a) \in S
  <2>1. 0 \in S
    BY <1>1, <1>2, <1>4 DEF Runs
  <2>2. ASSUME NEW n \in 0..Len(a), n \in S, n + 1 <= Len(a) PROVE n + 1 \in S
    <3>1. n + 1 \in 1..Len(a) /\ n + 1 \in 1..Len(c) /\ (n + 1) - 1 = n
      BY <1>1, <2>2
    <3>2. /\ rc[n + 1] = Do(q, rc[n], c[n + 1])
          /\ ra[n + 1] = Do(q, ra[n], a[n + 1]) /\ c[n + 1] = a[n + 1]
      BY <1>1, <1>2, <1>4, <3>1 DEF Runs
    <3>. QED BY <2>2, <3>1, <3>2
  <2> HIDE DEF S
  <2>. QED BY <1>1, <2>1, <2>2, UpTo
<1>6. Len(b) \in R
  <2>1. 0 \in R
    <3>1. 0 \in 0..Len(b) /\ Len(a) + 0 = Len(a)
      BY <1>1
    <3>. QED BY <1>2, <1>3, <1>5, <3>1 DEF Runs
  <2>2. ASSUME NEW n \in 0..Len(b), n \in R, n + 1 <= Len(b) PROVE n + 1 \in R
    <3>1. /\ n + 1 \in 1..Len(b) /\ Len(a) + (n + 1) \in 1..Len(c) /\ (n + 1) - 1 = n
          /\ (Len(a) + (n + 1)) - 1 = Len(a) + n
      BY <1>1, <2>2
    <3>2. /\ rc[Len(a) + (n + 1)] = Do(q, rc[Len(a) + n], b[n + 1])
          /\ rb[n + 1] = Do(q, rb[n], b[n + 1])
      BY <1>1, <1>3, <1>4, <3>1 DEF Runs
    <3>. QED BY <2>2, <3>1, <3>2
  <2> HIDE DEF R
  <2>. QED BY <1>1, <2>1, <2>2, UpTo
<1>. QED BY <1>1, <1>3, <1>4, <1>6 DEF Runs, c

-----------------------------------------------------------------------------
\* The extractor's state is a record of these parts.
IsState(s) ==
    /\ s = [i |-> s.i, skip |-> s.skip, err |-> s.err, ctx |-> s.ctx, saved |-> s.saved,
            pending |-> s.pending, heap |-> s.heap]
    /\ s.i \in Nat

\* A step takes one cell or none.
LEMMA DoCounts ==
    ASSUME NEW q, NEW s, IsState(s), ~Failed(s), NEW step \in WalkStep
    PROVE  /\ IsState(Do(q, s, step))
           /\ ~Failed(Do(q, s, step)) =>
                 Do(q, s, step).i = IF step \in Taking THEN s.i + 1 ELSE s.i
<1> DEFINE r == Do(q, s, step)
           Good(x, n) == IsState(x) /\ (~Failed(x) => x.i = n)
<1>1. ASSUME NEW u, IsState(u), NEW what, what # "none" PROVE \A n : Good(Fail(u, what), n)
  BY <1>1 DEF IsState, Fail, Failed
<1>2. ASSUME NEW u, IsState(u), NEW class, NEW static PROVE Good(Emplace(u, class, static), u.i)
  BY <1>2 DEF IsState, Emplace, Fail, Failed
<1>3. ASSUME NEW u, IsState(u), NEW x, NEW value PROVE Good(Set(u, x, value), u.i)
  BY <1>3 DEF IsState, Set, Fail, Failed
<1>4. CASE step.do = "type"
  <2>1. r = MakeDynamic(q, s) /\ step \in Taking
    BY <1>4 DEF Do, Taking
  <2>2. CASE ~InRow(q, s)
    BY <1>1, <2>1, <2>2 DEF MakeDynamic
  <2>3. CASE InRow(q, s)
    <3> DEFINE next == [s EXCEPT !.i = @ + 1]
    <3>1. IsState(next) /\ next.i = s.i + 1
      BY DEF IsState
    <3>2. CASE CellAt(q, s) = Null \/ s.skip
      <4>1. r = [next EXCEPT !.skip = TRUE]
        BY <2>1, <2>3, <3>2 DEF MakeDynamic
      <4> HIDE DEF next, r
      <4>2. IsState(r) /\ r.i = next.i
        BY <3>1, <4>1 DEF IsState
      <4>. QED BY <2>1, <3>1, <4>2 DEF r, next
    <3>3. CASE ~(CellAt(q, s) = Null \/ s.skip)
      <4>1. r = EmplaceTyped(q, next, CellAt(q, s))
        BY <2>1, <2>3, <3>3 DEF MakeDynamic
      <4> HIDE DEF next
      <4>2. Good(EmplaceTyped(q, next, CellAt(q, s)), next.i)
        BY <1>1, <1>2, <3>1 DEF EmplaceTyped
      <4>. QED BY <2>1, <3>1, <4>1, <4>2
    <3>. QED BY <3>2, <3>3
  <2>. QED BY <2>2, <2>3
<1>5. CASE step.do = "make"
  <2>1. r = MakeStatic(q, s) /\ step \notin Taking
    BY <1>5 DEF Do, Taking
  <2>2. CASE ~InRow(q, s)
    BY <1>1, <2>1, <2>2 DEF MakeStatic
  <2>3. CASE InRow(q, s)
    <3>2. CASE CellAt(q, s) = Null \/ s.skip
      BY <2>1, <2>3, <3>2 DEF MakeStatic, IsState
    <3>3. CASE ~(CellAt(q, s) = Null \/ s.skip)
      <4>1. r = Emplace(s, s.ctx.table, TRUE)
        BY <2>1, <2>3, <3>3 DEF MakeStatic
      <4>2. Good(Emplace(s, s.ctx.table, TRUE), s.i)
        BY <1>2
      <4> HIDE DEF r
      <4>. QED BY <2>1, <4>1, <4>2 DEF r
    <3>. QED BY <3>2, <3>3
  <2>. QED BY <2>2, <2>3
<1>6. CASE step.do \in {"key", "data"}
  <2>1. r = ReadField(q, s, step.of) /\ step \in Taking
    BY <1>6 DEF Do, Taking
  <2>2. CASE ~InRow(q, s)
    BY <1>1, <2>1, <2>2 DEF ReadField
  <2>3. CASE InRow(q, s)
    <3> DEFINE next == [s EXCEPT !.i = @ + 1]
    <3>1. IsState(next) /\ next.i = s.i + 1
      BY DEF IsState
    <3>2. CASE s.skip
      <4>1. r = next
        BY <2>1, <2>3, <3>2 DEF ReadField
      <4>. QED BY <2>1, <3>1, <4>1
    <3>3. CASE ~s.skip
      <4>1. \E value : r = Set(next, step.of, value)
        BY <2>1, <2>3, <3>3 DEF ReadField
      <4> HIDE DEF next
      <4>. QED BY <1>3, <2>1, <3>1, <4>1
    <3>. QED BY <3>2, <3>3
  <2>. QED BY <2>2, <2>3
<1>7. CASE step.do = "part"
  BY <1>7 DEF Do, Taking, EnterPart, Save, IsState
<1>8. CASE step.do = "finish"
  BY <1>8 DEF Do, Taking, FinishPart, IsState
<1>9. CASE step.do = "many"
  BY <1>9 DEF Do, Taking, AddPending, IsState
<1>10. CASE step.do = "enter"
  <2>1. r = EnterDerived(q, s) /\ step \notin Taking
    BY <1>10 DEF Do, Taking
  <2>2. CASE ~InRow(q, s)
    BY <1>1, <2>1, <2>2 DEF EnterDerived
  <2>3. CASE InRow(q, s)
    BY <2>1, <2>3 DEF EnterDerived, Save, IsState
  <2>. QED BY <2>2, <2>3
<1>11. CASE step.do = "leave"
  BY <1>11 DEF Do, Taking, LeaveDerived, IsState
<1>. QED BY <1>4, <1>5, <1>6, <1>7, <1>8, <1>9, <1>10, <1>11 DEF WalkStep

\* So _index is the number of steps that took a cell.
LEMMA RunCounts ==
    ASSUME NEW q, NEW s, IsState(s), s.i = 0, ~Failed(s), NEW steps \in Seq(WalkStep)
    PROVE  ~Failed(Run(q, s, steps)) => Run(q, s, steps).i = Len(Among(steps, Taking))
<1>1. PICK run : Runs(run, q, s, steps)
  BY RunRounds
<1>2. PICK g : Gathers(g, WalkStep, steps, Taking)
  BY AmongGathers
<1>3. Len(steps) \in Nat
  OBVIOUS
<1> DEFINE S == {n \in 0..Len(steps) : ~Failed(run[n]) => IsState(run[n])
                                                          /\ run[n].i = Len(g[n])}
<1>4. 0 \in S
  BY <1>1, <1>2, <1>3 DEF Runs, Gathers
<1>5. ASSUME NEW n \in 0..Len(steps), n \in S, n + 1 <= Len(steps) PROVE n + 1 \in S
  <2>1. n + 1 \in 1..Len(steps) /\ (n + 1) - 1 = n /\ n + 1 \in 0..Len(steps)
    BY <1>3, <1>5
  <2>2. run[n + 1] = Do(q, run[n], steps[n + 1])
    BY <1>1, <2>1 DEF Runs
  <2>3. /\ g[n] \in Seq(WalkStep \cap Taking) /\ steps[n + 1] \in WalkStep
        /\ g[n + 1] = IF steps[n + 1] \in Taking THEN Append(g[n], steps[n + 1]) ELSE g[n]
    BY <1>2, <2>1 DEF Gathers
  <2>4. CASE Failed(run[n])
    <3>1. run[n + 1] = run[n]
      BY <2>2, <2>4 DEF Do
    <3>. QED BY <2>1, <2>4, <3>1
  <2>5. CASE ~Failed(run[n])
    <3>1. IsState(run[n]) /\ run[n].i = Len(g[n])
      BY <1>5, <2>5
    <3>2. /\ IsState(run[n + 1])
          /\ ~Failed(run[n + 1]) =>
                run[n + 1].i = IF steps[n + 1] \in Taking THEN run[n].i + 1 ELSE run[n].i
      BY <2>2, <2>3, <2>5, <3>1, DoCounts
    <3>3. Len(g[n + 1]) = IF steps[n + 1] \in Taking THEN Len(g[n]) + 1 ELSE Len(g[n])
      BY <2>3
    <3>. QED BY <2>1, <3>1, <3>2, <3>3
  <2>. QED BY <2>4, <2>5
<1>6. Len(steps) \in S
  <2> HIDE DEF S
  <2>. QED BY <1>3, <1>4, <1>5, UpTo
<1>. QED BY <1>1, <1>2, <1>6 DEF Runs, Gathers
=============================================================================
