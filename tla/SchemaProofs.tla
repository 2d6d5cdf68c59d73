---------------------------- MODULE SchemaProofs ----------------------------
(***************************************************************************)
(* What the recursive operators of HibernateSchema return, for every       *)
(* schema: the vectors of a table and the closures.                        *)
(*                                                                         *)
(* The library's induction theorems have operators for parameters, which   *)
(* the provers do not instantiate; the induction and the recursion on the  *)
(* natural numbers that are needed here are stated with sets and           *)
(* functions.                                                              *)
(***************************************************************************)
EXTENDS HibernateSchema, Integers, WellFoundedInduction, FiniteSetTheorems, TLAPS

\* A set of natural numbers that is not empty has a least element.
LEMMA LeastElement ==
    ASSUME NEW T \in SUBSET Nat, T # {}
    PROVE  \E x \in T : \A y \in T : x <= y
<1>1. IsWellFoundedOn({ss \in Nat \X Nat : ss[1] < ss[2]}, Nat)
  BY NatLessThanWellFounded DEF OpToRel
<1>2. PICK x \in T : \A y \in T : <<y, x>> \notin {ss \in Nat \X Nat : ss[1] < ss[2]}
  BY <1>1, WFMin
<1>3. ASSUME NEW y \in T PROVE x <= y
  <2>1. <<y, x>> \in Nat \X Nat
    OBVIOUS
  <2>2. ~(y < x)
    BY <1>2, <2>1
  <2>. QED BY <2>2
<1>. QED BY <1>3

\* A set that has 0 and with each number its successor has every number.
LEMMA NatSetInduction ==
    ASSUME NEW S \in SUBSET Nat, 0 \in S, \A n \in S : n + 1 \in S
    PROVE  S = Nat
<1> SUFFICES ASSUME Nat \ S # {} PROVE FALSE
  OBVIOUS
<1>1. PICK x \in Nat \ S : \A y \in Nat \ S : x <= y
  BY LeastElement
<1>2. x # 0
  OBVIOUS
<1>3. x - 1 \in S
  BY <1>1, <1>2
<1>. QED BY <1>3

\* f begins with v and goes on to f[n] by the n-th of the functions in step.
Unrolls(f, v, N, step) == f[0] = v /\ \A n \in 1..N : f[n] = step[n][f[n - 1]]

\* A recursive definition whose steps stay in T defines a function into T.
LEMMA RecursiveFunction ==
    ASSUME NEW N \in Nat, NEW T, NEW v \in T, NEW step \in [1..N -> [T -> T]]
    PROVE  \E f \in [0..N -> T] : Unrolls(f, v, N, step)
<1> DEFINE Good(f, m) == f[0] = v /\ \A n \in 1..m : f[n] = step[n][f[n - 1]]
           S == {m \in Nat : m <= N => \E f \in [0..m -> T] : Good(f, m)}
<1>1. 0 \in S
  <2>1. [n \in 0..0 |-> v] \in [0..0 -> T] /\ Good([n \in 0..0 |-> v], 0)
    OBVIOUS
  <2>. QED BY <2>1
<1>2. ASSUME NEW m \in Nat, m < N, NEW f \in [0..m -> T], Good(f, m)
      PROVE  \E g \in [0..(m + 1) -> T] : Good(g, m + 1)
  <2> DEFINE g == [n \in 0..(m + 1) |-> IF n = m + 1 THEN step[n][f[m]] ELSE f[n]]
  <2>1. f[m] \in T
    OBVIOUS
  <2>1a. m + 1 \in 1..N
    BY <1>2
  <2>2. step[m + 1][f[m]] \in T
    BY <2>1, <2>1a
  <2>3. ASSUME NEW n \in 0..(m + 1) PROVE g[n] \in T
    BY <2>2
  <2>4. g \in [0..(m + 1) -> T]
    BY <2>3
  <2>5. ASSUME NEW n \in 1..(m + 1) PROVE g[n] = step[n][g[n - 1]]
    <3>1. CASE n = m + 1
      <4>1. n \in 0..(m+1) /\ n - 1 \in 0..(m+1) /\ n - 1 = m /\ n - 1 # m + 1
        BY <3>1
      <4>. QED BY <3>1, <4>1
    <3>2. CASE n # m + 1
      <4>1. n \in 1..m /\ n - 1 \in 0..(m + 1) /\ n - 1 # m + 1 /\ n \in 0..(m + 1)
        BY <3>2
      <4>2. f[n] = step[n][f[n - 1]]
        BY <1>2, <4>1
      <4>. QED BY <4>2, <4>1, <3>2
    <3>. QED BY <3>1, <3>2
  <2>6. g[0] = v
    BY <1>2
  <2>. QED BY <2>4, <2>5, <2>6
<1>3. ASSUME NEW m \in S PROVE m + 1 \in S
  <2>1. CASE m + 1 <= N
    <3>1. PICK f \in [0..m -> T] : Good(f, m)
      BY <2>1
    <3>2. m \in Nat /\ m < N
      BY <2>1
    <3> HIDE DEF Good
    <3>3. \E g \in [0..(m + 1) -> T] : Good(g, m + 1)
      BY <1>2, <3>1, <3>2
    <3>. QED BY <3>3, <3>2
  <2>2. CASE ~(m + 1 <= N)
    BY <2>2
  <2>. QED BY <2>1, <2>2
<1>4. S = Nat
  <2> HIDE DEF S
  <2>1. S \in SUBSET Nat
    BY DEF S
  <2>. QED BY <1>1, <1>3, <2>1, NatSetInduction
<1>5. PICK f \in [0..N -> T] : Good(f, N)
  <2> HIDE DEF Good
  <2>. QED BY <1>4
<1>. QED BY <1>5 DEF Unrolls

\* What holds at 0 and is handed on by every step holds everywhere.
LEMMA RecursiveType ==
    ASSUME NEW N \in Nat, NEW T, NEW f, f[0] \in T,
           \A n \in 1..N : f[n - 1] \in T => f[n] \in T
    PROVE  \A n \in 0..N : f[n] \in T
<1> DEFINE S == {n \in Nat : n <= N => f[n] \in T}
<1>1. 0 \in S
  OBVIOUS
<1>2. ASSUME NEW n \in S PROVE n + 1 \in S
  <2>1. CASE n + 1 <= N
    <3>1. n + 1 \in 1..N /\ (n + 1) - 1 = n /\ n <= N
      BY <2>1
    <3>. QED BY <3>1
  <2>2. CASE ~(n + 1 <= N)
    BY <2>2
  <2>. QED BY <2>1, <2>2
<1>3. S = Nat
  <2> HIDE DEF S
  <2>1. S \in SUBSET Nat
    BY DEF S
  <2>. QED BY <1>1, <1>2, <2>1, NatSetInduction
<1>. QED BY <1>3

-----------------------------------------------------------------------------
\* A loop that appends the elements it tests for, round by round.
LEMMA AmongRounds ==
    ASSUME NEW X, NEW s \in Seq(X), NEW P
    PROVE  \E g : /\ Among(s, P) = g[Len(s)] /\ g[0] = <<>>
                  /\ \A n \in 0..Len(s) : g[n] \in Seq(X \cap P)
                  /\ \A n \in 1..Len(s) :
                        g[n] = IF s[n] \in P THEN Append(g[n - 1], s[n]) ELSE g[n - 1]
<1> DEFINE N == Len(s)
           T == Seq(X \cap P)
           D == [n \in 1..N |-> [p \in T |-> IF s[n] \in P THEN Append(p, s[n]) ELSE p]]
           Is(f) == f = [n \in 0..N |->
                  IF n = 0 THEN <<>>
                  ELSE IF s[n] \in P THEN Append(f[n - 1], s[n]) ELSE f[n - 1]]
<1>1. D \in [1..N -> [T -> T]]
  OBVIOUS
<1>2. N \in Nat /\ <<>> \in T
  OBVIOUS
<1>3. PICK f \in [0..N -> T] : f[0] = <<>> /\ \A n \in 1..N : f[n] = D[n][f[n - 1]]
  <2> HIDE DEF D, T, N
  <2>1. \E f \in [0..N -> T] : Unrolls(f, <<>>, N, D)
    BY <1>1, <1>2, RecursiveFunction
  <2>. QED BY <2>1 DEF Unrolls
<1>4. Is(f)
  <2>1. ASSUME NEW n \in 0..N, n # 0
        PROVE  D[n][f[n - 1]] = IF s[n] \in P THEN Append(f[n - 1], s[n]) ELSE f[n - 1]
    <3>1. n \in 1..N /\ n - 1 \in 0..N
      BY <1>2, <2>1
    <3>2. f[n - 1] \in T
      BY <1>3, <3>1
    <3>3. \A p \in T : D[n][p] = IF s[n] \in P THEN Append(p, s[n]) ELSE p
      BY <3>1
    <3> HIDE DEF D, T
    <3>. QED BY <3>2, <3>3
  <2>2. ASSUME NEW n \in 0..N
        PROVE f[n] = IF n = 0 THEN <<>> ELSE IF s[n] \in P THEN Append(f[n - 1], s[n]) ELSE f[n - 1]
    <3>1. n # 0 => n \in 1..N
      BY <1>2
    <3> HIDE DEF D, T
    <3>. QED BY <3>1, <2>1, <1>3
  <2>3. f = [n \in 0..N |-> f[n]]
    OBVIOUS
  <2> HIDE DEF D, T
  <2>. QED BY <2>2, <2>3
<1>5. PICK g : Is(g) /\ Among(s, P) = g[N]
  <2>1. Is(CHOOSE g : Is(g))
    BY <1>4
  <2>. QED BY <2>1 DEF Among
<1>6. g[0] = <<>>
  BY <1>5, <1>2
<1>7. ASSUME NEW n \in 1..N
      PROVE  g[n] = IF s[n] \in P THEN Append(g[n - 1], s[n]) ELSE g[n - 1]
  <2>1. n \in 0..N /\ n # 0
    BY <1>2
  <2>. QED BY <1>5, <2>1
<1>8. ASSUME NEW n \in 1..N, g[n - 1] \in T PROVE g[n] \in T
  <2>1. s[n] \in X
    OBVIOUS
  <2>2. ASSUME NEW p \in T, NEW x \in X \cap P PROVE Append(p, x) \in T
    OBVIOUS
  <2> HIDE DEF T
  <2>. QED BY <1>7, <1>8, <2>1, <2>2
<1> HIDE DEF T, Is
<1>9. \A n \in 0..N : g[n] \in T
  <2> HIDE DEF N
  <2>. QED BY <1>2, <1>6, <1>8, RecursiveType
<1>. QED BY <1>5, <1>6, <1>7, <1>9 DEF T

\* It returns a sequence of them,
LEMMA AmongType ==
    ASSUME NEW X, NEW s \in Seq(X), NEW P
    PROVE  Among(s, P) \in Seq(X \cap P)
<1>1. Len(s) \in 0..Len(s)
  OBVIOUS
<1>. QED BY <1>1, AmongRounds

\* and loses none.
LEMMA AmongRange ==
    ASSUME NEW X, NEW s \in Seq(X), NEW P
    PROVE  Range(Among(s, P)) = Range(s) \cap P
<1> DEFINE N == Len(s)
           T == Seq(X \cap P)
           Seen(n) == {s[m] : m \in 1..n} \cap P
<1>1. PICK g : /\ Among(s, P) = g[N] /\ g[0] = <<>>
               /\ \A n \in 0..N : g[n] \in T
               /\ \A n \in 1..N : g[n] = IF s[n] \in P THEN Append(g[n - 1], s[n]) ELSE g[n - 1]
  BY AmongRounds
<1>2. ASSUME NEW p \in T, NEW x \in X \cap P PROVE Range(Append(p, x)) = Range(p) \cup {x}
  <2>1. /\ Len(p) \in Nat /\ DOMAIN p = 1..Len(p)
        /\ DOMAIN Append(p, x) = 1..Len(p) + 1
        /\ \A m \in 1..Len(p) : Append(p, x)[m] = p[m]
        /\ Append(p, x)[Len(p) + 1] = x
    OBVIOUS
  <2> HIDE DEF T
  <2>2. \A m \in 1..Len(p) + 1 : m \in 1..Len(p) \/ m = Len(p) + 1
    BY <2>1
  <2>3. \A m \in 1..Len(p) : m \in 1..Len(p) + 1
    BY <2>1
  <2>4. Len(p) + 1 \in 1..Len(p) + 1
    BY <2>1
  <2>. QED BY <2>1, <2>2, <2>3, <2>4 DEF Range
<1> DEFINE S == {n \in Nat : n <= N => Range(g[n]) = Seen(n)}
<1>3. N \in Nat /\ \A n \in 1..N : s[n] \in X
  OBVIOUS
<1>4. 0 \in S
  <2>1. Range(<<>>) = {}
    BY DEF Range
  <2>2. 1..0 = {}
    OBVIOUS
  <2>. QED BY <1>1, <2>1, <2>2
<1>5. ASSUME NEW n \in S PROVE n + 1 \in S
  <2>1. CASE n + 1 <= N
    <3>1. n \in Nat /\ n \in 0..N /\ n + 1 \in 1..N /\ (n + 1) - 1 = n /\ n <= N
      BY <1>3, <2>1
    <3>2. Range(g[n]) = Seen(n) /\ g[n] \in T
      BY <1>1, <3>1
    <3>3. g[n + 1] = IF s[n + 1] \in P THEN Append(g[n], s[n + 1]) ELSE g[n]
      BY <1>1, <3>1
    <3>4. Seen(n + 1) = Seen(n) \cup ({s[n + 1]} \cap P)
      <4>1. 1..n + 1 = (1..n) \cup {n + 1}
        BY <3>1
      <4>. QED BY <4>1
    <3>5. s[n + 1] \in X
      BY <1>3, <3>1
    <3> HIDE DEF Seen, T, N
    <3>6. Range(g[n + 1]) = Seen(n + 1)
      <4>1. CASE s[n + 1] \in P
        <5>1. s[n + 1] \in X \cap P /\ {s[n + 1]} \cap P = {s[n + 1]}
          BY <3>5, <4>1
        <5>2. Range(Append(g[n], s[n + 1])) = Range(g[n]) \cup {s[n + 1]}
          BY <1>2, <3>2, <5>1
        <5>3. g[n + 1] = Append(g[n], s[n + 1])
          BY <3>3, <4>1
        <5>. QED BY <3>2, <3>4, <5>1, <5>2, <5>3
      <4>2. CASE s[n + 1] \notin P
        BY <3>2, <3>3, <3>4, <4>2
      <4>. QED BY <4>1, <4>2
    <3>. QED BY <3>1, <3>6
  <2>2. CASE ~(n + 1 <= N)
    BY <2>2
  <2>. QED BY <2>1, <2>2
<1>6. S = Nat
  <2> HIDE DEF S
  <2>1. S \in SUBSET Nat
    BY DEF S
  <2>. QED BY <1>4, <1>5, <2>1, NatSetInduction
<1>7. Range(g[N]) = Seen(N)
  BY <1>3, <1>6
<1>8. Seen(N) = Range(s) \cap P
  BY DEF Range
<1>. QED BY <1>1, <1>7, <1>8

\* The vectors of a table hold the fields of their kind.
LEMMA FieldVectors ==
    ASSUME NEW t \in Table
    PROVE  /\ OneFields[t] \in Seq({f \in Field : IsOne(f)})
           /\ ManyFields[t] \in Seq({f \in Field : IsMany(f)})
           /\ DataFields[t] \in Seq({f \in Field : IsData(f)})
<1>1. FieldsOf[t] \in Seq(Field)
  BY SchemaAssumption
<1>2. ASSUME NEW P \in SUBSET Field PROVE Among(FieldsOf[t], P) \in Seq(P)
  <2>1. Among(FieldsOf[t], P) \in Seq(Field \cap P)
    BY <1>1, AmongType
  <2>2. Field \cap P = P
    OBVIOUS
  <2>. QED BY <2>1, <2>2
<1> DEFINE ones == {f \in Field : IsOne(f)}
           manies == {f \in Field : IsMany(f)}
           datas == {f \in Field : IsData(f)}
<1>3. ones \in SUBSET Field /\ manies \in SUBSET Field /\ datas \in SUBSET Field
  OBVIOUS
<1>4. /\ OneFields[t] = Among(FieldsOf[t], ones)
      /\ ManyFields[t] = Among(FieldsOf[t], manies)
      /\ DataFields[t] = Among(FieldsOf[t], datas)
  BY DEF OneFields, ManyFields, DataFields
<1> HIDE DEF ones, manies, datas
<1>5. /\ OneFields[t] \in Seq(ones)
      /\ ManyFields[t] \in Seq(manies)
      /\ DataFields[t] \in Seq(datas)
  BY <1>2, <1>3, <1>4
<1>. QED BY <1>5 DEF ones, manies, datas

\* A finite set is listed by a sequence of its elements.
LEMMA SetToSeqType ==
    ASSUME NEW S, IsFiniteSet(S)
    PROVE  SetToSeq(S) \in Seq(S)
<1>1. PICK f \in Bijection(1..Cardinality(S), S) : TRUE
  BY FS_CardinalityType DEF ExistsBijection
<1>2. f \in [1..Cardinality(S) -> S] /\ IsInjective(f)
  BY <1>1 DEF Bijection, Injection, IsInjective
<1>3. Cardinality(S) \in Nat
  BY FS_CardinalityType
<1>4. SetToSeq(S) \in [1..Cardinality(S) -> S]
  BY <1>2 DEF SetToSeq
<1>. QED BY <1>3, <1>4

-----------------------------------------------------------------------------
\* One round of a closure: what the links of a set of keys lead to.
Round(links, A) == UNION {{k} \cup links[k] : k \in A}

\* The rounds of a closure.
LEMMA ClosureRounds ==
    ASSUME NEW S, NEW X, IsFiniteSet(X), NEW links \in [X -> SUBSET X]
    PROVE  \E g : /\ Closure(S, X, links) = g[Cardinality(X)]
                  /\ g[0] = S \cap X
                  /\ \A n \in 1..Cardinality(X) :
                        g[n] = Round(links, g[n - 1])
<1> DEFINE N == Cardinality(X)
           T == SUBSET X
           D == [n \in 1..N |-> [A \in T |-> UNION {{k} \cup links[k] : k \in A}]]
           Is(f) == f = [n \in 0..N |->
                  IF n = 0 THEN S \cap X ELSE UNION {{k} \cup links[k] : k \in f[n - 1]}]
<1>1. IsFiniteSet(X) /\ N \in Nat /\ S \cap X \in T
  BY FS_CardinalityType
<1>2. D \in [1..N -> [T -> T]]
  OBVIOUS
<1>3. PICK f \in [0..N -> T] : f[0] = S \cap X /\ \A n \in 1..N : f[n] = D[n][f[n - 1]]
  <2> HIDE DEF D, T, N
  <2>1. \E f \in [0..N -> T] : Unrolls(f, S \cap X, N, D)
    BY <1>1, <1>2, RecursiveFunction
  <2>. QED BY <2>1 DEF Unrolls
<1>4. Is(f)
  <2>1. ASSUME NEW n \in 1..N PROVE f[n] = UNION {{k} \cup links[k] : k \in f[n - 1]}
    <3>1. n - 1 \in 0..N
      BY <1>1
    <3>2. f[n - 1] \in T
      BY <1>3, <3>1
    <3>3. f[n] = D[n][f[n - 1]]
      BY <1>3
    <3>4. \A A \in T : D[n][A] = UNION {{k} \cup links[k] : k \in A}
      OBVIOUS
    <3> HIDE DEF D, T
    <3>. QED BY <3>2, <3>3, <3>4
  <2>2. ASSUME NEW n \in 0..N
        PROVE f[n] = IF n = 0 THEN S \cap X ELSE UNION {{k} \cup links[k] : k \in f[n - 1]}
    <3>1. n # 0 => n \in 1..N
      BY <1>1
    <3>. QED BY <3>1, <2>1, <1>3
  <2>3. f = [n \in 0..N |-> f[n]]
    OBVIOUS
  <2> HIDE DEF D, T
  <2>. QED BY <2>2, <2>3
<1>5. PICK g : Is(g) /\ Closure(S, X, links) = g[N]
  <2>1. Is(CHOOSE g : Is(g))
    BY <1>4
  <2>. QED BY <2>1 DEF Closure
<1>6. g[0] = S \cap X
  BY <1>1, <1>5
<1>7. ASSUME NEW n \in 1..N PROVE g[n] = UNION {{k} \cup links[k] : k \in g[n - 1]}
  <2>1. n \in 0..N /\ n # 0
    BY <1>1
  <2>. QED BY <1>5, <2>1
<1>. QED BY <1>5, <1>6, <1>7 DEF Round

\* A closure is closed: as many rounds as there are keys reach all there are to
\* reach.
LEMMA ClosureClosed ==
    ASSUME NEW S, NEW X, IsFiniteSet(X), NEW links \in [X -> SUBSET X]
    PROVE  /\ Closure(S, X, links) \subseteq X
           /\ S \cap X \subseteq Closure(S, X, links)
           /\ \A k \in Closure(S, X, links) : links[k] \subseteq Closure(S, X, links)
<1> DEFINE N == Cardinality(X)
<1>1. IsFiniteSet(X) /\ N \in Nat
  BY FS_CardinalityType
<1>2. PICK g : /\ Closure(S, X, links) = g[N]
               /\ g[0] = S \cap X
               /\ \A n \in 1..N : g[n] = Round(links, g[n - 1])
  <2> HIDE DEF N
  <2>. QED BY ClosureRounds DEF N
<1>3. /\ g[N] \subseteq X /\ S \cap X \subseteq g[N]
      /\ \A k \in g[N] : links[k] \subseteq g[N]
  <2> DEFINE U == {A \in SUBSET X : S \cap X \subseteq A}
             Closed(A) == \A k \in A : links[k] \subseteq A
  <2>3. ASSUME NEW n \in 1..N, g[n - 1] \in U PROVE g[n] \in U /\ g[n - 1] \subseteq g[n]
    BY <1>2, <2>3 DEF Round
  <2>4. \A n \in 0..N : g[n] \in U
    <3>1. g[0] \in U
      BY <1>2
    <3> HIDE DEF U, N
    <3>. QED BY <1>1, <2>3, <3>1, RecursiveType
  <2>5. ASSUME NEW n \in 1..N, Closed(g[n - 1]) PROVE Closed(g[n])
    <3>1. \A A : (\A k \in A : links[k] \subseteq A) => UNION {{k} \cup links[k] : k \in A} = A
      OBVIOUS
    <3>2. g[n] = g[n - 1]
      BY <1>2, <2>5, <3>1 DEF Round
    <3>. QED BY <2>5, <3>2
  <2>6. ASSUME NEW n \in 1..N, ~Closed(g[n - 1])
        PROVE  Cardinality(g[n]) >= Cardinality(g[n - 1]) + 1
    <3>0. n - 1 \in 0..N /\ n \in 0..N
      BY <1>1
    <3>1. g[n - 1] \in SUBSET X /\ g[n] \in SUBSET X
      BY <2>4, <3>0
    <3>2. PICK k \in g[n - 1] : ~(links[k] \subseteq g[n - 1])
      BY <2>6
    <3>2a. PICK z \in links[k] : z \notin g[n - 1]
      BY <3>2
    <3>3. z \in g[n] /\ g[n - 1] \cup {z} \subseteq g[n]
      <4>1. \A A : \A x \in A : {x} \cup links[x] \subseteq UNION {{y} \cup links[y] : y \in A}
        OBVIOUS
      <4>2. \A A : A \subseteq UNION {{y} \cup links[y] : y \in A}
        OBVIOUS
      <4>. QED BY <1>2, <3>2, <3>2a, <4>1, <4>2 DEF Round
    <3>4. IsFiniteSet(g[n - 1]) /\ IsFiniteSet(g[n])
      BY <1>1, <3>1, FS_Subset
    <3>5. /\ Cardinality(g[n - 1] \cup {z}) = Cardinality(g[n - 1]) + 1
          /\ IsFiniteSet(g[n - 1] \cup {z})
      BY <3>2a, <3>4, FS_AddElement
    <3>6. Cardinality(g[n - 1] \cup {z}) <= Cardinality(g[n])
      BY <3>3, <3>4, FS_Subset
    <3>7. Cardinality(g[n - 1]) \in Nat /\ Cardinality(g[n]) \in Nat
      BY <3>4, FS_CardinalityType
    <3>. QED BY <3>5, <3>6, <3>7
  <2> DEFINE Done(n) == Closed(g[n]) \/ Cardinality(g[n]) >= n
             P == {n \in Nat : n <= N => Done(n)}
  <2> HIDE DEF U, N, Closed
  <2>7. \A n \in 0..N : Cardinality(g[n]) \in Nat /\ g[n] \in SUBSET X
    BY <1>1, <2>4, FS_Subset, FS_CardinalityType DEF U
  <2>8. 0 \in P
    BY <1>1, <2>7
  <2>9. ASSUME NEW n \in P PROVE n + 1 \in P
    <3>1. CASE n + 1 <= N
      <4>1. n \in Nat /\ n + 1 \in 1..N /\ (n + 1) - 1 = n /\ n \in 0..N /\ n + 1 \in 0..N
        BY <1>1, <3>1
      <4>2. Done(n)
        BY <1>1, <4>1
      <4>3. CASE Closed(g[n])
        BY <2>5, <4>1, <4>3
      <4>4. CASE ~Closed(g[n])
        <5>1. Cardinality(g[n + 1]) >= Cardinality(g[n]) + 1
          BY <2>6, <4>1, <4>4
        <5>2. Cardinality(g[n]) >= n
          BY <4>2, <4>4
        <5>3. Cardinality(g[n + 1]) >= n + 1
          BY <2>7, <4>1, <5>1, <5>2
        <5>. QED BY <4>1, <5>3
      <4>. QED BY <4>3, <4>4
    <3>2. CASE ~(n + 1 <= N)
      BY <3>2
    <3>. QED BY <3>1, <3>2
  <2>10. P = Nat
    <3> HIDE DEF P
    <3>1. P \in SUBSET Nat
      BY DEF P
    <3>. QED BY <2>8, <2>9, <3>1, NatSetInduction
  <2>11. Done(N) /\ N \in 0..N
    BY <1>1, <2>10
  <2>12. CASE Closed(g[N])
    BY <2>4, <2>11, <2>12 DEF U, Closed
  <2>13. CASE ~Closed(g[N])
    <3>1. Cardinality(g[N]) >= Cardinality(X) /\ g[N] \in SUBSET X
      BY <2>7, <2>11, <2>13 DEF N
    <3>2. Cardinality(g[N]) <= Cardinality(X)
      BY <1>1, <3>1, FS_Subset
    <3>3. g[N] = X
      BY <1>1, <2>7, <2>11, <3>1, <3>2, FS_Subset DEF N
    <3>. QED BY <3>3
  <2>. QED BY <2>12, <2>13
<1>. QED BY <1>2, <1>3

\* Nothing is in a closure but what its links lead to.
LEMMA ClosureLeast ==
    ASSUME NEW S, NEW X, IsFiniteSet(X), NEW links \in [X -> SUBSET X],
           NEW Y \in SUBSET X, S \cap X \subseteq Y, \A k \in Y : links[k] \subseteq Y
    PROVE  Closure(S, X, links) \subseteq Y
<1> DEFINE N == Cardinality(X)
<1>1. N \in Nat
  BY FS_CardinalityType
<1>2. PICK g : /\ Closure(S, X, links) = g[N]
               /\ g[0] = S \cap X
               /\ \A n \in 1..N : g[n] = Round(links, g[n - 1])
  <2> HIDE DEF N
  <2>. QED BY ClosureRounds DEF N
<1>3. g[0] \in SUBSET Y
  BY <1>2
<1>4. ASSUME NEW n \in 1..N, g[n - 1] \in SUBSET Y PROVE g[n] \in SUBSET Y
  BY <1>2, <1>4 DEF Round
<1> HIDE DEF N
<1>5. \A n \in 0..N : g[n] \in SUBSET Y
  BY <1>1, <1>3, <1>4, RecursiveType
<1>. QED BY <1>1, <1>2, <1>5

=============================================================================
