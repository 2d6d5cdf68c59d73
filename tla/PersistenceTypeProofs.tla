----------------------- MODULE PersistenceTypeProofs -----------------------
(***************************************************************************)
(* The call stack of the create/update/destroy engine and the types of its *)
(* variables, for every schema, every set of objects and any faults.       *)
(*                                                                         *)
(* Types are not inductive by themselves: the key a create() reports is a  *)
(* key only because the function it called has set it, the field a cleanup *)
(* follows is one because the loop that called it found it, and a counter  *)
(* that is counted down stays a number because it is the number of locks.  *)
(* EngineInv says what the frames of the stack know of one another.        *)
(***************************************************************************)
EXTENDS PersistenceSafety, SchemaProofs

\* The function of frame c has called the one of frame f.
Called(c, f) ==
    \/ /\ c.kind = "apply" /\ c.pc = "end"
       /\ f.kind = "exec" /\ f.obj = c.obj /\ f.table = ObjTable[c.obj]
       /\ c.strict => f.ctx.upd = c.ctx.upd
    \/ /\ c.kind = "each" /\ c.pc = "next"
       /\ f.kind = "apply" /\ c.n \in 1..Len(c.objs) /\ f.obj = c.objs[c.n]
       /\ c.strict => f.strict /\ f.ctx.upd = c.ctx.upd
    \/ c.kind = "exec" /\ c.pc = "one" /\ f.kind = "exec"
    \/ c.kind = "exec" /\ c.pc = "after" /\ f.kind = "apply"
    \/ c.kind = "exec" /\ c.pc = "cleanup" /\ f.kind = "each"
    \/ c.kind = "exec" /\ c.pc = "many" /\ f.kind = "cleanup"
    \/ c.kind = "cleanup" /\ f.kind = "cleanup"
    \/ c.kind = "destroy" /\ c.pc = "end" /\ f.kind = "cleanup"

\* The function of frame f is the call itself.
Outermost(f, c) ==
    /\ c.result = "none"
    /\ \/ /\ f.kind = "apply" /\ c.op \in {"create", "update"}
          /\ c.objs = <<f.obj>> /\ f.strict /\ f.ctx.upd = (c.op = "update")
       \/ /\ f.kind = "each" /\ c.op \in {"create", "update"}
          /\ c.objs = f.objs /\ f.strict /\ f.ctx.upd = (c.op = "update")
       \/ f.kind = "destroy" /\ c.op = "destroy"

\* The stack is a chain of calls that ends with the client's.
Shape ==
    /\ \A n \in 1..Len(stack) - 1 : Called(stack[n + 1], stack[n])
    /\ stack # <<>> => Outermost(stack[Len(stack)], call)

\* An object has the key of its own class.
HasKey(keys, o) == keys[o][ObjTable[o]] # Null

\* A frame has a primary key once it has passed the first step, and its object
\* knows it once the row is written; the elements a container has gone on from
\* have keys.
FrameSettled(f, keys) ==
    /\ f.kind = "exec" =>
          /\ f.pc # "key" => f.pk \in Key
          /\ f.pc \in {"many", "cleanup"} => keys[f.obj][f.table] # Null
          /\ f.pc = "cleanup" => f.i \in DOMAIN ManyFields[f.table]
    /\ f.kind = "each" =>
          /\ f.n <= Len(f.objs)
          /\ f.strict /\ ~f.ctx.upd => \A m \in 1..f.n - 1 : HasKey(keys, f.objs[m])

\* The function that runs: what it has called has set the keys.
TopSettled(f, keys) ==
    /\ f.kind = "apply" /\ f.pc = "end" /\ f.strict /\ ~f.ctx.upd => HasKey(keys, f.obj)
    /\ f.kind = "each" /\ f.strict /\ ~f.ctx.upd => \A m \in 1..f.n : HasKey(keys, f.objs[m])

Settled ==
    /\ \A n \in DOMAIN stack : FrameSettled(stack[n], key)
    /\ stack # <<>> => TopSettled(Top, key)

EngineInv == TypeOK /\ LocksMatchStack /\ Shape /\ Settled

-----------------------------------------------------------------------------
\* A DELETE leaves a database.
LEMMA DeleteRowsType ==
    ASSUME NEW d \in [Key -> Row \cup {NoRow}], NEW S
    PROVE  DeleteRows(d, S) \in [Key -> Row \cup {NoRow}]
<1> DEFINE gone == Closure(Closure(S, Key, [k \in Key |-> Joined(d, k)]),
                           Key, [k \in Key |-> Cascaded(d, k)])
           col(k) == [f \in Field |-> IF ~IsData(f) /\ d[k].col[f] \in gone
                                      THEN Null ELSE d[k].col[f]]
<1>1. ASSUME NEW k \in Key, d[k] # NoRow
      PROVE  [d[k] EXCEPT !.col = col(k)] \in Row
  <2>1. d[k] \in Row
    BY <1>1
  <2> HIDE DEF gone
  <2>2. col(k) \in [Field -> Key \cup Val \cup {Null}]
    BY <2>1 DEF Row
  <2> HIDE DEF col
  <2>. QED BY <2>1, <2>2 DEF Row
<1>. QED BY <1>1 DEF DeleteRows

Weight(f) == IF Locking(f) THEN 1 ELSE 0

\* The locks of a stack are a number.
LEMMA LocksOfType ==
    ASSUME NEW s \in Seq(Frame)
    PROVE  /\ IsFiniteSet({n \in DOMAIN s : Locking(s[n])})
           /\ LocksOf(s) \in Nat
<1>1. IsFiniteSet(1..Len(s))
  BY FS_Interval
<1>2. {n \in DOMAIN s : Locking(s[n])} \in SUBSET (1..Len(s))
  OBVIOUS
<1>3. IsFiniteSet({n \in DOMAIN s : Locking(s[n])})
  BY <1>1, <1>2, FS_Subset
<1>. QED BY <1>3, FS_CardinalityType DEF LocksOf

\* The locks of two stacks put together are those of both.
LEMMA LocksOfConcat ==
    ASSUME NEW a \in Seq(Frame), NEW b \in Seq(Frame)
    PROVE  LocksOf(a \o b) = LocksOf(a) + LocksOf(b)
<1> DEFINE A == {n \in DOMAIN a : Locking(a[n])}
           B == {n \in DOMAIN b : Locking(b[n])}
           C == {n \in DOMAIN (a \o b) : Locking((a \o b)[n])}
           D == C \ A
           shift == [n \in B |-> n + Len(a)]
<1>1. A \subseteq C /\ C = A \cup D /\ A \cap D = {}
  OBVIOUS
<1>2. shift \in Bijection(B, D)
  <2>1. ASSUME NEW n \in B PROVE shift[n] \in D
    OBVIOUS
  <2>2. ASSUME NEW m \in D PROVE m - Len(a) \in B /\ shift[m - Len(a)] = m
    OBVIOUS
  <2>3. ASSUME NEW m \in B, NEW n \in B, shift[m] = shift[n] PROVE m = n
    BY <2>3
  <2> HIDE DEF B, D
  <2>4. shift \in [B -> D] /\ \A m \in D : \E n \in B : shift[n] = m
    BY <2>1, <2>2
  <2>. QED BY <2>3, <2>4 DEF Bijection, Injection, Surjection, IsInjective
<1>3. IsFiniteSet(A) /\ IsFiniteSet(B)
  BY LocksOfType
<1> HIDE DEF A, B, C, D, shift
<1>4. IsFiniteSet(D) /\ Cardinality(D) = Cardinality(B)
  BY <1>2, <1>3, FS_Bijection DEF ExistsBijection
<1>5. Cardinality(C) = Cardinality(A) + Cardinality(D) - Cardinality(A \cap D)
  BY <1>1, <1>3, <1>4, FS_Union
<1>6. Cardinality(A) \in Nat /\ Cardinality(D) \in Nat /\ Cardinality(A \cap D) = 0
  BY <1>1, <1>3, <1>4, FS_CardinalityType, FS_EmptySet
<1>7. Cardinality(C) = Cardinality(A) + Cardinality(B)
  BY <1>4, <1>5, <1>6
<1>. QED BY <1>7 DEF A, B, C, LocksOf

\* A frame has one lock or none.
LEMMA LocksOfOne ==
    ASSUME NEW f \in Frame
    PROVE  LocksOf(<<f>>) = Weight(f)
<1>1. DOMAIN <<f>> = {1} /\ <<f>>[1] = f
  OBVIOUS
<1>2. {n \in DOMAIN <<f>> : Locking(<<f>>[n])} = IF Locking(f) THEN {1} ELSE {}
  BY <1>1
<1>. QED BY <1>2, FS_EmptySet, FS_Singleton DEF LocksOf, Weight

\* A stack without locking frames has no locks.
LEMMA LocksOfNone ==
    ASSUME NEW s \in Seq(Frame), \A n \in DOMAIN s : ~Locking(s[n])
    PROVE  LocksOf(s) = 0
<1>1. {n \in DOMAIN s : Locking(s[n])} = {}
  OBVIOUS
<1>. QED BY <1>1, FS_EmptySet DEF LocksOf

\* The head of the stack and the rest of it.
LEMMA StackParts ==
    ASSUME TypeOK, ~Idle
    PROVE  /\ Top \in Frame /\ Rest \in Seq(Frame)
           /\ stack = <<Top>> \o Rest
           /\ Len(stack) = Len(Rest) + 1
           /\ Top = stack[1]
           /\ \A n \in 1..Len(Rest) : Rest[n] = stack[n + 1]
           /\ LocksOf(stack) = Weight(Top) + LocksOf(Rest)
<1>1. stack \in Seq(Frame) /\ stack # <<>>
  BY DEF TypeOK, Idle
<1> HIDE DEF Frame
<1>2. /\ Top \in Frame /\ Rest \in Seq(Frame)
      /\ stack = <<Top>> \o Rest
      /\ Len(stack) = Len(Rest) + 1
      /\ Top = stack[1]
      /\ \A n \in 1..Len(Rest) : Rest[n] = stack[n + 1]
  BY <1>1 DEF Top, Rest
<1>3. <<Top>> \in Seq(Frame)
  BY <1>2
<1>4. LocksOf(stack) = LocksOf(<<Top>>) + LocksOf(Rest)
  BY <1>2, <1>3, LocksOfConcat
<1>. QED BY <1>2, <1>4, LocksOfOne

-----------------------------------------------------------------------------
\* No object loses a key.
KeysGrow == \A o \in Obj, t \in Table : key[o][t] # Null => key'[o][t] # Null

\* What every step has to show of the stack.
StackInv == stack \in Seq(Frame) /\ counter \in Nat /\ LocksMatchStack /\ Shape /\ Settled

\* What a frame knows it still knows when more keys are set.
LEMMA FrameSettledGrows ==
    ASSUME KeysGrow, ObjTable \in [Obj -> Table], NEW f \in Frame, FrameSettled(f, key)
    PROVE  FrameSettled(f, key')
<1>1. f.kind = "exec" => f.obj \in Obj /\ f.table \in Table
  BY DEF Frame, ApplyFrames, EachFrames, ExecFrames, CleanupFrames, DestroyFrames
<1>2. f.kind = "each" => f.objs \in Seq(Obj) /\ f.n \in Nat
  BY DEF Frame, ApplyFrames, EachFrames, ExecFrames, CleanupFrames, DestroyFrames
<1>3. ASSUME f.kind = "each", f.n <= Len(f.objs), NEW m \in 1..f.n - 1,
             HasKey(key, f.objs[m])
      PROVE  HasKey(key', f.objs[m])
  <2>1. f.objs[m] \in Obj
    BY <1>2, <1>3
  <2>. QED BY <1>3, <2>1 DEF HasKey, KeysGrow
<1>. QED BY <1>1, <1>3 DEF FrameSettled, KeysGrow

\* The head of the stack is replaced by other frames.
LEMMA StackReplaced ==
    ASSUME EngineInv, ~Idle, UNCHANGED <<call, held>>, KeysGrow,
           NEW front \in Seq(Frame), front # <<>>,
           stack' = front \o Rest,
           \A n \in 1..Len(front) - 1 : Called(front[n + 1], front[n]),
           \A c \in Frame : Called(c, Top) => Called(c, front[Len(front)]),
           Outermost(Top, call) => Outermost(front[Len(front)], call),
           \A n \in DOMAIN front : FrameSettled(front[n], key'),
           TopSettled(front[1], key'),
           counter' = counter + LocksOf(front) - Weight(Top)
    PROVE  StackInv'
<1>1. /\ Top \in Frame /\ Rest \in Seq(Frame)
      /\ Len(stack) = Len(Rest) + 1
      /\ Top = stack[1]
      /\ \A n \in 1..Len(Rest) : Rest[n] = stack[n + 1]
      /\ LocksOf(stack) = Weight(Top) + LocksOf(Rest)
  BY StackParts DEF EngineInv
<1> HIDE DEF Frame
<1>2. stack' \in Seq(Frame)
  BY <1>1
<1>3. /\ Len(stack') = Len(front) + Len(Rest) /\ Len(front) \in Nat \ {0} /\ Len(Rest) \in Nat
      /\ \A n \in 1..Len(front) : stack'[n] = front[n]
      /\ \A n \in 1..Len(Rest) : stack'[n + Len(front)] = Rest[n]
  BY <1>1
<1>4. LocksMatchStack' /\ counter' \in Nat
  <2>1. LocksOf(stack') = LocksOf(front) + LocksOf(Rest)
    BY <1>1, LocksOfConcat
  <2>2. /\ LocksOf(front) \in Nat /\ LocksOf(Rest) \in Nat /\ LocksOf(stack) \in Nat
        /\ Weight(Top) \in Nat
    BY <1>1, LocksOfType DEF EngineInv, TypeOK, Weight
  <2>3. counter = Weight(Top) + LocksOf(Rest) + (IF held THEN 1 ELSE 0)
    BY <1>1 DEF EngineInv, LocksMatchStack
  <2>4. counter' = LocksOf(front) + LocksOf(Rest) + (IF held THEN 1 ELSE 0)
    BY <2>2, <2>3
  <2>. QED BY <2>1, <2>2, <2>4 DEF LocksMatchStack
<1>5. ASSUME NEW n \in 1..Len(stack') - 1 PROVE Called(stack'[n + 1], stack'[n])
  <2>1. CASE n < Len(front)
    <3>1. n \in 1..Len(front) - 1 /\ n \in 1..Len(front) /\ n + 1 \in 1..Len(front)
      BY <1>3, <2>1
    <3>. QED BY <1>3, <3>1
  <2>2. CASE n = Len(front)
    <3>1. 1 \in 1..Len(Rest) /\ n \in 1..Len(front)
      BY <1>3, <2>2
    <3>2. stack'[n + 1] = Rest[1] /\ Rest[1] = stack[2] /\ stack'[n] = front[Len(front)]
      BY <1>1, <1>3, <2>2, <3>1
    <3>3. Called(stack[2], Top)
      <4>1. 1 \in 1..Len(stack) - 1
        BY <1>1, <1>3, <3>1
      <4>. QED BY <1>1, <4>1 DEF EngineInv, Shape
    <3>4. stack[2] \in Frame
      BY <1>1, <3>1, <3>2
    <3>. QED BY <3>2, <3>3, <3>4
  <2>3. CASE n > Len(front)
    <3> DEFINE m == n - Len(front)
    <3>1. m \in 1..Len(Rest) /\ m + 1 \in 1..Len(Rest) /\ n = m + Len(front)
      BY <1>3, <2>3
    <3>2. stack'[n] = Rest[m] /\ stack'[n + 1] = Rest[m + 1]
      BY <1>3, <3>1
    <3>3. Called(Rest[m + 1], Rest[m])
      <4>1. m + 1 \in 1..Len(stack) - 1
        BY <1>1, <1>3, <3>1
      <4>2. Called(stack[(m + 1) + 1], stack[m + 1])
        BY <4>1 DEF EngineInv, Shape
      <4>. QED BY <1>1, <3>1, <4>2
    <3>. QED BY <3>2, <3>3
  <2>. QED BY <1>3, <2>1, <2>2, <2>3
<1>6. Outermost(stack'[Len(stack')], call')
  <2>1. Outermost(stack[Len(stack)], call) /\ call' = call
    BY DEF EngineInv, Shape, Idle
  <2>2. CASE Rest = <<>>
    <3>1. Len(stack) = 1 /\ Len(stack') = Len(front) /\ Len(front) \in 1..Len(front)
      BY <1>1, <1>3, <2>2
    <3>. QED BY <1>1, <1>3, <2>1, <3>1
  <2>3. CASE Rest # <<>>
    <3>1. Len(Rest) \in 1..Len(Rest) /\ Len(stack') = Len(Rest) + Len(front)
      BY <1>1, <1>3, <2>3
    <3>2. stack'[Len(stack')] = Rest[Len(Rest)] /\ Rest[Len(Rest)] = stack[Len(stack)]
      BY <1>1, <1>3, <3>1
    <3>. QED BY <2>1, <3>2
  <2>. QED BY <2>2, <2>3
<1>7. ASSUME NEW n \in DOMAIN stack' PROVE FrameSettled(stack'[n], key')
  <2>1. CASE n \in 1..Len(front)
    BY <1>3, <2>1
  <2>2. CASE n > Len(front)
    <3> DEFINE m == n - Len(front)
    <3>0. n \in 1..Len(stack')
      BY <1>2
    <3>1. m \in 1..Len(Rest) /\ n = m + Len(front) /\ m + 1 \in 1..Len(stack)
      BY <1>1, <1>3, <2>2, <3>0
    <3>2. stack'[n] = stack[m + 1]
      BY <1>1, <1>3, <3>1
    <3>3. FrameSettled(stack[m + 1], key) /\ stack[m + 1] \in Frame
      BY <1>1, <3>1 DEF EngineInv, Settled, TypeOK
    <3>. QED BY <3>2, <3>3, FrameSettledGrows, PersistenceAssumption
  <2>. QED BY <1>2, <1>3, <2>1, <2>2
<1>8. TopSettled(Top', key')
  <2>1. Top' = front[1]
    BY <1>1, <1>2, <1>3 DEF Top
  <2>. QED BY <2>1
<1>. QED BY <1>2, <1>4, <1>5, <1>6, <1>7, <1>8 DEF StackInv, Shape, Settled

\* The function that runs goes on.
LEMMA GotoKeeps ==
    ASSUME EngineInv, ~Idle, UNCHANGED <<call, held>>, KeysGrow,
           NEW frame \in Frame, Goto(frame),
           \A c \in Frame : Called(c, Top) => Called(c, frame),
           Outermost(Top, call) => Outermost(frame, call),
           FrameSettled(frame, key'), TopSettled(frame, key'),
           counter' = counter + Weight(frame) - Weight(Top)
    PROVE  StackInv'
<1> DEFINE front == <<frame>>
<1>1. /\ front \in Seq(Frame) /\ front # <<>> /\ Len(front) = 1 /\ DOMAIN front = {1}
      /\ front[1] = frame
  OBVIOUS
<1>2. stack' = front \o Rest
  BY DEF Goto
<1>3. LocksOf(front) = Weight(frame)
  BY LocksOfOne
<1> HIDE DEF front
<1>4. \A n \in 1..Len(front) - 1 : Called(front[n + 1], front[n])
  BY <1>1
<1>. QED BY <1>1, <1>2, <1>3, <1>4, StackReplaced

\* The function that runs calls another.
LEMMA PushKeeps ==
    ASSUME EngineInv, ~Idle, UNCHANGED <<call, held>>, KeysGrow,
           NEW frame \in Frame, NEW inner \in Frame, Push(inner, frame),
           Called(frame, inner),
           \A c \in Frame : Called(c, Top) => Called(c, frame),
           Outermost(Top, call) => Outermost(frame, call),
           FrameSettled(frame, key'), FrameSettled(inner, key'), TopSettled(inner, key'),
           counter' = counter + Weight(frame) + Weight(inner) - Weight(Top)
    PROVE  StackInv'
<1> DEFINE front == <<inner, frame>>
<1>1. /\ front \in Seq(Frame) /\ front # <<>> /\ Len(front) = 2 /\ DOMAIN front = {1, 2}
      /\ front[1] = inner /\ front[2] = frame
  OBVIOUS
<1>2. stack' = front \o Rest
  BY DEF Push
<1>3. LocksOf(front) = Weight(frame) + Weight(inner)
  <2>1. <<inner>> \in Seq(Frame) /\ <<frame>> \in Seq(Frame) /\ front = <<inner>> \o <<frame>>
    OBVIOUS
  <2>2. LocksOf(front) = LocksOf(<<inner>>) + LocksOf(<<frame>>)
    BY <2>1, LocksOfConcat
  <2>. QED BY <2>2, LocksOfOne DEF Weight
<1> HIDE DEF front
<1>4. \A n \in 1..Len(front) - 1 : Called(front[n + 1], front[n])
  BY <1>1
<1>5. counter' = counter + LocksOf(front) - Weight(Top)
  BY <1>3 DEF Weight, EngineInv, TypeOK
<1>. QED BY <1>1, <1>2, <1>4, <1>5, StackReplaced

\* A function that was called by another returns.
LEMMA ReturnKeeps ==
    ASSUME EngineInv, ~Idle, UNCHANGED <<call, held, key>>,
           stack' = Rest, Rest # <<>>,
           TopSettled(Rest[1], key),
           counter' = counter - Weight(Top)
    PROVE  StackInv'
<1>1. /\ Top \in Frame /\ Rest \in Seq(Frame)
      /\ Len(stack) = Len(Rest) + 1 /\ Len(Rest) \in Nat
      /\ \A n \in 1..Len(Rest) : Rest[n] = stack[n + 1]
      /\ LocksOf(stack) = Weight(Top) + LocksOf(Rest)
  BY StackParts DEF EngineInv
<1> HIDE DEF Frame
<1>2. LocksMatchStack' /\ counter' \in Nat
  <2>1. LocksOf(Rest) \in Nat /\ Weight(Top) \in Nat
    BY <1>1, LocksOfType DEF Weight
  <2>. QED BY <1>1, <2>1 DEF EngineInv, LocksMatchStack
<1>3. ASSUME NEW n \in 1..Len(Rest) - 1 PROVE Called(Rest[n + 1], Rest[n])
  <2>1. Called(stack[(n + 1) + 1], stack[n + 1])
    BY <1>1 DEF EngineInv, Shape
  <2>. QED BY <1>1, <2>1
<1>4. Outermost(Rest[Len(Rest)], call)
  <2>1. Outermost(stack[Len(stack)], call)
    BY DEF EngineInv, Shape, Idle
  <2>2. Rest[Len(Rest)] = stack[Len(stack)]
    BY <1>1
  <2>. QED BY <2>1, <2>2
<1>5. ASSUME NEW n \in 1..Len(Rest) PROVE FrameSettled(Rest[n], key)
  <2>1. n + 1 \in 1..Len(stack) /\ Rest[n] = stack[n + 1]
    BY <1>1
  <2>. QED BY <2>1 DEF EngineInv, Settled, TypeOK
<1>6. Top' = Rest[1]
  BY <1>1 DEF Top
<1>. QED BY <1>1, <1>2, <1>3, <1>4, <1>5, <1>6 DEF StackInv, Shape, Settled

\* The call itself ends, by a return or by an exception.
LEMMA EndKeeps ==
    ASSUME held' \in BOOLEAN, stack' = <<>>, counter' = IF held' THEN 1 ELSE 0
    PROVE  StackInv'
<1>1. LocksOf(<<>>) = 0
  <2>1. {n \in DOMAIN <<>> : Locking(<<>>[n])} = {}
    OBVIOUS
  <2>. QED BY <2>1, FS_EmptySet DEF LocksOf
<1>. QED BY <1>1 DEF StackInv, LocksMatchStack, Shape, Settled

\* The counter of the function that is the call itself.
LEMMA OutermostCounter ==
    ASSUME EngineInv, ~Idle, Rest = <<>>, Locking(Top)
    PROVE  counter = 1 + (IF held THEN 1 ELSE 0)
<1>1. LocksOf(stack) = Weight(Top) + LocksOf(Rest)
  BY StackParts DEF EngineInv
<1>2. {n \in DOMAIN <<>> : Locking(<<>>[n])} = {}
  OBVIOUS
<1>3. LocksOf(Rest) = 0
  BY <1>2, FS_EmptySet DEF LocksOf
<1>. QED BY <1>1, <1>3 DEF EngineInv, LocksMatchStack, Weight

\* A function that is not the call itself was called by the next on the stack.
LEMMA Caller ==
    ASSUME EngineInv, ~Idle, Rest # <<>>
    PROVE  Rest[1] \in Frame /\ Called(Rest[1], Top) /\ FrameSettled(Rest[1], key)
<1>1. /\ Rest \in Seq(Frame) /\ Len(stack) = Len(Rest) + 1 /\ Top = stack[1]
      /\ \A n \in 1..Len(Rest) : Rest[n] = stack[n + 1]
  BY StackParts DEF EngineInv
<1>2. 1 \in 1..Len(Rest) /\ 1 \in 1..Len(stack) - 1 /\ 2 \in 1..Len(stack) /\ Rest[1] = stack[2]
  BY <1>1
<1>3. Called(stack[1 + 1], stack[1])
  BY <1>2 DEF EngineInv, Shape
<1>4. FrameSettled(stack[2], key)
  BY <1>2 DEF EngineInv, Settled, TypeOK
<1>. QED BY <1>1, <1>2, <1>3, <1>4

\* The frame of the function that runs.
LEMMA TopFrame ==
    ASSUME EngineInv, ~Idle
    PROVE  /\ Top \in Frame /\ FrameSettled(Top, key) /\ TopSettled(Top, key)
           /\ Top.kind = "apply" => Top \in ApplyFrames
           /\ Top.kind = "each" => Top \in EachFrames
           /\ Top.kind = "exec" => Top \in ExecFrames
           /\ Top.kind = "cleanup" => Top \in CleanupFrames
           /\ Top.kind = "destroy" => Top \in DestroyFrames
           /\ Rest = <<>> => Outermost(Top, call)
<1>1. Top \in Frame /\ Top = stack[1] /\ Len(stack) = Len(Rest) + 1 /\ Rest \in Seq(Frame)
  BY StackParts DEF EngineInv
<1>2. 1 \in DOMAIN stack
  BY <1>1 DEF EngineInv, TypeOK, Idle
<1>3. FrameSettled(Top, key) /\ TopSettled(Top, key)
  BY <1>1, <1>2 DEF EngineInv, Settled, Idle
<1>4. Rest = <<>> => Outermost(Top, call)
  BY <1>1 DEF EngineInv, Shape, Idle
<1>. QED BY <1>1, <1>3, <1>4
       DEF Frame, ApplyFrames, EachFrames, ExecFrames, CleanupFrames, DestroyFrames

-----------------------------------------------------------------------------
\* The types of all variables but the stack and the counter.
DataOK ==
    /\ db \in [Key -> Row \cup {NoRow}]
    /\ durable \in [Key -> Row \cup {NoRow}]
    /\ held \in BOOLEAN
    /\ spent \in BOOLEAN
    /\ ret \in Key \cup {Null}
    /\ key \in [Obj -> [Table -> Key \cup {Null}]]
    /\ member \in [Obj -> [Field -> Seq(Obj)]]
    /\ data \in [Obj -> [Field -> Val]]
    /\ filter \in SUBSET (Table \cup Field)
    /\ call \in [op : {"none", "create", "update", "destroy"},
                 objs : Seq(Obj), table : Table \cup {NoTable},
                 before : [Key -> Row \cup {NoRow}],
                 keys : [Obj -> [Table -> Key \cup {Null}]],
                 stored : SUBSET Key,
                 result : {"none", "ok", "error", "failed"}]
    /\ roots \in SUBSET Key

\* The types of the data and the facts about the stack make the invariant.
LEMMA EngineParts ==
    /\ EngineInv => DataOK
    /\ DataOK' /\ StackInv' => EngineInv'
BY DEF EngineInv, TypeOK, DataOK, StackInv

\* What a statement leaves behind, for its session and for the others.
LEMMA ExecutesType ==
    ASSUME DataOK, NEW rows \in [Key -> Row \cup {NoRow}], Executes(rows)
    PROVE  db' = rows /\ durable' \in {durable, rows} /\ durable' \in [Key -> Row \cup {NoRow}]
BY DEF Executes, DataOK

\* An exception leaves an empty stack.
LEMMA AbortKeeps ==
    ASSUME EngineInv, NEW result \in {"error", "failed"}, Abort(result)
    PROVE  EngineInv'
<1>1. StackInv'
  <2>1. held' \in BOOLEAN /\ stack' = <<>> /\ counter' = IF held' THEN 1 ELSE 0
    BY DEF Abort, EngineInv, TypeOK
  <2>. QED BY <2>1, EndKeeps
<1>2. DataOK
  BY EngineParts
<1>3. DataOK'
  BY <1>2 DEF Abort, DataOK, mem
<1>. QED BY <1>1, <1>3, EngineParts

\* apply() throws for an update without a key that must be one, or takes its lock and
\* calls the function of the dynamic type's table.
LEMMA ApplyBeginKeeps ==
    ASSUME EngineInv, ApplyBegin
    PROVE  EngineInv'
<1>1. Top \in ApplyFrames /\ ~Idle /\ Top.kind = "apply" /\ DataOK
  BY TopFrame, EngineParts DEF ApplyBegin, At
<1> DEFINE fits == HasDefaultKey(Top.obj, Top.table) # Top.ctx.upd
           ctx == IF fits THEN Top.ctx ELSE [Top.ctx EXCEPT !.upd = ~@]
<1>2. CASE ~fits /\ Top.strict
  <2>1. Abort("error")
    BY <1>2 DEF ApplyBegin, Throw
  <2>. QED BY <2>1, AbortKeeps
<1>3. CASE ~(~fits /\ Top.strict)
  <2>1. /\ Push(ExecFrame(Top.obj, ObjTable[Top.obj], ctx), [Top EXCEPT !.pc = "end"])
        /\ Enter
        /\ UNCHANGED <<db, durable, held, spent, ret, mem, call, roots>>
    BY <1>3 DEF ApplyBegin
  <2>2. ctx \in Context /\ Top.obj \in Obj /\ ObjTable[Top.obj] \in Table
    BY <1>1, PersistenceAssumption DEF ApplyFrames, Context
  <2>3. Top.strict => ctx.upd = Top.ctx.upd
    BY <1>3
  <2> HIDE DEF ctx, fits
  <2>4. PICK inner \in ExecFrames : inner = ExecFrame(Top.obj, ObjTable[Top.obj], ctx)
    BY <2>2 DEF ExecFrame, ExecFrames
  <2>5. PICK frame \in ApplyFrames : frame = [Top EXCEPT !.pc = "end"]
    BY <1>1 DEF ApplyFrames
  <2>6. inner \in Frame /\ frame \in Frame /\ Push(inner, frame)
    BY <2>1, <2>4, <2>5 DEF Frame
  <2>7. UNCHANGED <<call, held>> /\ KeysGrow /\ key' = key
    BY <2>1 DEF mem, KeysGrow
  <2>8. /\ inner.kind = "exec" /\ inner.pc = "key" /\ inner.obj = Top.obj
        /\ inner.table = ObjTable[Top.obj] /\ inner.ctx = ctx
        /\ frame.kind = "apply" /\ frame.pc = "end" /\ frame.obj = Top.obj
        /\ frame.strict = Top.strict /\ frame.ctx = Top.ctx
    BY <1>1, <2>4, <2>5 DEF ApplyFrames, ExecFrame
  <2>9. Called(frame, inner)
    BY <2>3, <2>8 DEF Called
  <2>10. \A c \in Frame : Called(c, Top) => Called(c, frame)
    BY <1>1, <2>8 DEF Called
  <2>11. Outermost(Top, call) => Outermost(frame, call)
    BY <1>1, <2>8 DEF Outermost
  <2>12. FrameSettled(frame, key') /\ FrameSettled(inner, key') /\ TopSettled(inner, key')
    BY <2>8 DEF FrameSettled, TopSettled
  <2>13. counter' = counter + Weight(frame) + Weight(inner) - Weight(Top)
    <3>1. Weight(frame) = 1 /\ Weight(inner) = 0 /\ Weight(Top) = 0
      BY <1>1, <2>8 DEF Weight, Locking, ApplyBegin, At
    <3>. QED BY <2>1, <3>1 DEF Enter, EngineInv, TypeOK
  <2>14. StackInv'
    BY <1>1, <2>6, <2>7, <2>9, <2>10, <2>11, <2>12, <2>13, PushKeeps
  <2>15. DataOK'
    BY <1>1, <2>1 DEF DataOK, mem
  <2>. QED BY <2>14, <2>15, EngineParts
<1>. QED BY <1>2, <1>3

\* A function with a lock returns: to its caller, or from the call.
LEMMA LockedReturnKeeps ==
    ASSUME EngineInv, ~Idle, Locking(Top), NEW k \in Key \cup {Null},
           Return(k), CommitAndLeave, Finish, UNCHANGED <<db, held, spent, mem>>,
           Rest # <<>> => TopSettled(Rest[1], key),
           Rest = <<>> /\ call.op = "create" => \A o \in Range(call.objs) : HasKey(key, o)
    PROVE  EngineInv'
<1>1. DataOK /\ counter \in Nat /\ Weight(Top) = 1
  BY EngineParts DEF EngineInv, TypeOK, Weight
<1>2. CASE Rest # <<>>
  <2>1. UNCHANGED <<call, held, key, roots>> /\ counter' = counter - Weight(Top)
    BY <1>1, <1>2 DEF CommitAndLeave, Finish, mem
  <2>2. StackInv'
    BY <1>2, <2>1, ReturnKeeps DEF Return
  <2>3. DataOK'
    BY <1>1, <1>2, <2>1 DEF DataOK, mem, Return, CommitAndLeave
  <2>. QED BY <2>2, <2>3, EngineParts
<1>3. CASE Rest = <<>>
  <2>1. counter = 1 + (IF held THEN 1 ELSE 0)
    BY <1>3, OutermostCounter
  <2>2. StackInv'
    <3>1. held' \in BOOLEAN /\ stack' = <<>> /\ counter' = IF held' THEN 1 ELSE 0
      BY <1>1, <1>3, <2>1 DEF Return, CommitAndLeave, DataOK
    <3>. QED BY <3>1, EndKeeps
  <2>3. roots' \in SUBSET Key
    <3>1. CASE call.op = "create"
      <4>1. \A o \in Range(call.objs) : o \in Obj
        BY <1>1 DEF DataOK, Range
      <4>2. \A o \in Range(call.objs) : key[o][ObjTable[o]] \in Key
        BY <1>1, <1>3, <3>1, <4>1, PersistenceAssumption DEF DataOK, HasKey
      <4>3. roots' = roots \cup {key[o][ObjTable[o]] : o \in Range(call.objs)}
        BY <1>3, <3>1 DEF Finish
      <4>. QED BY <1>1, <4>2, <4>3 DEF DataOK
    <3>2. CASE call.op # "create"
      BY <1>1, <1>3, <3>2 DEF Finish, DataOK
    <3>. QED BY <3>1, <3>2
  <2>4. call' = [call EXCEPT !.result = "ok"]
    BY <1>3 DEF Finish
  <2>5. DataOK'
    BY <1>1, <2>3, <2>4 DEF DataOK, mem, Return, CommitAndLeave
  <2>. QED BY <2>2, <2>5, EngineParts
<1>. QED BY <1>2, <1>3

\* apply() returns to its caller, and a create of the client reports a key its
\* object has.
LEMMA ApplyEndKeeps ==
    ASSUME EngineInv, ApplyEnd
    PROVE  EngineInv'
<1>1. /\ Top \in ApplyFrames /\ ~Idle /\ Top.kind = "apply" /\ Top.pc = "end"
      /\ TopSettled(Top, key) /\ DataOK
  BY TopFrame, EngineParts DEF ApplyEnd, At
<1>2. Locking(Top)
  BY <1>1 DEF Locking
<1>3. key[Top.obj][Top.table] \in Key \cup {Null}
  BY <1>1 DEF DataOK, ApplyFrames
<1>4. ASSUME Rest # <<>> PROVE TopSettled(Rest[1], key)
  <2>1. /\ Rest[1] \in Frame /\ Called(Rest[1], Top) /\ FrameSettled(Rest[1], key)
    BY <1>1, <1>4, Caller
  <2>2. CASE Rest[1].kind = "each"
    <3>1. /\ Rest[1].n \in 1..Len(Rest[1].objs) /\ Top.obj = Rest[1].objs[Rest[1].n]
          /\ Rest[1].strict => Top.strict /\ Top.ctx.upd = Rest[1].ctx.upd
      BY <1>1, <2>1, <2>2 DEF Called
    <3>2. ASSUME Rest[1].strict, ~Rest[1].ctx.upd, NEW m \in 1..Rest[1].n
          PROVE  HasKey(key, Rest[1].objs[m])
      <4>1. HasKey(key, Top.obj)
        BY <1>1, <3>1, <3>2 DEF TopSettled
      <4>2. m # Rest[1].n => m \in 1..Rest[1].n - 1
        BY <3>1
      <4>. QED BY <2>1, <2>2, <3>1, <3>2, <4>1, <4>2 DEF FrameSettled
    <3>. QED BY <2>2, <3>2 DEF TopSettled
  <2>3. CASE Rest[1].kind # "each"
    BY <1>1, <2>1, <2>3 DEF Called, TopSettled
  <2>. QED BY <2>2, <2>3
<1>5. ASSUME Rest = <<>>, call.op = "create"
      PROVE  \A o \in Range(call.objs) : HasKey(key, o)
  <2>1. call.objs = <<Top.obj>> /\ Top.strict /\ ~Top.ctx.upd
    BY <1>1, <1>5, TopFrame DEF Outermost
  <2>2. HasKey(key, Top.obj)
    BY <1>1, <2>1 DEF TopSettled
  <2>. QED BY <2>1, <2>2 DEF Range
<1>6. Return(key[Top.obj][Top.table]) /\ CommitAndLeave /\ Finish /\ UNCHANGED <<db, held, spent, mem>>
  BY DEF ApplyEnd
<1>. QED BY <1>1, <1>2, <1>3, <1>4, <1>5, <1>6, LockedReturnKeeps

\* The function of a container takes its lock.
LEMMA EachBeginKeeps ==
    ASSUME EngineInv, EachBegin
    PROVE  EngineInv'
<1>1. /\ Top \in EachFrames /\ ~Idle /\ Top.kind = "each" /\ Top.pc = "begin" /\ DataOK
      /\ FrameSettled(Top, key) /\ TopSettled(Top, key)
  BY TopFrame, EngineParts DEF EachBegin, At
<1>2. /\ Goto([Top EXCEPT !.pc = "next"]) /\ Enter
      /\ UNCHANGED <<db, durable, held, spent, ret, mem, call, roots>>
  BY DEF EachBegin
<1>3. PICK frame \in EachFrames : frame = [Top EXCEPT !.pc = "next"]
  BY <1>1 DEF EachFrames
<1>4. /\ frame.kind = "each" /\ frame.pc = "next" /\ frame.objs = Top.objs
      /\ frame.strict = Top.strict /\ frame.ctx = Top.ctx /\ frame.n = Top.n
  BY <1>1, <1>3 DEF EachFrames
<1>5. frame \in Frame /\ Goto(frame) /\ UNCHANGED <<call, held>> /\ KeysGrow /\ key' = key
  BY <1>2, <1>3 DEF Frame, mem, KeysGrow
<1>6. /\ \A c \in Frame : Called(c, Top) => Called(c, frame)
      /\ Outermost(Top, call) => Outermost(frame, call)
  BY <1>1, <1>4 DEF Called, Outermost
<1>7. FrameSettled(frame, key') /\ TopSettled(frame, key')
  BY <1>1, <1>4, <1>5 DEF FrameSettled, TopSettled
<1>8. counter' = counter + Weight(frame) - Weight(Top)
  <2>1. Weight(frame) = 1 /\ Weight(Top) = 0
    BY <1>1, <1>4 DEF Weight, Locking
  <2>. QED BY <1>2, <2>1 DEF Enter, EngineInv, TypeOK
<1>9. StackInv'
  BY <1>1, <1>5, <1>6, <1>7, <1>8, GotoKeeps
<1>10. DataOK'
  BY <1>1, <1>2 DEF DataOK, mem
<1>. QED BY <1>9, <1>10, EngineParts

\* It calls apply() for its next element, or returns after the last one.
LEMMA EachNextKeeps ==
    ASSUME EngineInv, EachNext
    PROVE  EngineInv'
<1>1. /\ Top \in EachFrames /\ ~Idle /\ Top.kind = "each" /\ Top.pc = "next" /\ DataOK
      /\ FrameSettled(Top, key) /\ TopSettled(Top, key)
  BY TopFrame, EngineParts DEF EachNext, At
<1>2. /\ Top.objs \in Seq(Obj) /\ Top.n \in Nat /\ Top.table \in Table /\ Top.ctx \in Context
      /\ Top.strict \in BOOLEAN
  BY <1>1 DEF EachFrames
<1>3. CASE Top.n < Len(Top.objs)
  <2> DEFINE o == Top.objs[Top.n + 1]
             ctx == [Top.ctx EXCEPT !.index = Top.n]
  <2>1. /\ Push(ApplyFrame(o, Top.table, ctx, Top.strict), [Top EXCEPT !.n = @ + 1])
        /\ UNCHANGED <<db, durable, counter, held, spent, ret, mem, call, roots>>
    BY <1>3 DEF EachNext
  <2>2. o \in Obj /\ ctx \in Context /\ ctx.upd = Top.ctx.upd
    BY <1>2, <1>3 DEF Context
  <2> HIDE DEF o, ctx
  <2>3. PICK inner \in ApplyFrames : inner = ApplyFrame(o, Top.table, ctx, Top.strict)
    BY <1>2, <2>2 DEF ApplyFrame, ApplyFrames
  <2>4. PICK frame \in EachFrames : frame = [Top EXCEPT !.n = @ + 1]
    <3>1. Top.n + 1 \in Nat
      BY <1>2
    <3>2. \A n \in Nat : [Top EXCEPT !.n = n] \in EachFrames
      BY <1>1 DEF EachFrames
    <3>. QED BY <3>1, <3>2
  <2>5. inner \in Frame /\ frame \in Frame /\ Push(inner, frame)
    BY <2>1, <2>3, <2>4 DEF Frame
  <2>6. UNCHANGED <<call, held>> /\ KeysGrow /\ key' = key
    BY <2>1 DEF mem, KeysGrow
  <2>7. /\ inner.kind = "apply" /\ inner.pc = "begin" /\ inner.obj = o
        /\ inner.strict = Top.strict /\ inner.ctx = ctx
        /\ frame.kind = "each" /\ frame.pc = "next" /\ frame.objs = Top.objs
        /\ frame.strict = Top.strict /\ frame.ctx = Top.ctx /\ frame.n = Top.n + 1
    BY <1>1, <2>3, <2>4 DEF EachFrames, ApplyFrame
  <2>8. Called(frame, inner)
    <3>1. frame.n \in 1..Len(frame.objs)
      BY <1>2, <1>3, <2>7
    <3>2. inner.obj = frame.objs[frame.n]
      BY <2>7 DEF o
    <3>. QED BY <2>2, <2>7, <3>1, <3>2 DEF Called
  <2>9. /\ \A c \in Frame : Called(c, Top) => Called(c, frame)
        /\ Outermost(Top, call) => Outermost(frame, call)
    BY <1>1, <2>7 DEF Called, Outermost
  <2>10. FrameSettled(frame, key') /\ FrameSettled(inner, key') /\ TopSettled(inner, key')
    <3>1. frame.n - 1 = Top.n /\ frame.n <= Len(frame.objs)
      BY <1>2, <1>3, <2>7
    <3>. QED BY <1>1, <2>6, <2>7, <3>1 DEF FrameSettled, TopSettled
  <2>11. counter' = counter + Weight(frame) + Weight(inner) - Weight(Top)
    <3>1. Weight(frame) = 1 /\ Weight(inner) = 0 /\ Weight(Top) = 1
      BY <1>1, <2>7 DEF Weight, Locking
    <3>. QED BY <2>1, <3>1 DEF EngineInv, TypeOK
  <2>12. StackInv'
    BY <1>1, <2>5, <2>6, <2>8, <2>9, <2>10, <2>11, PushKeeps
  <2>13. DataOK'
    BY <1>1, <2>1 DEF DataOK, mem
  <2>. QED BY <2>12, <2>13, EngineParts
<1>4. CASE ~(Top.n < Len(Top.objs))
  <2>1. Return(Null) /\ CommitAndLeave /\ Finish /\ UNCHANGED <<db, held, spent, mem>>
    BY <1>4 DEF EachNext
  <2>2. Locking(Top)
    BY <1>1 DEF Locking
  <2>3. ASSUME Rest # <<>> PROVE TopSettled(Rest[1], key)
    <3>1. Called(Rest[1], Top)
      BY <1>1, <2>3, Caller
    <3>. QED BY <1>1, <3>1 DEF Called, TopSettled
  <2>4. ASSUME Rest = <<>>, call.op = "create"
        PROVE  \A x \in Range(call.objs) : HasKey(key, x)
    <3>1. call.objs = Top.objs /\ Top.strict /\ ~Top.ctx.upd
      BY <1>1, <2>4, TopFrame DEF Outermost
    <3>2. \A m \in 1..Top.n : HasKey(key, Top.objs[m])
      BY <1>1, <3>1 DEF TopSettled
    <3>3. Len(Top.objs) <= Top.n
      BY <1>2, <1>4
    <3>. QED BY <1>2, <3>1, <3>2, <3>3 DEF Range
  <2>. QED BY <1>1, <2>1, <2>2, <2>3, <2>4, LockedReturnKeeps
<1>. QED BY <1>3, <1>4

-----------------------------------------------------------------------------
\* table_t::execute_create_update goes on with the same object and context.
LEMMA ExecGotoKeeps ==
    ASSUME EngineInv, ~Idle, Top.kind = "exec",
           UNCHANGED <<call, held, counter>>, KeysGrow,
           NEW frame \in ExecFrames, Goto(frame),
           frame.obj = Top.obj, frame.table = Top.table, frame.ctx = Top.ctx,
           FrameSettled(frame, key')
    PROVE  StackInv'
<1>1. Top \in ExecFrames
  BY TopFrame
<1>2. frame \in Frame /\ frame.kind = "exec"
  BY DEF Frame, ExecFrames
<1>3. /\ \A c \in Frame : Called(c, Top) => Called(c, frame)
      /\ Outermost(Top, call) => Outermost(frame, call)
  BY <1>2 DEF Called, Outermost
<1>4. TopSettled(frame, key')
  BY <1>2 DEF TopSettled
<1>5. counter' = counter + Weight(frame) - Weight(Top)
  BY <1>2 DEF Weight, Locking, EngineInv, TypeOK
<1>. QED BY <1>2, <1>3, <1>4, <1>5, GotoKeeps

\* It calls a function that has no lock yet.
LEMMA ExecPushKeeps ==
    ASSUME EngineInv, ~Idle, Top.kind = "exec",
           UNCHANGED <<call, held, counter>>, KeysGrow,
           NEW frame \in ExecFrames, NEW inner \in Frame, Push(inner, frame),
           frame.obj = Top.obj, frame.table = Top.table, frame.ctx = Top.ctx,
           Called(frame, inner), ~Locking(inner),
           FrameSettled(frame, key'), FrameSettled(inner, key'), TopSettled(inner, key')
    PROVE  StackInv'
<1>1. Top \in ExecFrames
  BY TopFrame
<1>2. frame \in Frame /\ frame.kind = "exec"
  BY DEF Frame, ExecFrames
<1>3. /\ \A c \in Frame : Called(c, Top) => Called(c, frame)
      /\ Outermost(Top, call) => Outermost(frame, call)
  BY <1>2 DEF Called, Outermost
<1>4. counter' = counter + Weight(frame) + Weight(inner) - Weight(Top)
  BY <1>2 DEF Weight, Locking, EngineInv, TypeOK
<1>. QED BY <1>2, <1>3, <1>4, PushKeeps

\* It returns.  An update may return early, an insert has set the key.
LEMMA ExecReturnKeeps ==
    ASSUME EngineInv, ~Idle, Top.kind = "exec", NEW k, Return(k),
           UNCHANGED <<call, held, counter, key>>,
           Top.ctx.upd \/ key[Top.obj][Top.table] # Null
    PROVE  StackInv' /\ Rest # <<>>
<1>1. Rest # <<>>
  BY TopFrame DEF Outermost
<1>2. Called(Rest[1], Top) /\ Rest[1] \in Frame
  BY <1>1, Caller
<1>3. TopSettled(Rest[1], key)
  BY <1>2 DEF Called, TopSettled, HasKey
<1>4. counter' = counter - Weight(Top)
  BY DEF Weight, Locking, EngineInv, TypeOK
<1>. QED BY <1>1, <1>3, <1>4, ReturnKeeps DEF Return

\* What an exec frame holds.
LEMMA ExecTop ==
    ASSUME EngineInv, ~Idle, Top.kind = "exec"
    PROVE  /\ Top \in ExecFrames /\ DataOK /\ FrameSettled(Top, key)
           /\ Top.obj \in Obj /\ Top.table \in Table /\ Top.ctx \in Context
           /\ Top.i \in Nat /\ Top.pk \in Key \cup {Null}
           /\ Top.cols \in [Field -> Key \cup {Null}]
BY TopFrame, EngineParts DEF ExecFrames

\* execute_create_update() gets its primary key, a new one or the object's, or
\* throws.
LEMMA ExecKeyKeeps ==
    ASSUME EngineInv, ExecKey
    PROVE  EngineInv'
<1>1. ~Idle /\ Top.kind = "exec" /\ Top.pc = "key"
  BY DEF ExecKey, At
<1>2. Top \in ExecFrames /\ DataOK /\ Top.obj \in Obj /\ Top.table \in Table
  BY <1>1, ExecTop
<1>3. CASE Top.ctx.upd /\ HasDefaultKey(Top.obj, Top.table)
  BY <1>3, AbortKeeps DEF ExecKey, Throw
<1>4. CASE ~(Top.ctx.upd /\ HasDefaultKey(Top.obj, Top.table))
  <2>1. PICK k \in Key : Goto([Top EXCEPT !.pc = "base", !.pk = k])
    <3>1. FreshKeys(Top.obj, Top.table) \subseteq Key
      BY <1>2, PersistenceAssumption DEF FreshKeys
    <3>2. Top.ctx.upd => key[Top.obj][Top.table] \in Key
      BY <1>2, <1>4 DEF HasDefaultKey, DataOK
    <3>. QED BY <1>4, <3>1, <3>2 DEF ExecKey
  <2>2. UNCHANGED <<db, durable, counter, held, spent, ret, mem, call, roots>>
    BY <1>4 DEF ExecKey
  <2>3. PICK frame \in ExecFrames : frame = [Top EXCEPT !.pc = "base", !.pk = k]
    BY <1>2 DEF ExecFrames
  <2>4. /\ frame.kind = "exec" /\ frame.pc = "base" /\ frame.obj = Top.obj
        /\ frame.table = Top.table /\ frame.ctx = Top.ctx /\ frame.pk = k
    BY <1>2, <2>3 DEF ExecFrames
  <2>5. FrameSettled(frame, key')
    BY <2>4 DEF FrameSettled
  <2>6. KeysGrow
    BY <2>2 DEF mem, KeysGrow
  <2>7. StackInv'
    BY <1>1, <2>1, <2>2, <2>3, <2>4, <2>5, <2>6, ExecGotoKeeps
  <2>8. DataOK'
    BY <1>2, <2>2 DEF DataOK, mem
  <2>. QED BY <2>7, <2>8, EngineParts
<1>. QED BY <1>3, <1>4

\* It calls the function of the base table or goes past it.
LEMMA ExecBaseKeeps ==
    ASSUME EngineInv, ExecBase
    PROVE  EngineInv'
<1>1. ~Idle /\ Top.kind = "exec" /\ Top.pc = "base"
  BY DEF ExecBase, At
<1>2. /\ Top \in ExecFrames /\ DataOK /\ FrameSettled(Top, key)
      /\ Top.obj \in Obj /\ Top.table \in Table /\ Top.ctx \in Context
  BY <1>1, ExecTop
<1>3. UNCHANGED <<db, durable, counter, held, spent, ret, mem, call, roots>>
  BY DEF ExecBase
<1>4. PICK frame \in ExecFrames : frame = [Top EXCEPT !.pc = "one"]
  BY <1>2 DEF ExecFrames
<1>5. /\ frame.kind = "exec" /\ frame.pc = "one" /\ frame.obj = Top.obj
      /\ frame.table = Top.table /\ frame.ctx = Top.ctx /\ frame.pk = Top.pk
  BY <1>2, <1>4 DEF ExecFrames
<1>6. FrameSettled(frame, key')
  BY <1>1, <1>2, <1>5 DEF FrameSettled
<1>7. KeysGrow
  BY <1>3 DEF mem, KeysGrow
<1>8. DataOK'
  BY <1>2, <1>3 DEF DataOK, mem
<1>9. CASE GoesToBase
  <2> DEFINE ctx == [Top.ctx EXCEPT !.derived = IF @ = NoTable THEN Top.table ELSE @]
  <2>1. Push(ExecFrame(Top.obj, BaseOf[Top.table], ctx), frame)
    BY <1>4, <1>9 DEF ExecBase
  <2>2. ctx \in Context
    BY <1>2 DEF Context
  <2>3. BaseOf[Top.table] \in Table
    BY <1>2, <1>9, SchemaAssumption DEF GoesToBase
  <2> HIDE DEF ctx
  <2>4. PICK inner \in ExecFrames : inner = ExecFrame(Top.obj, BaseOf[Top.table], ctx)
    BY <1>2, <2>2, <2>3 DEF ExecFrame, ExecFrames
  <2>5. inner \in Frame /\ inner.kind = "exec" /\ inner.pc = "key"
    BY <2>4 DEF ExecFrame, Frame
  <2>6. /\ Called(frame, inner) /\ ~Locking(inner)
        /\ FrameSettled(inner, key') /\ TopSettled(inner, key')
    BY <1>5, <2>5 DEF Called, Locking, FrameSettled, TopSettled
  <2>7. StackInv'
    BY <1>1, <1>3, <1>5, <1>6, <1>7, <2>1, <2>4, <2>5, <2>6, ExecPushKeeps
  <2>. QED BY <1>8, <2>7, EngineParts
<1>10. CASE ~GoesToBase
  <2>1. Goto(frame)
    BY <1>4, <1>10 DEF ExecBase
  <2>2. StackInv'
    BY <1>1, <1>3, <1>5, <1>6, <1>7, <2>1, ExecGotoKeeps
  <2>. QED BY <1>8, <2>2, EngineParts
<1>. QED BY <1>9, <1>10

\* The next field of a loop is one of its fields that is not skipped.
LEMMA NextOne ==
    ASSUME Top.i \in Nat, Len(OneFields[Top.table]) \in Nat,
           NEW i, i = NextField(OneFields[Top.table], Skips), i # 0
    PROVE  /\ i \in Top.i..Len(OneFields[Top.table])
           /\ ~Skips(OneFields[Top.table][i])
<1> DEFINE left == {n \in Top.i..Len(OneFields[Top.table]) : ~Skips(OneFields[Top.table][n])}
<1>1. left # {} /\ left \in SUBSET Nat
  BY DEF NextField
<1>2. i = CHOOSE n \in left : \A m \in left : n <= m
  BY <1>1 DEF NextField
<1>3. \E n \in left : \A m \in left : n <= m
  BY <1>1, LeastElement
<1>. QED BY <1>2, <1>3

\* The same for the loop over the many fields.
LEMMA NextMany ==
    ASSUME Top.i \in Nat, Len(ManyFields[Top.table]) \in Nat,
           NEW i, i = NextField(ManyFields[Top.table], SkipsMany), i # 0
    PROVE  /\ i \in Top.i..Len(ManyFields[Top.table])
           /\ ~SkipsMany(ManyFields[Top.table][i])
<1> DEFINE left == {n \in Top.i..Len(ManyFields[Top.table]) : ~SkipsMany(ManyFields[Top.table][n])}
<1>1. left # {} /\ left \in SUBSET Nat
  BY DEF NextField
<1>2. i = CHOOSE n \in left : \A m \in left : n <= m
  BY <1>1 DEF NextField
<1>3. \E n \in left : \A m \in left : n <= m
  BY <1>1, LeastElement
<1>. QED BY <1>2, <1>3

\* It finds its next one field and calls the function of the part's class, or comes
\* to its own statement.
LEMMA ExecOneKeeps ==
    ASSUME EngineInv, ExecOne
    PROVE  EngineInv'
<1>1. ~Idle /\ Top.kind = "exec" /\ Top.pc = "one"
  BY DEF ExecOne, At
<1>2. /\ Top \in ExecFrames /\ DataOK /\ FrameSettled(Top, key)
      /\ Top.obj \in Obj /\ Top.table \in Table /\ Top.ctx \in Context
      /\ Top.i \in Nat
  BY <1>1, ExecTop
<1>3. UNCHANGED <<db, durable, counter, held, spent, mem, call, roots>> /\ KeysGrow /\ key' = key
  BY DEF ExecOne, mem, KeysGrow
<1>4. ASSUME ret' \in Key \cup {Null} PROVE DataOK'
  BY <1>2, <1>3, <1>4 DEF DataOK, mem
<1> DEFINE fields == OneFields[Top.table]
           i == NextField(fields, Skips)
           f == fields[i]
<1>5. CASE Skips(Top.table)
  <2>1. Return(Top.pk) /\ Top.ctx.upd
    BY <1>5 DEF ExecOne, Skips
  <2>2. StackInv' /\ Rest # <<>>
    BY <1>1, <1>3, <2>1, ExecReturnKeeps
  <2>3. ret' \in Key \cup {Null}
    BY <1>2, <2>1 DEF Return, ExecFrames
  <2>. QED BY <1>4, <2>2, <2>3, EngineParts
<1>6. CASE ~Skips(Top.table) /\ i = 0
  <2>1. Goto([Top EXCEPT !.pc = "write"]) /\ ret' = ret
    BY <1>6 DEF ExecOne
  <2>2. PICK frame \in ExecFrames : frame = [Top EXCEPT !.pc = "write"]
    BY <1>2 DEF ExecFrames
  <2>3. /\ frame.kind = "exec" /\ frame.pc = "write" /\ frame.obj = Top.obj
        /\ frame.table = Top.table /\ frame.ctx = Top.ctx /\ frame.pk = Top.pk
    BY <1>2, <2>2 DEF ExecFrames
  <2>4. FrameSettled(frame, key')
    BY <1>1, <1>2, <2>3 DEF FrameSettled
  <2>5. StackInv'
    BY <1>1, <1>3, <2>1, <2>2, <2>3, <2>4, ExecGotoKeeps
  <2>. QED BY <1>2, <1>4, <2>1, <2>5, EngineParts DEF DataOK
<1>7. CASE ~Skips(Top.table) /\ i # 0
  <2>1. fields \in Seq({g \in Field : IsOne(g)})
    BY <1>2, FieldVectors
  <2>2. i \in 1..Len(fields) /\ i \in Nat
    <3>1. Len(OneFields[Top.table]) \in Nat
      BY <2>1
    <3>2. PICK n : n = NextField(OneFields[Top.table], Skips)
      OBVIOUS
    <3>3. n # 0
      BY <1>7, <3>2
    <3>4. n \in Top.i..Len(OneFields[Top.table])
      BY <1>2, <3>1, <3>2, <3>3, NextOne
    <3>5. n \in 1..Len(OneFields[Top.table])
      BY <1>2, <3>1, <3>3, <3>4
    <3>. QED BY <3>2, <3>5
  <2>3. f \in Field /\ RefOf[f] \in Table
    <3> HIDE DEF i, fields
    <3>1. f \in {g \in Field : IsOne(g)}
      BY <2>1, <2>2
    <3>. QED BY <3>1, SchemaAssumption DEF IsOne
  <2>4. PICK frame \in ExecFrames : frame = [Top EXCEPT !.pc = "after", !.i = i]
    <3> HIDE DEF i
    <3>. QED BY <1>2, <2>2 DEF ExecFrames
  <2>5. /\ ret' = Null
        /\ IF member[Top.obj][f] = <<>>
           THEN Goto(frame)
           ELSE Push(ApplyFrame(member[Top.obj][f][1], RefOf[f], Top.ctx, FALSE), frame)
    BY <1>7, <2>4 DEF ExecOne
  <2> HIDE DEF f, i
  <2>6. /\ frame.kind = "exec" /\ frame.pc = "after" /\ frame.obj = Top.obj
        /\ frame.table = Top.table /\ frame.ctx = Top.ctx /\ frame.pk = Top.pk
    BY <1>2, <2>4 DEF ExecFrames
  <2>7. FrameSettled(frame, key')
    BY <1>1, <1>2, <2>6 DEF FrameSettled
  <2>8. CASE member[Top.obj][f] = <<>>
    <3>1. StackInv'
      BY <1>1, <1>3, <2>5, <2>6, <2>7, <2>8, ExecGotoKeeps
    <3>. QED BY <1>4, <2>5, <3>1, EngineParts
  <2>9. CASE member[Top.obj][f] # <<>>
    <3>1. member[Top.obj][f][1] \in Obj
      <4>1. member[Top.obj][f] \in Seq(Obj)
        BY <1>2, <2>3 DEF DataOK
      <4>. QED BY <2>9, <4>1
    <3>2. PICK inner \in ApplyFrames :
             inner = ApplyFrame(member[Top.obj][f][1], RefOf[f], Top.ctx, FALSE)
      BY <1>2, <2>3, <3>1 DEF ApplyFrame, ApplyFrames
    <3>3. inner \in Frame /\ inner.kind = "apply" /\ inner.pc = "begin"
      BY <3>2 DEF ApplyFrame, Frame
    <3>4. /\ Called(frame, inner) /\ ~Locking(inner)
          /\ FrameSettled(inner, key') /\ TopSettled(inner, key')
      BY <2>6, <3>3 DEF Called, Locking, FrameSettled, TopSettled
    <3>5. StackInv'
      BY <1>1, <1>3, <2>5, <2>6, <2>7, <2>9, <3>2, <3>3, <3>4, ExecPushKeeps
    <3>. QED BY <1>4, <2>5, <3>5, EngineParts
  <2>. QED BY <2>8, <2>9
<1>. QED BY <1>5, <1>6, <1>7

\* It notes the key of the part that was written, and deletes the old one.
LEMMA ExecAfterKeeps ==
    ASSUME EngineInv, ExecAfter
    PROVE  EngineInv'
<1>1. ~Idle /\ Top.kind = "exec" /\ Top.pc = "after"
  BY DEF ExecAfter, At
<1>2. /\ Top \in ExecFrames /\ DataOK /\ FrameSettled(Top, key)
      /\ Top.i \in Nat /\ Top.cols \in [Field -> Key \cup {Null}]
  BY <1>1, ExecTop
<1> DEFINE f == OneFields[Top.table][Top.i]
           refused == \/ ret = Null /\ f \notin NullableField
                      \/ Top.ctx.upd /\ AmbiguousKey(RefOf[f])
<1>3. CASE refused
  BY <1>3, AbortKeeps DEF ExecAfter, Throw
<1>4. CASE ~refused
  <2>1. /\ Executes(IF Top.ctx.upd THEN DeleteRows(db, OldPart(f)) ELSE db)
        /\ Goto([Top EXCEPT !.pc = "one", !.i = @ + 1, !.cols[f] = ret])
        /\ UNCHANGED <<counter, held, spent, ret, mem, call, roots>>
    BY <1>4 DEF ExecAfter
  <2> HIDE DEF f, refused
  <2>2. [Top.cols EXCEPT ![f] = ret] \in [Field -> Key \cup {Null}] /\ Top.i + 1 \in Nat
    <3>1. ret \in Key \cup {Null}
      BY <1>2 DEF DataOK
    <3>2. \A x \in Key \cup {Null}, c \in [Field -> Key \cup {Null}] :
             [c EXCEPT ![f] = x] \in [Field -> Key \cup {Null}]
      OBVIOUS
    <3>. QED BY <1>2, <3>1, <3>2
  <2>3. PICK frame \in ExecFrames : frame = [Top EXCEPT !.pc = "one", !.i = @ + 1, !.cols[f] = ret]
    <3>1. \A n \in Nat, c \in [Field -> Key \cup {Null}] :
             [Top EXCEPT !.pc = "one", !.i = n, !.cols = c] \in ExecFrames
      BY <1>2 DEF ExecFrames
    <3>2. [Top EXCEPT !.pc = "one", !.i = @ + 1, !.cols[f] = ret]
          = [Top EXCEPT !.pc = "one", !.i = Top.i + 1, !.cols = [Top.cols EXCEPT ![f] = ret]]
      BY <1>2 DEF ExecFrames
    <3>. QED BY <2>2, <3>1, <3>2
  <2>4. /\ frame.kind = "exec" /\ frame.pc = "one" /\ frame.obj = Top.obj
        /\ frame.table = Top.table /\ frame.ctx = Top.ctx /\ frame.pk = Top.pk
    BY <1>2, <2>3 DEF ExecFrames
  <2>5. FrameSettled(frame, key')
    BY <1>1, <1>2, <2>4 DEF FrameSettled
  <2>6. KeysGrow
    BY <2>1 DEF mem, KeysGrow
  <2>7. StackInv'
    BY <1>1, <2>1, <2>3, <2>4, <2>5, <2>6, ExecGotoKeeps
  <2>8. db' \in [Key -> Row \cup {NoRow}] /\ durable' \in [Key -> Row \cup {NoRow}]
    <3>1. (IF Top.ctx.upd THEN DeleteRows(db, OldPart(f)) ELSE db) \in [Key -> Row \cup {NoRow}]
      BY <1>2, DeleteRowsType DEF DataOK
    <3>. QED BY <1>2, <2>1, <3>1, ExecutesType
  <2>9. DataOK'
    BY <1>2, <2>1, <2>8 DEF DataOK, mem
  <2>. QED BY <2>7, <2>9, EngineParts
<1>. QED BY <1>3, <1>4

\* Unlinking the elements of a container leaves a database.
LEMMA UnlinkedType ==
    ASSUME db \in [Key -> Row \cup {NoRow}], NEW f \in Field, NEW k
    PROVE  Unlinked(f, k) \in [Key -> Row \cup {NoRow}]
<1>1. ASSUME NEW r \in RowsOf(db, RefOf[f])
      PROVE  [db[r] EXCEPT !.col[f] = Null, !.idx[f] = 0] \in Row
  <2>1. db[r] \in Row
    BY <1>1 DEF RowsOf, Rows
  <2>2. /\ [db[r].col EXCEPT ![f] = Null] \in [Field -> Key \cup Val \cup {Null}]
        /\ [db[r].idx EXCEPT ![f] = 0] \in [Field -> Nat]
    BY <2>1 DEF Row
  <2>3. [db[r] EXCEPT !.col[f] = Null, !.idx[f] = 0]
        = [db[r] EXCEPT !.col = [db[r].col EXCEPT ![f] = Null],
                        !.idx = [db[r].idx EXCEPT ![f] = 0]]
    BY <2>1 DEF Row
  <2>. QED BY <2>1, <2>2, <2>3 DEF Row
<1>2. ASSUME NEW r \in Key
      PROVE  (IF r \in RowsOf(db, RefOf[f]) /\ db[r].col[f] = k
              THEN [db[r] EXCEPT !.col[f] = Null, !.idx[f] = 0] ELSE db[r]) \in Row \cup {NoRow}
  BY <1>1
<1>. QED BY <1>2 DEF Unlinked

\* The row a statement writes is a row.
LEMMA WrittenRowType ==
    ASSUME EngineInv, ~Idle, Top.kind = "exec", NEW row \in Row
    PROVE  WrittenRow(row) \in Row
<1>1. /\ DataOK /\ Top.obj \in Obj /\ Top.table \in Table /\ Top.ctx \in Context
      /\ Top.cols \in [Field -> Key \cup {Null}]
  BY ExecTop
<1> DEFINE base == IF SetsBase THEN key[Top.obj][BaseOf[Top.table]] ELSE row.base
           col == [f \in Field |-> CASE f \in DataColumns  -> data[Top.obj][f]
                                     [] f \in OneColumns   -> Top.cols[f]
                                     [] f \in OwnerColumns -> Top.ctx.ownerKey
                                     [] OTHER              -> row.col[f]]
           idx == [f \in Field |-> IF f \in OwnerColumns THEN Top.ctx.index ELSE row.idx[f]]
           type == IF ~Top.ctx.upd /\ HasTypeColumn(Top.table)
                   THEN IF Top.ctx.derived = NoTable THEN Top.table ELSE Top.ctx.derived
                   ELSE row.type
<1>2. base \in Key \cup {Null}
  <2>1. ASSUME SetsBase PROVE key[Top.obj][BaseOf[Top.table]] \in Key \cup {Null}
    <3>1. BaseOf[Top.table] \in Table
      BY <1>1, <2>1, SchemaAssumption DEF SetsBase
    <3>. QED BY <1>1, <3>1 DEF DataOK
  <2>. QED BY <2>1 DEF Row
<1>3. col \in [Field -> Key \cup Val \cup {Null}]
  <2>1. /\ data[Top.obj] \in [Field -> Val] /\ Top.cols \in [Field -> Key \cup {Null}]
        /\ Top.ctx.ownerKey \in Key \cup {Null}
        /\ row.col \in [Field -> Key \cup Val \cup {Null}]
    BY <1>1 DEF DataOK, Context, Row
  <2>2. ASSUME NEW f \in Field PROVE col[f] \in Key \cup Val \cup {Null}
    <3>1. CASE f \in DataColumns
      BY <2>1, <3>1
    <3>2. CASE f \notin DataColumns /\ f \in OneColumns
      BY <2>1, <3>2
    <3>3. CASE f \notin DataColumns /\ f \notin OneColumns /\ f \in OwnerColumns
      BY <2>1, <3>3
    <3>4. CASE f \notin DataColumns /\ f \notin OneColumns /\ f \notin OwnerColumns
      BY <2>1, <3>4
    <3>. QED BY <3>1, <3>2, <3>3, <3>4
  <2>. QED BY <2>2
<1>4. idx \in [Field -> Nat]
  <2>1. Top.ctx.index \in Nat /\ row.idx \in [Field -> Nat]
    BY <1>1 DEF Context, Row
  <2>. QED BY <2>1
<1>5. type \in Table \cup {Null}
  BY <1>1 DEF Context, Row
<1>6. WrittenRow(row) = [row EXCEPT !.base = base, !.col = col, !.idx = idx, !.type = type]
  BY DEF WrittenRow
<1> HIDE DEF base, col, idx, type
<1>. QED BY <1>2, <1>3, <1>4, <1>5, <1>6 DEF Row

\* The INSERT or the UPDATE.
LEMMA ExecWriteKeeps ==
    ASSUME EngineInv, ExecWrite
    PROVE  EngineInv'
<1>1. ~Idle /\ Top.kind = "exec" /\ Top.pc = "write"
  BY DEF ExecWrite, At
<1>2. /\ Top \in ExecFrames /\ DataOK /\ FrameSettled(Top, key)
      /\ Top.obj \in Obj /\ Top.table \in Table
  BY <1>1, ExecTop
<1> DEFINE fails == IF Top.ctx.upd THEN UpdateFails ELSE InsertFails
           old == IF Top.ctx.upd THEN db[Top.pk] ELSE EmptyRow(Top.table)
<1>3. CASE fails
  BY <1>3, AbortKeeps DEF ExecWrite, Throw
<1>4. CASE ~fails
  <2>1. /\ Executes([db EXCEPT ![Top.pk] = WrittenRow(old)])
        /\ key' = [key EXCEPT ![Top.obj][Top.table] = Top.pk]
        /\ Goto([Top EXCEPT !.pc = "many", !.i = 1])
        /\ UNCHANGED <<counter, held, spent, ret, member, data, filter, call, roots>>
    BY <1>4 DEF ExecWrite
  <2>2. Top.pk \in Key /\ Top.pk # Null
    BY <1>1, <1>2, DatabaseAssumption DEF FrameSettled
  <2>3. old \in Row
    <3>1. CASE Top.ctx.upd
      <4>1. db[Top.pk] # NoRow
        BY <1>4, <3>1 DEF UpdateFails, RowsOf, Rows
      <4>. QED BY <1>2, <2>2, <3>1, <4>1 DEF DataOK
    <3>2. CASE ~Top.ctx.upd
      BY <1>2, <3>2 DEF EmptyRow, Row
    <3>. QED BY <3>1, <3>2
  <2> HIDE DEF old, fails
  <2>4. WrittenRow(old) \in Row
    BY <1>1, <2>3, WrittenRowType
  <2>5. key' \in [Obj -> [Table -> Key \cup {Null}]] /\ KeysGrow
    BY <1>2, <2>1, <2>2 DEF DataOK, KeysGrow
  <2>6. key'[Top.obj][Top.table] = Top.pk
    BY <1>2, <2>1 DEF DataOK
  <2>7. PICK frame \in ExecFrames : frame = [Top EXCEPT !.pc = "many", !.i = 1]
    BY <1>2 DEF ExecFrames
  <2>8. /\ frame.kind = "exec" /\ frame.pc = "many" /\ frame.obj = Top.obj
        /\ frame.table = Top.table /\ frame.ctx = Top.ctx /\ frame.pk = Top.pk
    BY <1>2, <2>7 DEF ExecFrames
  <2>9. FrameSettled(frame, key')
    BY <2>2, <2>6, <2>8 DEF FrameSettled
  <2>10. StackInv'
    BY <1>1, <2>1, <2>5, <2>7, <2>8, <2>9, ExecGotoKeeps
  <2>11. [db EXCEPT ![Top.pk] = WrittenRow(old)] \in [Key -> Row \cup {NoRow}]
    BY <1>2, <2>4 DEF DataOK
  <2>12. db' \in [Key -> Row \cup {NoRow}] /\ durable' \in [Key -> Row \cup {NoRow}]
    BY <1>2, <2>1, <2>11, ExecutesType
  <2>13. DataOK'
    BY <1>2, <2>1, <2>5, <2>12 DEF DataOK
  <2>. QED BY <2>10, <2>13, EngineParts
<1>. QED BY <1>3, <1>4

\* The loop over the many fields.
LEMMA ExecManyKeeps ==
    ASSUME EngineInv, ExecMany
    PROVE  EngineInv'
<1>1. ~Idle /\ Top.kind = "exec" /\ Top.pc = "many"
  BY DEF ExecMany, At
<1>2. /\ Top \in ExecFrames /\ DataOK /\ FrameSettled(Top, key)
      /\ Top.obj \in Obj /\ Top.table \in Table /\ Top.ctx \in Context
      /\ Top.i \in Nat
  BY <1>1, ExecTop
<1>3. UNCHANGED <<counter, held, spent, mem, call, roots>> /\ KeysGrow /\ key' = key
  BY DEF ExecMany, mem, KeysGrow
<1>4. ASSUME ret' \in Key \cup {Null}, db' \in [Key -> Row \cup {NoRow}],
             durable' \in [Key -> Row \cup {NoRow}]
      PROVE  DataOK'
  BY <1>2, <1>3, <1>4 DEF DataOK, mem
<1>5. PICK i : i = NextField(ManyFields[Top.table], SkipsMany)
  OBVIOUS
<1>6. CASE i = 0
  <2>1. Return(Top.pk) /\ db' = db /\ durable' = durable
    BY <1>5, <1>6 DEF ExecMany
  <2>2. key[Top.obj][Top.table] # Null
    BY <1>1, <1>2 DEF FrameSettled
  <2>3. StackInv'
    BY <1>1, <1>3, <2>1, <2>2, ExecReturnKeeps
  <2>4. ret' \in Key \cup {Null}
    BY <1>2, <2>1 DEF Return, ExecFrames
  <2>. QED BY <1>2, <1>4, <2>1, <2>3, <2>4, EngineParts DEF DataOK
<1>7. CASE i # 0
  <2>1. ManyFields[Top.table] \in Seq({g \in Field : IsMany(g)})
    BY <1>2, FieldVectors
  <2>2. i \in 1..Len(ManyFields[Top.table]) /\ i \in Nat
    <3>1. Len(ManyFields[Top.table]) \in Nat
      BY <2>1
    <3>2. i \in Top.i..Len(ManyFields[Top.table])
      BY <1>2, <1>5, <1>7, <3>1, NextMany
    <3>. QED BY <1>2, <1>7, <3>1, <3>2
  <2>3. PICK f : f = ManyFields[Top.table][i]
    OBVIOUS
  <2>4. f \in Field /\ RefOf[f] \in Table /\ i \in DOMAIN ManyFields[Top.table]
    <3>1. f \in {g \in Field : IsMany(g)} /\ i \in DOMAIN ManyFields[Top.table]
      BY <2>1, <2>2, <2>3
    <3>. QED BY <3>1, SchemaAssumption DEF IsMany
  <2>5. PICK frame \in ExecFrames : frame = [Top EXCEPT !.pc = "cleanup", !.i = i]
    BY <1>2, <2>2 DEF ExecFrames
  <2>6. PICK ctx : ctx = [Top.ctx EXCEPT !.owner = f, !.ownerKey = Top.pk, !.derived = NoTable]
    OBVIOUS
  <2>7. /\ Push(EachFrame(member[Top.obj][f], RefOf[f], ctx, FALSE), frame)
        /\ Executes(IF Top.ctx.upd THEN Unlinked(f, Top.pk) ELSE db)
        /\ ret' = ret
    BY <1>5, <1>7, <2>3, <2>5, <2>6 DEF ExecMany
  <2>8. ctx \in Context
    BY <1>2, <2>4, <2>6 DEF Context, ExecFrames
  <2>9. member[Top.obj][f] \in Seq(Obj)
    BY <1>2, <2>4 DEF DataOK
  <2>10. PICK inner \in EachFrames : inner = EachFrame(member[Top.obj][f], RefOf[f], ctx, FALSE)
    BY <2>4, <2>8, <2>9 DEF EachFrame, EachFrames
  <2>11. /\ inner \in Frame /\ inner.kind = "each" /\ inner.pc = "begin" /\ ~inner.strict
         /\ inner.n <= Len(inner.objs)
    BY <2>9, <2>10 DEF EachFrame, Frame
  <2>12. /\ frame.kind = "exec" /\ frame.pc = "cleanup" /\ frame.obj = Top.obj
         /\ frame.table = Top.table /\ frame.ctx = Top.ctx /\ frame.pk = Top.pk /\ frame.i = i
    BY <1>2, <2>5 DEF ExecFrames
  <2>13. FrameSettled(frame, key')
    BY <1>1, <1>2, <1>3, <2>4, <2>12 DEF FrameSettled
  <2>14. /\ Called(frame, inner) /\ ~Locking(inner)
         /\ FrameSettled(inner, key') /\ TopSettled(inner, key')
    BY <2>11, <2>12 DEF Called, Locking, FrameSettled, TopSettled
  <2>15. Push(inner, frame)
    BY <2>7, <2>10
  <2>16. StackInv'
    BY <1>1, <1>3, <2>11, <2>12, <2>13, <2>14, <2>15, ExecPushKeeps
  <2>17. db' \in [Key -> Row \cup {NoRow}] /\ durable' \in [Key -> Row \cup {NoRow}]
    <3>1. (IF Top.ctx.upd THEN Unlinked(f, Top.pk) ELSE db) \in [Key -> Row \cup {NoRow}]
      BY <1>2, <2>4, UnlinkedType DEF DataOK
    <3>. QED BY <1>2, <2>7, <3>1, ExecutesType
  <2>18. ret' \in Key \cup {Null}
    BY <1>2, <2>7 DEF DataOK
  <2>. QED BY <1>4, <2>16, <2>17, <2>18, EngineParts
<1>. QED BY <1>6, <1>7

\* The cleanup after a many field.
LEMMA ExecCleanupKeeps ==
    ASSUME EngineInv, ExecCleanup
    PROVE  EngineInv'
<1>1. ~Idle /\ Top.kind = "exec" /\ Top.pc = "cleanup"
  BY DEF ExecCleanup, At
<1>2. /\ Top \in ExecFrames /\ DataOK /\ FrameSettled(Top, key)
      /\ Top.table \in Table /\ Top.i \in Nat
  BY <1>1, ExecTop
<1>3. UNCHANGED <<db, durable, counter, held, spent, ret, mem, call, roots>> /\ KeysGrow /\ key' = key
  BY DEF ExecCleanup, mem, KeysGrow
<1>4. DataOK'
  BY <1>2, <1>3 DEF DataOK, mem
<1>5. RefOf[ManyFields[Top.table][Top.i]] \in Table
  <2>1. Top.i \in DOMAIN ManyFields[Top.table]
    BY <1>1, <1>2 DEF FrameSettled
  <2>2. ManyFields[Top.table] \in Seq({g \in Field : IsMany(g)})
    BY <1>2, FieldVectors
  <2>3. ManyFields[Top.table][Top.i] \in {g \in Field : IsMany(g)}
    BY <2>1, <2>2
  <2>. QED BY <2>3, SchemaAssumption DEF IsMany
<1>6. PICK frame \in ExecFrames : frame = [Top EXCEPT !.pc = "many", !.i = @ + 1]
  <2>1. \A n \in Nat : [Top EXCEPT !.pc = "many", !.i = n] \in ExecFrames
    BY <1>2 DEF ExecFrames
  <2>2. Top.i + 1 \in Nat
    BY <1>2
  <2>. QED BY <2>1, <2>2
<1>7. /\ frame.kind = "exec" /\ frame.pc = "many" /\ frame.obj = Top.obj
      /\ frame.table = Top.table /\ frame.ctx = Top.ctx /\ frame.pk = Top.pk
  BY <1>2, <1>6 DEF ExecFrames
<1>8. FrameSettled(frame, key')
  BY <1>1, <1>2, <1>3, <1>7 DEF FrameSettled
<1>9. CASE Top.ctx.upd
  <2>1. PICK inner \in CleanupFrames :
           inner = CleanupFrame(RefOf[ManyFields[Top.table][Top.i]], TRUE, TRUE)
    BY <1>5 DEF CleanupFrame, CleanupFrames
  <2>2. Push(inner, frame)
    BY <1>6, <1>9, <2>1 DEF ExecCleanup
  <2>3. inner \in Frame /\ inner.kind = "cleanup"
    BY <2>1 DEF CleanupFrame, Frame
  <2>4. /\ Called(frame, inner) /\ ~Locking(inner)
        /\ FrameSettled(inner, key') /\ TopSettled(inner, key')
    BY <1>7, <2>3 DEF Called, Locking, FrameSettled, TopSettled
  <2>5. StackInv'
    BY <1>1, <1>3, <1>7, <1>8, <2>2, <2>3, <2>4, ExecPushKeeps
  <2>. QED BY <1>4, <2>5, EngineParts
<1>10. CASE ~Top.ctx.upd
  <2>1. Goto(frame)
    BY <1>6, <1>10 DEF ExecCleanup
  <2>2. StackInv'
    BY <1>1, <1>3, <1>7, <1>8, <2>1, ExecGotoKeeps
  <2>. QED BY <1>4, <2>2, EngineParts
<1>. QED BY <1>9, <1>10

\* Sequences put together.
LEMMA ConcatType ==
    ASSUME NEW X, NEW a \in Seq(X), NEW b \in Seq(X)
    PROVE  a \o b \in Seq(X)
OBVIOUS

\* What a loop makes of each element of a sequence is a sequence.
LEMMA MapType ==
    ASSUME NEW X, NEW Y, NEW s \in Seq(X), NEW m, DOMAIN m = DOMAIN s,
           m = [i \in DOMAIN s |-> m[i]], \A i \in DOMAIN s : m[i] \in Y
    PROVE  m \in Seq(Y)
<1>1. DOMAIN s = 1..Len(s) /\ Len(s) \in Nat
  OBVIOUS
<1>2. m \in [1..Len(s) -> Y]
  BY <1>1
<1>. QED BY <1>1, <1>2

\* The cleanups of a table are cleanups.
LEMMA CleanupsType ==
    ASSUME NEW t \in Table
    PROVE  /\ CleanupsOfMany(t) \in Seq(CleanupFrames)
           /\ CleanupsOfBase(t) \in Seq(CleanupFrames)
           /\ CleanupsOfDerived(t) \in Seq(CleanupFrames)
<1>1. \A u \in Table, down \in BOOLEAN, up \in BOOLEAN :
         CleanupFrame(u, down, up) \in CleanupFrames
  BY DEF CleanupFrame, CleanupFrames
<1>2. CleanupsOfMany(t) \in Seq(CleanupFrames)
  <2>1. PICK fields : fields = ManyFields[t]
    OBVIOUS
  <2>2. fields \in Seq({f \in Field : IsMany(f)})
    BY <2>1, FieldVectors
  <2>3. ASSUME NEW i \in DOMAIN fields
        PROVE  CleanupFrame(RefOf[fields[i]], TRUE, TRUE) \in CleanupFrames
    <3>1. fields[i] \in {f \in Field : IsMany(f)}
      BY <2>2
    <3>2. RefOf[fields[i]] \in Table
      BY <3>1, SchemaAssumption DEF IsMany
    <3>. QED BY <1>1, <3>2
  <2>4. CleanupsOfMany(t) = [i \in DOMAIN fields |-> CleanupFrame(RefOf[fields[i]], TRUE, TRUE)]
    BY <2>1 DEF CleanupsOfMany
  <2>5. PICK m : m = CleanupsOfMany(t)
    OBVIOUS
  <2>6. /\ DOMAIN m = DOMAIN fields /\ m = [i \in DOMAIN fields |-> m[i]]
        /\ \A i \in DOMAIN fields : m[i] \in CleanupFrames
    BY <2>3, <2>4, <2>5
  <2>. QED BY <2>2, <2>5, <2>6, MapType
<1>3. CleanupsOfBase(t) \in Seq(CleanupFrames)
  <2>1. CASE BaseOf[t] = NoTable
    BY <2>1 DEF CleanupsOfBase
  <2>2. CASE BaseOf[t] # NoTable
    <3>1. CleanupFrame(BaseOf[t], FALSE, TRUE) \in CleanupFrames
      BY <1>1, <2>2, SchemaAssumption
    <3>2. \A x \in CleanupFrames : <<x>> \in Seq(CleanupFrames)
      OBVIOUS
    <3>3. <<CleanupFrame(BaseOf[t], FALSE, TRUE)>> \in Seq(CleanupFrames)
      BY <3>1, <3>2
    <3>. QED BY <2>2, <3>3 DEF CleanupsOfBase
  <2>. QED BY <2>1, <2>2
<1>4. CleanupsOfDerived(t) \in Seq(CleanupFrames)
  <2>1. PICK derived : derived = SetToSeq(DerivedTables(t))
    OBVIOUS
  <2>2. DerivedTables(t) \subseteq Table /\ IsFiniteSet(DerivedTables(t))
    BY SchemaAssumption, FS_Subset DEF DerivedTables
  <2>3. derived \in Seq(Table)
    BY <2>1, <2>2, SetToSeqType
  <2>4. CleanupsOfDerived(t) = [i \in DOMAIN derived |-> CleanupFrame(derived[i], TRUE, FALSE)]
    BY <2>1 DEF CleanupsOfDerived
  <2>5. ASSUME NEW i \in DOMAIN derived PROVE CleanupFrame(derived[i], TRUE, FALSE) \in CleanupFrames
    <3>1. derived[i] \in Table
      BY <2>3
    <3>. QED BY <1>1, <3>1
  <2>6. PICK m : m = CleanupsOfDerived(t)
    OBVIOUS
  <2>7. /\ DOMAIN m = DOMAIN derived /\ m = [i \in DOMAIN derived |-> m[i]]
        /\ \A i \in DOMAIN derived : m[i] \in CleanupFrames
    BY <2>4, <2>5, <2>6
  <2>. QED BY <2>3, <2>6, <2>7, MapType
<1>. QED BY <1>2, <1>3, <1>4

\* Cleanups hold no locks and know nothing of the keys.
LEMMA CleanupFacts ==
    ASSUME NEW f \in CleanupFrames
    PROVE  /\ f \in Frame /\ f.kind = "cleanup" /\ ~Locking(f)
           /\ \A keys : FrameSettled(f, keys) /\ TopSettled(f, keys)
<1>1. f \in Frame /\ f.kind = "cleanup"
  BY DEF CleanupFrames, Frame
<1>. QED BY <1>1 DEF Locking, FrameSettled, TopSettled

\* A sequence of cleanups takes the place of the first.
LEMMA CleanupKeeps ==
    ASSUME EngineInv, Cleanup
    PROVE  EngineInv'
<1>1. ~Idle /\ Top.kind = "cleanup"
  BY DEF Cleanup, At
<1>2. Top \in CleanupFrames /\ DataOK /\ (Rest = <<>> => Outermost(Top, call))
  BY <1>1, TopFrame, EngineParts
<1>3. Top.table \in Table
  BY <1>2 DEF CleanupFrames
<1>4. UNCHANGED <<counter, held, spent, ret, mem, call, roots>> /\ KeysGrow /\ key' = key
  BY DEF Cleanup, mem, KeysGrow
<1>5. db' \in [Key -> Row \cup {NoRow}] /\ durable' \in [Key -> Row \cup {NoRow}]
  <2> DEFINE rows == IF ForeignKeyFields(Top.table) = {} THEN db
                         ELSE DeleteRows(db, Orphans(Top.table))
  <2>1. rows \in [Key -> Row \cup {NoRow}]
    BY <1>2, DeleteRowsType DEF DataOK
  <2>2. Executes(rows)
    BY DEF Cleanup
  <2> HIDE DEF rows
  <2>. QED BY <1>2, <2>1, <2>2, ExecutesType
<1>6. DataOK'
  BY <1>2, <1>4, <1>5 DEF DataOK, mem
<1>7. PICK front \in Seq(CleanupFrames) : stack' = front \o Rest
  <2> DEFINE a == CleanupsOfMany(Top.table)
             b == IF Top.up THEN CleanupsOfBase(Top.table) ELSE <<>>
             c == IF Top.down THEN CleanupsOfDerived(Top.table) ELSE <<>>
  <2>1. <<>> \in Seq(CleanupFrames)
    OBVIOUS
  <2>2. a \in Seq(CleanupFrames) /\ b \in Seq(CleanupFrames) /\ c \in Seq(CleanupFrames)
    BY <1>3, <2>1, CleanupsType
  <2>3. stack' = ((a \o b) \o c) \o Rest
    BY DEF Cleanup
  <2> HIDE DEF a, b, c
  <2>4. (a \o b) \o c \in Seq(CleanupFrames)
    BY <2>2
  <2>. QED BY <2>3, <2>4
<1>8. ~Locking(Top) /\ Weight(Top) = 0
  BY <1>2, CleanupFacts DEF Weight
<1>9. CASE front = <<>>
  <2>1. Rest # <<>>
    BY <1>1, <1>2 DEF Outermost
  <2>2. Called(Rest[1], Top)
    BY <1>1, <2>1, Caller
  <2>3. TopSettled(Rest[1], key)
    BY <1>1, <2>2 DEF Called, TopSettled
  <2>4. stack' = Rest
    <3>1. Rest \in Seq(Frame)
      BY <1>1, StackParts DEF EngineInv
    <3>. QED BY <1>7, <1>9, <3>1
  <2>5. counter' = counter - Weight(Top)
    BY <1>4, <1>8 DEF EngineInv, TypeOK
  <2>6. StackInv'
    BY <1>1, <1>4, <2>1, <2>3, <2>4, <2>5, ReturnKeeps
  <2>. QED BY <1>6, <2>6, EngineParts
<1>10. CASE front # <<>>
  <2>1. \A n \in DOMAIN front : front[n] \in CleanupFrames
    OBVIOUS
  <2>2. /\ \A n \in DOMAIN front : front[n] \in Frame /\ front[n].kind = "cleanup"
        /\ \A n \in DOMAIN front : ~Locking(front[n]) /\ FrameSettled(front[n], key')
        /\ \A n \in DOMAIN front : TopSettled(front[n], key')
    BY <2>1, CleanupFacts
  <2>3. front \in Seq(Frame)
    BY <2>2
  <2>4. 1 \in DOMAIN front /\ Len(front) \in DOMAIN front
    BY <1>10
  <2>5. ASSUME NEW n \in 1..Len(front) - 1 PROVE Called(front[n + 1], front[n])
    <3>1. n \in DOMAIN front /\ n + 1 \in DOMAIN front
      OBVIOUS
    <3>. QED BY <2>2, <3>1 DEF Called
  <2>6. \A c \in Frame : Called(c, Top) => Called(c, front[Len(front)])
    BY <1>1, <2>2, <2>4 DEF Called
  <2>7. Outermost(Top, call) => Outermost(front[Len(front)], call)
    BY <1>1 DEF Outermost
  <2>8. counter' = counter + LocksOf(front) - Weight(Top)
    <3>1. LocksOf(front) = 0
      BY <2>2, <2>3, LocksOfNone
    <3>. QED BY <1>4, <1>8, <3>1 DEF EngineInv, TypeOK
  <2>9. StackInv'
    BY <1>1, <1>4, <1>7, <1>10, <2>2, <2>3, <2>4, <2>5, <2>6, <2>7, <2>8, StackReplaced
  <2>. QED BY <1>6, <2>9, EngineParts
<1>. QED BY <1>9, <1>10

\* The lock of a destroy.
LEMMA DestroyBeginKeeps ==
    ASSUME EngineInv, DestroyBegin
    PROVE  EngineInv'
<1>1. ~Idle /\ Top.kind = "destroy" /\ Top.pc = "begin"
  BY DEF DestroyBegin, At
<1>2. Top \in DestroyFrames /\ DataOK
  BY <1>1, TopFrame, EngineParts
<1>3. CASE HasDefaultKey(Top.obj, Top.table)
  BY <1>3, AbortKeeps DEF DestroyBegin, Throw
<1>4. CASE ~HasDefaultKey(Top.obj, Top.table)
  <2>1. /\ Goto([Top EXCEPT !.pc = "delete"]) /\ Enter
        /\ UNCHANGED <<db, durable, held, spent, ret, mem, call, roots>>
    BY <1>4 DEF DestroyBegin
  <2>2. PICK frame \in DestroyFrames : frame = [Top EXCEPT !.pc = "delete"]
    BY <1>2 DEF DestroyFrames
  <2>3. frame.kind = "destroy" /\ frame.pc = "delete" /\ frame \in Frame
    BY <1>2, <2>2 DEF DestroyFrames, Frame
  <2>4. KeysGrow
    BY <2>1 DEF mem, KeysGrow
  <2>5. /\ \A c \in Frame : Called(c, Top) => Called(c, frame)
        /\ Outermost(Top, call) => Outermost(frame, call)
        /\ FrameSettled(frame, key') /\ TopSettled(frame, key')
    BY <1>1, <2>3 DEF Called, Outermost, FrameSettled, TopSettled
  <2>6. counter' = counter + Weight(frame) - Weight(Top)
    <3>1. Weight(frame) = 1 /\ Weight(Top) = 0
      BY <1>1, <2>3 DEF Weight, Locking
    <3>. QED BY <2>1, <3>1 DEF Enter, EngineInv, TypeOK
  <2>7. StackInv'
    BY <1>1, <2>1, <2>2, <2>3, <2>4, <2>5, <2>6, GotoKeeps
  <2>8. DataOK'
    BY <1>2, <2>1 DEF DataOK, mem
  <2>. QED BY <2>7, <2>8, EngineParts
<1>. QED BY <1>3, <1>4

\* The DELETE of a destroy and the cleanups of the many fields.
LEMMA DestroyDeleteKeeps ==
    ASSUME EngineInv, DestroyDelete
    PROVE  EngineInv'
<1>1. ~Idle /\ Top.kind = "destroy" /\ Top.pc = "delete"
  BY DEF DestroyDelete, At
<1>2. Top \in DestroyFrames /\ DataOK
  BY <1>1, TopFrame, EngineParts
<1>3. UNCHANGED <<counter, held, spent, ret, mem, call, roots>> /\ KeysGrow /\ key' = key
  BY DEF DestroyDelete, mem, KeysGrow
<1>4. db' \in [Key -> Row \cup {NoRow}] /\ durable' \in [Key -> Row \cup {NoRow}]
  <2> DEFINE rows == DeleteRows(db, Destroyed(Top.obj, Top.table))
  <2>1. rows \in [Key -> Row \cup {NoRow}]
    BY <1>2, DeleteRowsType DEF DataOK
  <2>2. Executes(rows)
    BY DEF DestroyDelete
  <2> HIDE DEF rows
  <2>. QED BY <1>2, <2>1, <2>2, ExecutesType
<1>5. DataOK'
  BY <1>2, <1>3, <1>4 DEF DataOK, mem
<1>6. PICK frame \in DestroyFrames : frame = [Top EXCEPT !.pc = "end"]
  BY <1>2 DEF DestroyFrames
<1>7. frame.kind = "destroy" /\ frame.pc = "end" /\ frame \in Frame
  BY <1>2, <1>6 DEF DestroyFrames, Frame
<1>8. PICK a \in Seq(CleanupFrames) : a = CleanupsOfMany(ObjTable[Top.obj])
  <2>1. ObjTable[Top.obj] \in Table
    BY <1>2, PersistenceAssumption DEF DestroyFrames
  <2>. QED BY <2>1, CleanupsType
<1>9. \A n \in DOMAIN a : /\ a[n] \in Frame /\ a[n].kind = "cleanup" /\ ~Locking(a[n])
                          /\ FrameSettled(a[n], key') /\ TopSettled(a[n], key')
  <2>1. \A n \in DOMAIN a : a[n] \in CleanupFrames
    OBVIOUS
  <2>. QED BY <2>1, CleanupFacts
<1>10. a \in Seq(Frame) /\ <<frame>> \in Seq(Frame)
  BY <1>7, <1>9
<1>11. PICK front \in Seq(Frame) : front = a \o <<frame>>
  <2>1. a \o <<frame>> \in Seq(Frame)
    BY <1>7, <1>10, ConcatType
  <2>. QED BY <2>1
<1>12. /\ Len(front) = Len(a) + 1 /\ front # <<>> /\ Len(a) \in Nat
       /\ front[Len(front)] = frame
       /\ \A n \in 1..Len(a) : front[n] = a[n]
  <2> HIDE DEF Frame
  <2>. QED BY <1>10, <1>11
<1>13. stack' = front \o Rest
  BY <1>6, <1>8, <1>11 DEF DestroyDelete
<1>14. ASSUME NEW n \in 1..Len(front) - 1 PROVE Called(front[n + 1], front[n])
  <2>1. n \in 1..Len(a) /\ front[n].kind = "cleanup"
    BY <1>9, <1>12
  <2>2. CASE n = Len(a)
    BY <1>7, <1>12, <2>1, <2>2 DEF Called
  <2>3. CASE n # Len(a)
    <3>1. n + 1 \in 1..Len(a) /\ front[n + 1].kind = "cleanup"
      BY <1>9, <1>12, <2>1, <2>3
    <3>. QED BY <2>1, <3>1 DEF Called
  <2>. QED BY <2>2, <2>3
<1>15. ASSUME NEW n \in DOMAIN front
       PROVE  FrameSettled(front[n], key') /\ TopSettled(front[n], key')
  <2>1. CASE n = Len(front)
    BY <1>7, <1>12, <2>1 DEF FrameSettled, TopSettled
  <2>2. CASE n # Len(front)
    <3>1. n \in 1..Len(a)
      BY <1>12, <2>2
    <3>. QED BY <1>9, <1>12, <3>1
  <2>. QED BY <2>1, <2>2
<1>16. /\ \A c \in Frame : Called(c, Top) => Called(c, frame)
       /\ Outermost(Top, call) => Outermost(frame, call)
  BY <1>1, <1>7 DEF Called, Outermost
<1>17. counter' = counter + LocksOf(front) - Weight(Top)
  <2>1. LocksOf(front) = LocksOf(a) + Weight(frame)
    BY <1>7, <1>10, <1>11, LocksOfConcat, LocksOfOne
  <2>2. LocksOf(a) = 0
    BY <1>9, <1>10, LocksOfNone
  <2>3. Weight(frame) = 1 /\ Weight(Top) = 1
    BY <1>1, <1>7 DEF Weight, Locking
  <2>. QED BY <1>3, <2>1, <2>2, <2>3 DEF EngineInv, TypeOK
<1>18. 1 \in DOMAIN front
  BY <1>12
<1>19. StackInv'
  BY <1>1, <1>3, <1>11, <1>12, <1>13, <1>14, <1>15, <1>16, <1>17, <1>18, StackReplaced
<1>. QED BY <1>5, <1>19, EngineParts

\* The return of a destroy.
LEMMA DestroyEndKeeps ==
    ASSUME EngineInv, DestroyEnd
    PROVE  EngineInv'
<1>1. ~Idle /\ Top.kind = "destroy" /\ Top.pc = "end"
  BY DEF DestroyEnd, At
<1>2. Locking(Top)
  BY <1>1 DEF Locking
<1>3. Rest = <<>>
  <2>1. ASSUME Rest # <<>> PROVE FALSE
    <3>1. Called(Rest[1], Top)
      BY <1>1, <2>1, Caller
    <3>. QED BY <1>1, <3>1 DEF Called
  <2>. QED BY <2>1
<1>4. call.op # "create"
  BY <1>1, <1>3, TopFrame DEF Outermost
<1>5. Return(Null) /\ CommitAndLeave /\ Finish /\ UNCHANGED <<db, held, spent, mem>>
  BY DEF DestroyEnd
<1>. QED BY <1>1, <1>2, <1>3, <1>4, <1>5, LockedReturnKeeps

-----------------------------------------------------------------------------
\* Between the calls only the client's lock is alive.
LEMMA IdleCounter ==
    ASSUME EngineInv, Idle
    PROVE  counter = IF held THEN 1 ELSE 0
<1>1. {n \in DOMAIN <<>> : Locking(<<>>[n])} = {}
  OBVIOUS
<1>2. LocksOf(<<>>) = 0
  BY <1>1, FS_EmptySet DEF LocksOf
<1>. QED BY <1>2 DEF EngineInv, LocksMatchStack, Idle

\* The call variable when no call is of interest.
LEMMA NoCallType ==
    /\ NoRows \in [Key -> Row \cup {NoRow}]
    /\ NoKeys \in [Obj -> [Table -> Key \cup {Null}]]
    /\ NoCall \in [op : {"none", "create", "update", "destroy"},
                   objs : Seq(Obj), table : Table \cup {NoTable},
                   before : [Key -> Row \cup {NoRow}],
                   keys : [Obj -> [Table -> Key \cup {Null}]],
                   stored : SUBSET Key,
                   result : {"none", "ok", "error", "failed"}]
<1>1. NoRows \in [Key -> Row \cup {NoRow}] /\ NoKeys \in [Obj -> [Table -> Key \cup {Null}]]
  BY DEF NoRows, NoKeys
<1>. QED BY <1>1 DEF NoCall

\* What the client does to its objects keeps their types.
LEMMA EditType ==
    ASSUME DataOK, Edit
    PROVE  /\ key' \in [Obj -> [Table -> Key \cup {Null}]]
           /\ member' \in [Obj -> [Field -> Seq(Obj)]]
           /\ data' \in [Obj -> [Field -> Val]]
           /\ filter' \in SUBSET (Table \cup Field)
<1>0. /\ key \in [Obj -> [Table -> Key \cup {Null}]]
      /\ member \in [Obj -> [Field -> Seq(Obj)]]
      /\ data \in [Obj -> [Field -> Val]]
      /\ filter \in SUBSET (Table \cup Field)
  BY DEF DataOK
<1>1. ASSUME NEW o \in Obj, NEW f, NEW s \in Seq(Obj)
      PROVE  [member EXCEPT ![o][f] = s] \in [Obj -> [Field -> Seq(Obj)]]
  <2>1. [member[o] EXCEPT ![f] = s] \in [Field -> Seq(Obj)]
    BY <1>0
  <2>2. [member EXCEPT ![o][f] = s] = [member EXCEPT ![o] = [member[o] EXCEPT ![f] = s]]
    BY <1>0
  <2>. QED BY <1>0, <2>1, <2>2
<1>2. ASSUME NEW o \in Obj, NEW x \in Obj, NEW f, NEW n \in 1..Len(member[o][f]) + 1,
             PutIn(o, f, x, n)
      PROVE  member' \in [Obj -> [Field -> Seq(Obj)]]
  <2>1. CASE f \in Field
    <3>1. PICK s \in Seq(Obj) : s = member[o][f]
      BY <1>0, <2>1
    <3>2. n \in 1..Len(s) + 1
      BY <1>2, <3>1
    <3>3. InsertAt(s, n, x) \in Seq(Obj)
      <4>1. SubSeq(s, 1, n - 1) \in Seq(Obj) /\ SubSeq(s, n, Len(s)) \in Seq(Obj)
        BY <3>2
      <4>2. <<x>> \in Seq(Obj)
        OBVIOUS
      <4>. QED BY <4>1, <4>2 DEF InsertAt
    <3>4. member' = [member EXCEPT ![o][f] = InsertAt(s, n, x)]
      BY <1>2, <3>1 DEF PutIn
    <3>. QED BY <1>1, <3>3, <3>4
  <2>2. CASE f \notin Field
    <3>1. member' = [member EXCEPT ![o] = [member[o] EXCEPT ![f] = InsertAt(member[o][f], n, x)]]
      BY <1>2 DEF PutIn
    <3>2. [member[o] EXCEPT ![f] = InsertAt(member[o][f], n, x)] \in [Field -> Seq(Obj)]
      <4>1. \A v : \A g \in [Field -> Seq(Obj)] : [g EXCEPT ![f] = v] \in [Field -> Seq(Obj)]
        BY <2>2
      <4>. QED BY <1>0, <4>1
    <3>. QED BY <1>0, <3>1, <3>2
  <2>. QED BY <2>1, <2>2
<1>3. ASSUME NEW o \in Obj, NEW f, NEW n \in 1..Len(member[o][f]), TakeOut(o, f, n)
      PROVE  member' \in [Obj -> [Field -> Seq(Obj)]]
  <2>1. CASE f \in Field
    <3>1. PICK s \in Seq(Obj) : s = member[o][f]
      BY <1>0, <2>1
    <3>2. n \in 1..Len(s)
      BY <1>3, <3>1
    <3>3. RemoveAt(s, n) \in Seq(Obj)
      <4>1. SubSeq(s, 1, n - 1) \in Seq(Obj) /\ SubSeq(s, n + 1, Len(s)) \in Seq(Obj)
        BY <3>2
      <4>. QED BY <4>1 DEF RemoveAt
    <3>4. member' = [member EXCEPT ![o][f] = RemoveAt(s, n)]
      BY <1>3, <3>1 DEF TakeOut
    <3>. QED BY <1>1, <3>3, <3>4
  <2>2. CASE f \notin Field
    <3>1. member' = [member EXCEPT ![o] = [member[o] EXCEPT ![f] = RemoveAt(member[o][f], n)]]
      BY <1>3 DEF TakeOut
    <3>2. [member[o] EXCEPT ![f] = RemoveAt(member[o][f], n)] \in [Field -> Seq(Obj)]
      <4>1. \A v : \A g \in [Field -> Seq(Obj)] : [g EXCEPT ![f] = v] \in [Field -> Seq(Obj)]
        BY <2>2
      <4>. QED BY <1>0, <4>1
    <3>. QED BY <1>0, <3>1, <3>2
  <2>. QED BY <2>1, <2>2
<1>4. ASSUME NEW x \in Obj, Renew(x)
      PROVE  key' \in [Obj -> [Table -> Key \cup {Null}]]
  BY <1>0, <1>4 DEF Renew
<1>5. ASSUME NEW x \in Obj, NEW y \in Obj, AdoptBaseKey(x, y)
      PROVE  key' \in [Obj -> [Table -> Key \cup {Null}]]
  <2>1. PICK t \in Table : t = BaseOf[ObjTable[x]]
    BY <1>5, SchemaAssumption, PersistenceAssumption DEF AdoptBaseKey
  <2>2. key' = [key EXCEPT ![x][t] = key[y][t]]
    BY <1>5, <2>1 DEF AdoptBaseKey
  <2>. QED BY <1>0, <2>2
<1>6. ASSUME NEW o \in Obj, NEW v \in Val, NEW f, SetData(o, f, v)
      PROVE  data' \in [Obj -> [Field -> Val]]
  <2>1. data' = [data EXCEPT ![o] = [data[o] EXCEPT ![f] = v]]
    BY <1>6 DEF SetData
  <2>2. [data[o] EXCEPT ![f] = v] \in [Field -> Val]
    BY <1>0
  <2>. QED BY <1>0, <2>1, <2>2
<1>7. CASE \E o \in Obj, x \in Obj : \E f \in ForeignFieldsOf(o) :
              \E n \in 1..Len(member[o][f]) + 1 : PutIn(o, f, x, n)
  <2>1. member' \in [Obj -> [Field -> Seq(Obj)]]
    BY <1>2, <1>7
  <2>2. UNCHANGED <<key, data, filter>>
    BY <1>7 DEF PutIn
  <2>. QED BY <1>0, <2>1, <2>2
<1>8. CASE \E o \in Obj : \E f \in ForeignFieldsOf(o) :
              \E n \in 1..Len(member[o][f]) : TakeOut(o, f, n)
  <2>1. member' \in [Obj -> [Field -> Seq(Obj)]]
    BY <1>3, <1>8
  <2>2. UNCHANGED <<key, data, filter>>
    BY <1>8 DEF TakeOut
  <2>. QED BY <1>0, <2>1, <2>2
<1>9. CASE \E x \in Obj : Renew(x)
  BY <1>0, <1>4, <1>9 DEF Renew
<1>10. CASE \E x \in Root, y \in Root : AdoptBaseKey(x, y)
  <2>1. Root \subseteq Obj
    BY PersistenceAssumption
  <2>2. key' \in [Obj -> [Table -> Key \cup {Null}]]
    BY <1>5, <1>10, <2>1
  <2>3. UNCHANGED <<member, data, filter>>
    BY <1>10 DEF AdoptBaseKey
  <2>. QED BY <1>0, <2>2, <2>3
<1>11. CASE \E o \in Obj, v \in Val : \E f \in FieldsOfObject(o) : SetData(o, f, v)
  <2>1. data' \in [Obj -> [Field -> Val]]
    BY <1>6, <1>11
  <2>2. UNCHANGED <<key, member, filter>>
    BY <1>11 DEF SetData
  <2>. QED BY <1>0, <2>1, <2>2
<1>12. CASE \E x \in Filters : SetFilter(x)
  BY <1>0, <1>12, PersistenceAssumption DEF SetFilter
<1>. QED BY <1>7, <1>8, <1>9, <1>10, <1>11, <1>12 DEF Edit

\* The client edits its objects.
LEMMA EditKeeps ==
    ASSUME EngineInv, Edit
    PROVE  EngineInv'
<1>1. /\ Idle /\ call' = NoCall
      /\ UNCHANGED <<db, durable, counter, held, spent, stack, ret, roots>>
  BY DEF Edit
<1>2. DataOK /\ counter = IF held THEN 1 ELSE 0
  BY <1>1, IdleCounter, EngineParts
<1>3. StackInv'
  BY <1>1, <1>2, EndKeeps DEF Idle, DataOK
<1>4. DataOK'
  BY <1>1, <1>2, EditType, NoCallType DEF DataOK
<1>. QED BY <1>3, <1>4, EngineParts

\* A call begins with one frame, that of the function called.
LEMMA BeginKeeps ==
    ASSUME EngineInv, Idle, NEW op \in {"create", "update", "destroy"},
           NEW objs \in Seq(Obj), NEW t \in Table, NEW frame \in Frame,
           Begin(op, objs, t, frame),
           Outermost(frame, call'), ~Locking(frame),
           FrameSettled(frame, key), TopSettled(frame, key)
    PROVE  EngineInv'
<1>1. /\ stack' = <<frame>>
      /\ call' = [op |-> op, objs |-> objs, table |-> t, before |-> db,
                  keys |-> key, stored |-> roots, result |-> "none"]
      /\ UNCHANGED <<db, durable, counter, held, spent, ret, mem, roots>>
  BY DEF Begin
<1>2. DataOK /\ counter = IF held THEN 1 ELSE 0
  BY IdleCounter, EngineParts
<1> HIDE DEF Frame
<1>3. /\ stack' \in Seq(Frame) /\ Len(stack') = 1 /\ stack'[1] = frame /\ Top' = frame
      /\ DOMAIN stack' = {1} /\ stack' # <<>>
  BY <1>1 DEF Top
<1>4. LocksOf(stack') = 0
  BY <1>1, LocksOfOne DEF Weight
<1>5. counter' \in Nat /\ LocksMatchStack'
  BY <1>1, <1>2, <1>4 DEF LocksMatchStack
<1>6. Shape'
  BY <1>3 DEF Shape
<1>7. key' = key
  BY <1>1 DEF mem
<1>8. Settled'
  BY <1>3, <1>7 DEF Settled
<1>9. StackInv'
  BY <1>3, <1>5, <1>6, <1>8 DEF StackInv
<1>10. call' \in [op : {"none", "create", "update", "destroy"},
                  objs : Seq(Obj), table : Table \cup {NoTable},
                  before : [Key -> Row \cup {NoRow}],
                  keys : [Obj -> [Table -> Key \cup {Null}]],
                  stored : SUBSET Key,
                  result : {"none", "ok", "error", "failed"}]
  BY <1>1, <1>2 DEF DataOK
<1>11. DataOK'
  BY <1>1, <1>2, <1>10 DEF DataOK, mem
<1>. QED BY <1>9, <1>11, EngineParts

\* The calls of the client.
LEMMA CallsKeep ==
    ASSUME EngineInv, Calls
    PROVE  EngineInv'
<1>1. Idle /\ Root \subseteq Obj
  BY PersistenceAssumption DEF Calls
<1>2. \A upd \in BOOLEAN : NoOwner(upd) \in Context /\ NoOwner(upd).upd = upd
  BY DEF NoOwner, Context
<1>3. ASSUME NEW t \in Table, NEW o \in Root, NEW upd \in BOOLEAN, CallObject(upd, o, t)
      PROVE  EngineInv'
  <2>1. PICK frame \in ApplyFrames : frame = ApplyFrame(o, t, NoOwner(upd), TRUE)
    BY <1>1, <1>2 DEF ApplyFrame, ApplyFrames
  <2>2. Begin(IF upd THEN "update" ELSE "create", <<o>>, t, frame)
    BY <1>3, <2>1 DEF CallObject, CreateOrUpdate
  <2>3. /\ frame \in Frame /\ frame.kind = "apply" /\ frame.pc = "begin" /\ frame.obj = o
        /\ frame.strict /\ frame.ctx.upd = upd
    BY <1>2, <2>1 DEF ApplyFrame, Frame
  <2>4. <<o>> \in Seq(Obj)
    BY <1>1
  <2>5. Outermost(frame, call')
    BY <2>2, <2>3 DEF Begin, Outermost
  <2>6. ~Locking(frame) /\ FrameSettled(frame, key) /\ TopSettled(frame, key)
    BY <2>3 DEF Locking, FrameSettled, TopSettled
  <2>. QED BY <1>1, <2>2, <2>3, <2>4, <2>5, <2>6, BeginKeeps
<1>4. ASSUME NEW t \in Table, NEW o \in Root, CallDestroy(o, t)
      PROVE  EngineInv'
  <2>1. PICK frame \in DestroyFrames : frame = DestroyFrame(o, t)
    BY <1>1 DEF DestroyFrame, DestroyFrames
  <2>2. Begin("destroy", <<o>>, t, frame)
    BY <1>4, <2>1 DEF CallDestroy
  <2>3. frame \in Frame /\ frame.kind = "destroy" /\ frame.pc = "begin"
    BY <2>1 DEF DestroyFrame, Frame
  <2>4. <<o>> \in Seq(Obj)
    BY <1>1
  <2>5. Outermost(frame, call')
    BY <2>2, <2>3 DEF Begin, Outermost
  <2>6. ~Locking(frame) /\ FrameSettled(frame, key) /\ TopSettled(frame, key)
    BY <2>3 DEF Locking, FrameSettled, TopSettled
  <2>. QED BY <1>1, <2>2, <2>3, <2>4, <2>5, <2>6, BeginKeeps
<1>5. ASSUME NEW t \in Table, NEW objs \in Groups, NEW upd \in BOOLEAN, CallGroup(upd, objs, t)
      PROVE  EngineInv'
  <2>1. objs \in Seq(Obj)
    <3>1. objs \in Seq(Root)
      BY PersistenceAssumption
    <3>. QED BY <1>1, <3>1
  <2>2. PICK frame \in EachFrames : frame = EachFrame(objs, t, NoOwner(upd), TRUE)
    BY <1>2, <2>1 DEF EachFrame, EachFrames
  <2>3. Begin(IF upd THEN "update" ELSE "create", objs, t, frame)
    BY <1>5, <2>2 DEF CallGroup, CreateOrUpdate
  <2>4. /\ frame \in Frame /\ frame.kind = "each" /\ frame.pc = "begin" /\ frame.objs = objs
        /\ frame.strict /\ frame.ctx.upd = upd /\ frame.n = 0
    BY <1>2, <2>2 DEF EachFrame, Frame
  <2>5. Outermost(frame, call')
    BY <2>3, <2>4 DEF Begin, Outermost
  <2>6. ~Locking(frame) /\ FrameSettled(frame, key) /\ TopSettled(frame, key)
    BY <2>1, <2>4 DEF Locking, FrameSettled, TopSettled
  <2>. QED BY <1>1, <2>1, <2>3, <2>4, <2>5, <2>6, BeginKeeps
<1>. QED BY <1>3, <1>4, <1>5 DEF Calls

\* The client takes its lock.
LEMMA TakeLockKeeps ==
    ASSUME EngineInv, TakeLock
    PROVE  EngineInv'
<1>1. /\ Idle /\ ~held /\ held' = TRUE /\ call' = NoCall /\ counter' = counter + 1
      /\ UNCHANGED <<db, durable, spent, stack, ret, mem, roots>>
  BY DEF TakeLock, Enter
<1>2. DataOK /\ counter = 0
  BY <1>1, IdleCounter, EngineParts
<1>3. StackInv'
  <2>1. held' \in BOOLEAN /\ stack' = <<>> /\ counter' = IF held' THEN 1 ELSE 0
    BY <1>1, <1>2 DEF Idle
  <2>. QED BY <2>1, EndKeeps
<1>4. DataOK'
  BY <1>1, <1>2, NoCallType DEF DataOK, mem
<1>. QED BY <1>3, <1>4, EngineParts

\* The client commits its lock.
LEMMA CommitLockKeeps ==
    ASSUME EngineInv, CommitLock
    PROVE  EngineInv'
<1>1. /\ Idle /\ durable' = db /\ spent' = TRUE /\ call' = NoCall
      /\ UNCHANGED <<db, counter, held, stack, ret, mem, roots>>
  BY DEF CommitLock
<1>2. DataOK /\ counter = IF held THEN 1 ELSE 0
  BY <1>1, IdleCounter, EngineParts
<1>3. StackInv'
  <2>1. held' \in BOOLEAN /\ stack' = <<>> /\ counter' = IF held' THEN 1 ELSE 0
    BY <1>1, <1>2 DEF Idle, DataOK
  <2>. QED BY <2>1, EndKeeps
<1>4. DataOK'
  BY <1>1, <1>2, NoCallType DEF DataOK, mem
<1>. QED BY <1>3, <1>4, EngineParts

\* The client releases its lock.
LEMMA ReleaseLockKeeps ==
    ASSUME EngineInv, ReleaseLock
    PROVE  EngineInv'
<1>1. /\ Idle /\ held /\ held' = FALSE /\ spent' = FALSE /\ call' = NoCall
      /\ counter' = counter - 1
      /\ UNCHANGED <<stack, ret, mem>>
  BY DEF ReleaseLock
<1>2. DataOK /\ counter = 1
  BY <1>1, IdleCounter, EngineParts
<1>3. StackInv'
  <2>1. held' \in BOOLEAN /\ ~held'
    BY <1>1
  <2>2. counter' = 0 /\ stack' = <<>>
    BY <1>1, <1>2 DEF Idle
  <2>3. counter' = IF held' THEN 1 ELSE 0
    BY <2>1, <2>2
  <2>. QED BY <2>1, <2>2, <2>3, EndKeeps
<1>4. /\ db' \in [Key -> Row \cup {NoRow}] /\ durable' \in [Key -> Row \cup {NoRow}]
      /\ roots' \in SUBSET Key
  BY <1>2 DEF ReleaseLock, DataOK
<1>5. DataOK'
  BY <1>1, <1>2, <1>4, NoCallType DEF DataOK, mem
<1>. QED BY <1>3, <1>5, EngineParts

-----------------------------------------------------------------------------
\* The engine begins with objects without keys and no function that runs.
LEMMA InitEngine == Init => EngineInv
<1> SUFFICES ASSUME Init PROVE EngineInv
  OBVIOUS
<1>1. LocksOf(<<>>) = 0
  <2>1. {n \in DOMAIN <<>> : Locking(<<>>[n])} = {}
    OBVIOUS
  <2>. QED BY <2>1, FS_EmptySet DEF LocksOf
<1>2. LocksMatchStack /\ Shape /\ Settled
  BY <1>1 DEF Init, LocksMatchStack, Shape, Settled
<1>3. data \in [Obj -> [Field -> Val]]
  BY DEF Init
<1>4. filter \in SUBSET (Table \cup Field)
  BY DEF Init, NoFilter
<1>5. TypeOK
  <2>1. {db, durable} \subseteq [Key -> Row \cup {NoRow}] /\ key \in [Obj -> [Table -> Key \cup {Null}]]
    BY NoCallType DEF Init
  <2>2. /\ counter \in Nat /\ held \in BOOLEAN /\ spent \in BOOLEAN /\ ret \in Key \cup {Null}
        /\ roots \in SUBSET Key
    BY DEF Init
  <2>3. stack \in Seq(Frame)
    BY DEF Init
  <2>4. member \in [Obj -> [Field -> Seq(Obj)]]
    BY PersistenceAssumption DEF Init
  <2>5. call = NoCall
    BY DEF Init
  <2>. QED BY <1>3, <1>4, <2>1, <2>2, <2>3, <2>4, <2>5, NoCallType DEF TypeOK
<1>. QED BY <1>2, <1>5 DEF EngineInv

\* Every step keeps it.
LEMMA NextEngine == EngineInv /\ [Next]_vars => EngineInv'
<1> SUFFICES ASSUME EngineInv, [Next]_vars PROVE EngineInv'
  OBVIOUS
<1>1. CASE Step
  BY <1>1, ApplyBeginKeeps, ApplyEndKeeps, EachBeginKeeps, EachNextKeeps, ExecKeyKeeps,
     ExecBaseKeeps, ExecOneKeeps, ExecAfterKeeps, ExecWriteKeeps, ExecManyKeeps,
     ExecCleanupKeeps, CleanupKeeps, DestroyBeginKeeps, DestroyDeleteKeeps, DestroyEndKeeps
     DEF Step
<1>2. CASE StatementFails
  BY <1>2, AbortKeeps DEF StatementFails
<1>3. CASE Edit
  BY <1>3, EditKeeps
<1>4. CASE Calls
  BY <1>4, CallsKeep
<1>5. CASE TakeLock
  BY <1>5, TakeLockKeeps
<1>6. CASE CommitLock \/ ReleaseLock
  BY <1>6, CommitLockKeeps, ReleaseLockKeeps
<1>7. CASE UNCHANGED vars
  <2>1. /\ UNCHANGED <<db, durable, counter, held, spent, stack, ret, key, member, data, filter,
                       call, roots>>
    BY <1>7 DEF vars
  <2>. QED BY <2>1 DEF EngineInv, TypeOK, LocksMatchStack, Shape, Settled, Top
<1>. QED BY <1>1, <1>2, <1>3, <1>4, <1>5, <1>6, <1>7 DEF Next

\* The engine's invariant, for every schema, object graph and fault.
THEOREM EngineCorrect == Spec => []EngineInv
<1>. QED BY InitEngine, NextEngine, PTL DEF Spec

\* Every variable keeps its type: in particular no frame ever goes on from a
\* key or a field that was not set, and create() reports keys, never Null.
THEOREM EngineTypeCorrect == Spec => []TypeOK
<1>1. EngineInv => TypeOK
  BY DEF EngineInv
<1>. QED BY <1>1, EngineCorrect, PTL

\* The counter of transaction locks is the number of locks alive: no path
\* through the engine, the exceptions included, loses or doubles a lock.
THEOREM LocksCorrect == Spec => []LocksMatchStack
<1>1. EngineInv => LocksMatchStack
  BY DEF EngineInv
<1>. QED BY <1>1, EngineCorrect, PTL

=============================================================================
