------------------------------- MODULE MCRead -------------------------------
(***************************************************************************)
(* The shapes of test_schema.h in one small schema: a part held by value,  *)
(* one by a nullable and one by a pointer, a container in a part, a vector *)
(* of base pointers, and a part whose class has a base class; and a class  *)
(* with the members a read cannot do right: a pointer to a polymorphic     *)
(* class and a set of flags.                                               *)
(***************************************************************************)
EXTENDS ReadSafety

CONSTANTS holder, part1, leaf, base1, derived1, crew,
          label, main, boss, list, size, leaves, mark, name, when, twin, chief, pin,
          h, p1, p2, l1, l2, b, d, x, c,
          kh, kp1, kp2, kl1, kl2, kb, kd, kd1, kx, kx1, kc, s1, s2, e1

MCTable == {holder, part1, leaf, base1, derived1, crew}
MCField == {label, main, boss, list, size, leaves, mark, name, when, twin, chief, pin}
MCBaseOf == [t \in MCTable |-> IF t = derived1 THEN base1 ELSE NoTable]
MCFieldsOf == [t \in MCTable |-> CASE t = holder   -> <<label, list, boss, main>>
                                   [] t = part1    -> <<size, leaves>>
                                   [] t = leaf     -> <<mark>>
                                   [] t = base1    -> <<name>>
                                   [] t = derived1 -> <<twin, when>>
                                   [] t = crew     -> <<chief, pin>>]
MCRefOf == [f \in MCField |-> CASE f \in {main, twin} -> part1
                                [] f = boss           -> derived1
                                [] f \in {list, chief} -> base1
                                [] f = leaves         -> leaf
                                [] OTHER              -> NoTable]

MCTypeOf == [f \in MCField |-> CASE f = size -> "int8"
                                 [] f = mark -> "bool"
                                 [] f = name -> "enum"
                                 [] f = when -> "timestamp"
                                 [] f = pin  -> "flags"
                                 [] OTHER    -> "string"]
MCAttributesOf == [f \in MCField |-> IF f = label THEN {"hex", "compress"} ELSE {}]

MCObj == {h, p1, p2, l1, l2, b, d, x, c}
MCObjTable == [o \in MCObj |-> CASE o = h          -> holder
                                 [] o \in {p1, p2} -> part1
                                 [] o \in {l1, l2} -> leaf
                                 [] o = b          -> base1
                                 [] o \in {d, x}   -> derived1
                                   [] o = c          -> crew]

MCKey == {kh, kp1, kp2, kl1, kl2, kb, kd, kd1, kx, kx1, kc}
AllKeys(o, t) ==
    CASE <<o, t>> = <<h, holder>>   -> kh
      [] <<o, t>> = <<p1, part1>>   -> kp1
      [] <<o, t>> = <<p2, part1>>   -> kp2
      [] <<o, t>> = <<l1, leaf>>    -> kl1
      [] <<o, t>> = <<l2, leaf>>    -> kl2
      [] <<o, t>> = <<b, base1>>    -> kb
      [] <<o, t>> = <<d, base1>>    -> kd
      [] <<o, t>> = <<d, derived1>> -> kd1
      [] <<o, t>> = <<x, base1>>    -> kx
      [] <<o, t>> = <<x, derived1>> -> kx1
      [] <<o, t>> = <<c, crew>>     -> kc
      [] OTHER                      -> Null

Data(o, f) ==
    CASE f = label -> s1
      [] f = size  -> IF o = p1 THEN -1 ELSE 127
      [] f = mark  -> o = l1
      [] f = name  -> IF o = d THEN s2 ELSE e1
      [] f = when  -> 7
      [] f = pin   -> e1
      [] OTHER     -> Null

\* The objects of one world: what the holder's list and its boss, the two parts,
\* the derived object and the crew hold.  Objects nobody holds are stored as well, for
\* they may be read on their own.
MakeWorld(inList, theBoss, ofP1, ofP2, theTwin, theChief) ==
    [key    |-> [o \in MCObj |-> [t \in MCTable |-> AllKeys(o, t)]],
     data   |-> [o \in MCObj |-> [f \in MCField |-> Data(o, f)]],
     member |-> [o \in MCObj |-> [f \in MCField |->
                   CASE <<o, f>> = <<h, main>>    -> <<p1>>
                     [] <<o, f>> = <<h, list>>    -> inList
                     [] <<o, f>> = <<h, boss>>    -> theBoss
                     [] <<o, f>> = <<p1, leaves>> -> ofP1
                     [] <<o, f>> = <<p2, leaves>> -> ofP2
                     [] <<o, f>> = <<d, twin>>    -> theTwin
                     [] <<o, f>> = <<c, chief>>   -> theChief
                     [] OTHER                     -> <<>>]]]

MCWorld ==
    {MakeWorld(<<d, b>>, <<x>>, <<>>, <<l2, l1>>, <<p2>>, <<>>),
     MakeWorld(<<b>>, <<x>>, <<l1, l2>>, <<>>, <<>>, <<d>>),
     MakeWorld(<<>>, <<>>, <<l1>>, <<l2>>, <<p2>>, <<b>>)}

Plainly(call, tables, fields) == [call |-> call, tables |-> tables, fields |-> fields]

MCSetting ==
    {Plainly("clear", {}, {}),
     Plainly("inclusive", {holder, part1, base1}, {pin}),
     Plainly("exclusive", {base1}, {label, size, pin})}

Into(kind, t, moves) == [kind |-> kind, table |-> t, moves |-> moves]

Where(clause) == [NoModifiers EXCEPT !.where = {clause}]

WithLimit(n, m) == [NoModifiers EXCEPT !.limit = n, !.offset = m]

MCReads ==
    [dest : {Into("pointers", base1, TRUE), Into("values", base1, TRUE)},
     mods : {NoModifiers, WithLimit(-1, 1), WithLimit(1, -1), Where(KeyClause(base1, kd)),
             Where([table |-> base1, field |-> name, value |-> e1])}]
    \cup [dest : {Into("pointer", base1, FALSE), Into("value", base1, FALSE)},
          mods : {WithLimit(1, 1), Where(KeyClause(base1, kd)), NoModifiers}]
    \cup [dest : {Into("optional", part1, FALSE)},
          mods : {Where([table |-> part1, field |-> size, value |-> -1])}]
    \cup [dest : {Into("values", part1, FALSE), Into("values", part1, TRUE),
                 Into("values", derived1, TRUE)},
          mods : {NoModifiers}]
    \cup [dest : {Into("pointers", leaf, TRUE), Into("values", leaf, TRUE)},
          mods : {NoModifiers, [NoModifiers EXCEPT !.order = TRUE]}]
=============================================================================
