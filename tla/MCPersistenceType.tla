------------------------- MODULE MCPersistenceType -------------------------
(***************************************************************************)
(* A base class with a pointer to an object of another hierarchy: base     *)
(* with derived class heir, and piece with derived class subpiece.         *)
(***************************************************************************)
EXTENDS PersistenceSafety

CONSTANTS base, heir, piece, subpiece, name, inner, label, extra,
          root, p, k1, k2, k3, k4

MCTable == {base, heir, piece, subpiece}
MCField == {name, inner, label, extra}
MCBaseOf == [t \in MCTable |-> CASE t = heir     -> base
                                 [] t = subpiece -> piece
                                 [] OTHER        -> NoTable]
MCFieldsOf == [t \in MCTable |-> CASE t = base     -> <<name, inner>>
                                   [] t = piece    -> <<label>>
                                   [] t = subpiece -> <<extra>>
                                   [] OTHER        -> <<>>]
MCRefOf == [f \in MCField |-> IF f = inner THEN piece ELSE NoTable]

MCObj == {root, p}
MCObjTable == [o \in MCObj |-> IF o = root THEN heir ELSE subpiece]
MCInitialMember == [o \in MCObj |-> [f \in MCField |-> <<>>]]

MCKey == {k1, k2, k3, k4}
MCKeyPool ==
    [s \in MCObj \X MCTable |->
       CASE s = <<root, base>>  -> {k1}
         [] s = <<root, heir>>  -> {k2}
         [] s = <<p, piece>>    -> {k3}
         [] s = <<p, subpiece>> -> {k4}
         [] OTHER               -> {}]
=============================================================================
