------------------------- MODULE MCPersistencePoly -------------------------
(***************************************************************************)
(* A container of pointers to a polymorphic class: an owner with a list of *)
(* base pointers, one of which holds a derived1 object.                    *)
(***************************************************************************)
EXTENDS PersistenceSafety

CONSTANTS holder, base, derived1, label, list, name, enum_data,
          root, e1, e2, v1, k1, k2, k3, k4, k5, k6

MCTable == {holder, base, derived1}
MCField == {label, list, name, enum_data}
MCBaseOf == [t \in MCTable |-> IF t = derived1 THEN base ELSE NoTable]
MCFieldsOf == [t \in MCTable |-> CASE t = holder   -> <<label, list>>
                                   [] t = base     -> <<name>>
                                   [] t = derived1 -> <<enum_data>>]
MCRefOf == [f \in MCField |-> IF f = list THEN base ELSE NoTable]

MCObj == {root, e1, e2}
MCObjTable == [o \in MCObj |-> CASE o = root -> holder
                                 [] o = e1   -> derived1
                                 [] o = e2   -> base]
MCInitialMember == [o \in MCObj |-> [f \in MCField |-> <<>>]]

MCKey == {k1, k2, k3, k4, k5, k6}
MCKeyPool ==
    [s \in MCObj \X MCTable |->
       CASE s = <<root, holder>> -> {k1}
         [] s = <<e1, base>>     -> {k2, k3}
         [] s = <<e1, derived1>> -> {k4, k5}
         [] s = <<e2, base>>     -> {k6}
         [] OTHER                -> {}]

\* Nothing excluded; the table of the derived class excluded.
MCFilters == {NoFilter, SetInclusive({holder, base}, {})}
=============================================================================
