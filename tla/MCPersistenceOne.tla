-------------------------- MODULE MCPersistenceOne --------------------------
(***************************************************************************)
(* A hierarchy with nullable one fields: the tables tbl_base, tbl_derived2 *)
(* and tbl_test2 of the test schema, two derived2 objects, each with two   *)
(* places for the one test2 object.                                        *)
(***************************************************************************)
EXTENDS PersistenceSafety

CONSTANTS base, derived2, test2, name, test2_nullable, test2_ptr_u, u8_data,
          d1, d2, p, v1, k1, k2, k3, k4, k5, k6

MCTable == {base, derived2, test2}
MCField == {name, test2_nullable, test2_ptr_u, u8_data}
MCNullable == {test2_nullable, test2_ptr_u}
MCBaseOf == [t \in MCTable |-> IF t = derived2 THEN base ELSE NoTable]
MCFieldsOf == [t \in MCTable |-> CASE t = base     -> <<name>>
                                   [] t = derived2 -> <<test2_nullable, test2_ptr_u>>
                                   [] t = test2    -> <<u8_data>>]
MCRefOf == [f \in MCField |-> IF f \in MCNullable THEN test2 ELSE NoTable]

MCObj == {d1, d2, p}
MCRoot == {d1, d2}
OneRoot == {d1}
MCGroups == {<<d1, d2>>}
MCRenewable == {p}
MCObjTable == [o \in MCObj |-> IF o \in MCRoot THEN derived2 ELSE test2]
MCInitialMember == [o \in MCObj |-> [f \in MCField |-> <<>>]]

MCKey == {k1, k2, k3, k4, k5, k6}
MCKeyPool ==
    [s \in MCObj \X MCTable |->
       CASE s = <<d1, base>>     -> {k1}
         [] s = <<d1, derived2>> -> {k2}
         [] s = <<d2, base>>     -> {k3}
         [] s = <<d2, derived2>> -> {k4}
         [] s = <<p, test2>>     -> {k5, k6}
         [] OTHER                -> {}]

OneValue == {v1}
OnlyNoFilter == {NoFilter}

\* Nothing excluded; the base table excluded.
MCFilters == {NoFilter, SetInclusive({derived2, test2}, {})}
=============================================================================
