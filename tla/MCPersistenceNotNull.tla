------------------------ MODULE MCPersistenceNotNull ------------------------
(***************************************************************************)
(* A one field that is not nullable: the tables tbl_base, tbl_derived1 and *)
(* tbl_test1 of the test schema.                                           *)
(***************************************************************************)
EXTENDS PersistenceSafety

CONSTANTS base, derived1, test1, name, test1_data, enum_data, str_data,
          root, p, v1, v2, k1, k2, k3, k4

MCTable == {base, derived1, test1}
MCField == {name, test1_data, enum_data, str_data}
MCBaseOf == [t \in MCTable |-> IF t = derived1 THEN base ELSE NoTable]
MCFieldsOf == [t \in MCTable |-> CASE t = base     -> <<name>>
                                   [] t = derived1 -> <<test1_data, enum_data>>
                                   [] t = test1    -> <<str_data>>]
MCRefOf == [f \in MCField |-> IF f = test1_data THEN test1 ELSE NoTable]

MCObj == {root, p}
MCObjTable == [o \in MCObj |-> IF o = root THEN derived1 ELSE test1]
MCInitialMember ==
    [o \in MCObj |-> [f \in MCField |->
       IF o = root /\ f = test1_data THEN <<p>> ELSE <<>>]]

MCKey == {k1, k2, k3, k4}
MCKeyPool ==
    [s \in MCObj \X MCTable |->
       CASE s = <<root, base>>     -> {k1}
         [] s = <<root, derived1>> -> {k2}
         [] s = <<p, test1>>       -> {k3, k4}
         [] OTHER                  -> {}]

\* The values of the data fields are only stored and compared.
MCSymmetry == Permutations({v1, v2})

\* Nothing excluded; the part and the data field of the derived class;
\* everything but that data field; everything but the tables of the part and
\* the base class.
MCFilters == {NoFilter,
              SetExclusive({}, {test1_data, enum_data}),
              SetInclusive({}, {enum_data}),
              SetInclusive({test1, base}, {})}
=============================================================================
