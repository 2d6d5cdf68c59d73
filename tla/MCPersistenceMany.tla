------------------------- MODULE MCPersistenceMany -------------------------
(***************************************************************************)
(* Containers: the tables tbl_derived3 and tbl_test3 of the test schema and *)
(* a base table that has the list; one derived3 object with a list and a   *)
(* vector of test3 objects.                                                *)
(***************************************************************************)
EXTENDS PersistenceSafety

CONSTANTS base, derived3, test3, name, test3_list, test3_vector, u32_data,
          root, e1, e2, v1, k1, k2, k3, k4, k5

MCTable == {base, derived3, test3}
MCField == {name, test3_list, test3_vector, u32_data}
MCBaseOf == [t \in MCTable |-> IF t = derived3 THEN base ELSE NoTable]
MCFieldsOf == [t \in MCTable |-> CASE t = base     -> <<name, test3_list>>
                                   [] t = derived3 -> <<test3_vector>>
                                   [] t = test3    -> <<u32_data>>]
MCContainer == {test3_list, test3_vector}
MCRefOf == [f \in MCField |-> IF f \in MCContainer THEN test3 ELSE NoTable]

MCObj == {root, e1, e2}
MCRoot == {root}
MCElements == {e1, e2}
MCObjTable == [o \in MCObj |-> IF o = root THEN derived3 ELSE test3]
MCInitialMember == [o \in MCObj |-> [f \in MCField |-> <<>>]]

MCKey == {k1, k2, k3, k4, k5}
MCKeyPool ==
    [p \in MCObj \X MCTable |->
       CASE p = <<root, derived3>> -> {k1}
         [] p = <<root, base>>     -> {k5}
         [] p = <<e1, test3>>      -> {k2, k3}
         [] p = <<e2, test3>>      -> {k4}
         [] OTHER                  -> {}]

OneValue == {v1}

\* Nothing excluded; the vector excluded; all but the object's own tables.
MCFilters == {NoFilter,
              SetExclusive({}, {test3_vector}),
              SetInclusive({base, derived3}, {})}
=============================================================================
