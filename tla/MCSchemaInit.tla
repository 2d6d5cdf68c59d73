---------------------------- MODULE MCSchemaInit ----------------------------
(***************************************************************************)
(* Three tables of the test schema: tbl_base, tbl_derived3 (derived from   *)
(* it here without the tables between) with a list of tbl_test3.           *)
(***************************************************************************)
EXTENDS SchemaInit

CONSTANTS base, derived3, test3, name, test3_list, u32_data

MCTable == {base, derived3, test3}
MCField == {name, test3_list, u32_data}
MCBaseOf == [t \in MCTable |-> IF t = derived3 THEN base ELSE NoTable]
MCFieldsOf == [t \in MCTable |-> CASE t = base     -> <<name>>
                                   [] t = derived3 -> <<test3_list>>
                                   [] t = test3    -> <<u32_data>>]
MCRefOf == [f \in MCField |-> IF f = test3_list THEN test3 ELSE NoTable]
=============================================================================
