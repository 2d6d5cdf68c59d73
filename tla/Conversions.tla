---------------------------- MODULE Conversions ----------------------------
(***************************************************************************)
(* What a data field's value becomes on its way to the server and back:    *)
(* type_properties makes a text of it, the SQL functions that the field's  *)
(* attributes and its type add are applied to the text before it is stored *)
(* and to the column when it is selected, and type_properties reads the    *)
(* text that comes back.  float and double, of which the text keeps some   *)
(* digits only, are left out.                                              *)
(*                                                                         *)
(* A text is [form, of]: what is written of a value ("number", "name", ... *)
(* ) and the value.  A cell is [by, text]: a text and the functions that   *)
(* were applied to it, the outermost first.                                *)
(***************************************************************************)
EXTENDS Database

CONSTANTS
    TypeOf,         \* [Field -> Type]: the type of a data field, or of its
                    \* value if the field is nullable
    AttributesOf,   \* [Field -> SUBSET Attribute]
    Garbled         \* what comes of a function or a parser that is given
                    \* what it was not made for

Attribute == {"hex", "compress"}
Narrow == {"bool", "uint8", "int8"}
Wide == {"uint16", "int16", "uint32", "int32", "uint64", "int64"}
Type == Narrow \cup Wide \cup {"uuid", "timestamp", "string", "enum", "flags"}

ASSUME ConversionAssumption ==
    /\ TypeOf \in [Field -> Type]
    /\ AttributesOf \in [Field -> SUBSET Attribute]

-----------------------------------------------------------------------------
(* The specialisations of type_properties: the form convert_from writes,   *)
(* the form convert_to reads, and the functions of convert_to_open and     *)
(* convert_from_open.                                                      *)
Plain(form) == [writes |-> form, reads |-> form, to |-> <<>>, from |-> <<>>]

NarrowProperties == Plain("number")
WideProperties == Plain("number")
UuidProperties == Plain("uuid")
TimestampProperties == [writes |-> "number", reads |-> "number",
                        to |-> <<"FROM_UNIXTIME">>, from |-> <<"UNIX_TIMESTAMP">>]
StringProperties == Plain("string")
EnumProperties == Plain("name")

\* The members of a flags value are written as numbers and read as names.
FlagsProperties == [Plain("name") EXCEPT !.writes = "numbers"]

PropertiesOf(type) ==
    CASE type \in Narrow    -> NarrowProperties
      [] type \in Wide      -> WideProperties
      [] type = "uuid"      -> UuidProperties
      [] type = "timestamp" -> TimestampProperties
      [] type = "string"    -> StringProperties
      [] type = "enum"      -> EnumProperties
      [] type = "flags"     -> FlagsProperties

\* A nullable converts its value as the value's type does, but has no SQL
\* function of its own.
FieldProperties(f) ==
    IF f \in NullableField
    THEN [PropertiesOf(TypeOf[f]) EXCEPT !.to = <<>>, !.from = <<>>]
    ELSE PropertiesOf(TypeOf[f])

\* The small types pass through int; a cast brings the number that was read
\* back to eight bits, and to one for bool.
NarrowNumber(type, v) == IF type = "bool" THEN (IF v THEN 1 ELSE 0) ELSE v

NarrowValue(type, n) ==
    CASE type = "bool"  -> n # 0
      [] type = "uint8" -> n % 256
      [] type = "int8"  -> ((n + 128) % 256) - 128

-----------------------------------------------------------------------------
(* field_t::update() and value_field_t::update(): the functions of a field *)
(* are those of its attributes, in the order of std::set, then its type's. *)

\* Mutant: the attributes of convert_from in the order of convert_to.
AttributeInversesInOrder(f) ==
    (IF "hex" \in AttributesOf[f] THEN <<"UNHEX">> ELSE <<>>)
    \o (IF "compress" \in AttributesOf[f] THEN <<"UNCOMPRESS">> ELSE <<>>)

AttributeFunctions(f) ==
    (IF "hex" \in AttributesOf[f] THEN <<"HEX">> ELSE <<>>)
    \o (IF "compress" \in AttributesOf[f] THEN <<"COMPRESS">> ELSE <<>>)

AttributeInverses(f) ==
    (IF "compress" \in AttributesOf[f] THEN <<"UNCOMPRESS">> ELSE <<>>)
    \o (IF "hex" \in AttributesOf[f] THEN <<"UNHEX">> ELSE <<>>)

ConvertTo(f) == AttributeFunctions(f) \o FieldProperties(f).to
ConvertFrom(f) == AttributeInverses(f) \o FieldProperties(f).from

-----------------------------------------------------------------------------
\* The functions of the server, and which one undoes which.
InverseOf == [UNHEX |-> "HEX", UNCOMPRESS |-> "COMPRESS",
              UNIX_TIMESTAMP |-> "FROM_UNIXTIME"]

\* The innermost of the functions from, the last one, undoes the outermost of
\* the functions to, the first one, and so on.
Undoes(from, to) ==
    /\ Len(from) = Len(to)
    /\ \A i \in 1..Len(to) : InverseOf[from[Len(to) + 1 - i]] = to[i]

\* The cell that value_field_t::get() and an INSERT make of the value v.
Written(f, v) ==
    [by   |-> ConvertTo(f),
     text |-> [form |-> FieldProperties(f).writes,
               of   |-> IF TypeOf[f] \in Narrow THEN NarrowNumber(TypeOf[f], v) ELSE v]]

\* What the column of the field f holds once v was written to it.  A data field
\* of type uuid has no UuidToBin: its text does not fit into BINARY(16).
Stored(f, v) ==
    IF v = Null THEN Null
    ELSE IF TypeOf[f] = "uuid" THEN Garbled
    ELSE Written(f, v)

\* What a SELECT of the column returns.
Selected(f, cell) ==
    IF cell \in {Null, Garbled} THEN cell
    ELSE IF Undoes(ConvertFrom(f), cell.by) THEN cell.text ELSE Garbled

\* value_field_t::set(): the member a selected text makes.
Loaded(f, text) ==
    IF text = Null THEN Null
    ELSE IF text = Garbled \/ text.form # FieldProperties(f).reads THEN Garbled
    ELSE IF TypeOf[f] \in Narrow THEN NarrowValue(TypeOf[f], text.of) ELSE text.of

\* The fields whose values survive the way through the database.  The others
\* are those of type uuid, which lack UuidToBin, and of a flags type, whose
\* numbers are no names; a nullable timestamp, stored as if it were a date; and
\* a timestamp under attributes, whose functions are undone in the order they
\* were applied.  (Attributes of numbers are a matter of the server's casts.)
Convertible(f) ==
    /\ TypeOf[f] \notin {"uuid", "flags"}
    /\ TypeOf[f] = "timestamp" => f \notin NullableField
    /\ TypeOf[f] # "string" => AttributesOf[f] = {}
=============================================================================
