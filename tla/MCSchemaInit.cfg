CONSTANTS
    base = base
    derived3 = derived3
    test3 = test3
    name = name
    test3_list = test3_list
    u32_data = u32_data
    NoTable = NoTable
    NoField = NoField
    Null = Null
    Table <- MCTable
    Field <- MCField
    BaseOf <- MCBaseOf
    FieldsOf <- MCFieldsOf
    RefOf <- MCRefOf
    Container = {test3_list}
    NullableField = {}
    Id = {o1, o2}
    MayFail = TRUE
SPECIFICATION Spec
INVARIANTS
    TypeOK
    InitCompletes
PROPERTIES
    InitIsRepeatable
    RecreateEmpties
