CONSTANTS
    base = base
    derived1 = derived1
    test1 = test1
    name = name
    test1_data = test1_data
    enum_data = enum_data
    str_data = str_data
    root = root
    p = p
    k1 = k1
    k2 = k2
    k3 = k3
    k4 = k4
    NoTable = NoTable
    NoField = NoField
    NoRow = NoRow
    Null = Null
    Key <- MCKey
    Table <- MCTable
    Field <- MCField
    BaseOf <- MCBaseOf
    FieldsOf <- MCFieldsOf
    RefOf <- MCRefOf
    Container = {}
    NullableField = {}
    v1 = v1
    v2 = v2
    Val = {v1}
    Obj <- MCObj
    ObjTable <- MCObjTable
    InitialMember <- MCInitialMember
    KeyPool <- MCKeyPool
    Root = {root}
    Groups = {}
    Renewable = {p}
    Filters = {}
    FoundRows = TRUE
    MayFail = FALSE
    UserLock = FALSE
SPECIFICATION Spec
INVARIANTS
    ReplacingPartSucceeds
