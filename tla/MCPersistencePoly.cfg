CONSTANTS
    holder = holder
    base = base
    derived1 = derived1
    label = label
    list = list
    name = name
    enum_data = enum_data
    root = root
    e1 = e1
    e2 = e2
    v1 = v1
    k1 = k1
    k2 = k2
    k3 = k3
    k4 = k4
    k5 = k5
    k6 = k6
    NoTable = NoTable
    NoField = NoField
    NoRow = NoRow
    Null = Null
    Key <- MCKey
    Table <- MCTable
    Field <- MCField
    BaseOf <- MCBaseOf
    FieldsOf <- MCFieldsOf
    RefOf <- MCRefOf
    Container = {list}
    NullableField = {}
    Val = {v1}
    Obj <- MCObj
    ObjTable <- MCObjTable
    Root = {root}
    Groups = {}
    InitialMember <- MCInitialMember
    KeyPool <- MCKeyPool
    Renewable = {e1, e2}
    Filters <- MCFilters
    FoundRows = TRUE
    MayFail = FALSE
    UserLock = FALSE
SPECIFICATION FairSpec
INVARIANTS
    NoGarbage
PROPERTIES
    CallSaves
    CallsEnd
