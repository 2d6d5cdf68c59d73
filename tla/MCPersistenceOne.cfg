CONSTANTS
    base = base
    derived2 = derived2
    test2 = test2
    name = name
    test2_nullable = test2_nullable
    test2_ptr_u = test2_ptr_u
    u8_data = u8_data
    d1 = d1
    d2 = d2
    p = p
    v1 = v1
    k1 = k1
    k2 = k2
    k3 = k3
    k4 = k4
    k5 = k5
    k6 = k6
    NoTable = NoTable
    NoField = NoField
    NoRow = NoRow
    Null = Null
    Key <- MCKey
    Table <- MCTable
    Field <- MCField
    BaseOf <- MCBaseOf
    FieldsOf <- MCFieldsOf
    RefOf <- MCRefOf
    Container = {}
    NullableField <- MCNullable
    Val <- OneValue
    Obj <- MCObj
    ObjTable <- MCObjTable
    Root <- MCRoot
    Groups <- MCGroups
    InitialMember <- MCInitialMember
    KeyPool <- MCKeyPool
    Renewable <- MCRenewable
    Filters <- MCFilters
    FoundRows = TRUE
    MayFail = FALSE
    UserLock = FALSE
SPECIFICATION Spec
INVARIANTS
    NoGarbage
    DurableIsWhole
    CallIsLocal
    LegalCallSucceeds
PROPERTIES
    CallSaves
