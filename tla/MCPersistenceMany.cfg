CONSTANTS
    base = base
    derived3 = derived3
    test3 = test3
    name = name
    test3_list = test3_list
    test3_vector = test3_vector
    u32_data = u32_data
    root = root
    e1 = e1
    e2 = e2
    v1 = v1
    NoTable = NoTable
    NoField = NoField
    NoRow = NoRow
    Null = Null
    Key <- MCKey
    k1 = k1
    k2 = k2
    k3 = k3
    k4 = k4
    k5 = k5
    Table <- MCTable
    Field <- MCField
    BaseOf <- MCBaseOf
    FieldsOf <- MCFieldsOf
    RefOf <- MCRefOf
    Container <- MCContainer
    NullableField = {}
    Val <- OneValue
    Obj <- MCObj
    ObjTable <- MCObjTable
    Root <- MCRoot
    Groups = {}
    InitialMember <- MCInitialMember
    KeyPool <- MCKeyPool
    Renewable <- MCElements
    Filters <- MCFilters
    FoundRows = TRUE
    MayFail = FALSE
    UserLock = FALSE
SPECIFICATION Spec
INVARIANTS
    TypeOK
    NoGarbage
    ExcludedIsKept
    LegalCallSucceeds
PROPERTIES
    ExcludedElementsStay
    CallSaves
