CONSTANTS
    piece = piece
    subpiece = subpiece
    extra = extra
    base = base
    heir = heir
    inner = inner
    name = name
    label = label
    root = root
    p = p
    k1 = k1
    k2 = k2
    k3 = k3
    k4 = k4
    NoTable = NoTable
    NoField = NoField
    NoRow = NoRow
    Null = Null
    Key <- MCKey
    Table <- MCTable
    Field <- MCField
    BaseOf <- MCBaseOf
    FieldsOf <- MCFieldsOf
    RefOf <- MCRefOf
    Container = {}
    NullableField = {inner}
    Val = {v1}
    Obj <- MCObj
    ObjTable <- MCObjTable
    InitialMember <- MCInitialMember
    KeyPool <- MCKeyPool
    Root = {root}
    Groups = {}
    Renewable = {}
    Filters = {}
    FoundRows = TRUE
    MayFail = FALSE
    UserLock = FALSE
SPECIFICATION Spec
INVARIANTS
    DurableIsWhole
