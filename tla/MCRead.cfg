CONSTANTS
    holder = holder
    part1 = part1
    leaf = leaf
    base1 = base1
    derived1 = derived1
    crew = crew
    label = label
    main = main
    boss = boss
    list = list
    size = size
    leaves = leaves
    mark = mark
    name = name
    when = when
    twin = twin
    chief = chief
    pin = pin
    h = h
    p1 = p1
    p2 = p2
    l1 = l1
    l2 = l2
    b = b
    d = d
    x = x
    c = c
    kh = kh
    kp1 = kp1
    kp2 = kp2
    kl1 = kl1
    kl2 = kl2
    kb = kb
    kd = kd
    kd1 = kd1
    kx = kx
    kx1 = kx1
    kc = kc
    s1 = s1
    s2 = s2
    e1 = e1
    NoTable = NoTable
    NoField = NoField
    NoRow = NoRow
    Null = Null
    Garbled = Garbled
    NoStatement = NoStatement
    Key <- MCKey
    Val = {s1, s2, e1}
    Table <- MCTable
    Field <- MCField
    BaseOf <- MCBaseOf
    FieldsOf <- MCFieldsOf
    RefOf <- MCRefOf
    Container = {list, leaves}
    NullableField = {boss, twin, chief}
    PointerField = {list, twin, chief}
    VectorField = {list}
    TypeOf <- MCTypeOf
    AttributesOf <- MCAttributesOf
    Setting <- MCSetting
    Obj <- MCObj
    ObjTable <- MCObjTable
    World <- MCWorld
    Reads <- MCReads
    MaxCalls = 2
SPECIFICATION Spec
INVARIANTS
    ReadMatches
    LegalReadSucceeds
    StatementIsCurrent
    RowsAreRead
PROPERTIES
    ReadsOnlyAdd
CHECK_DEADLOCK FALSE
