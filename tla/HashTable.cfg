SPECIFICATION CarefulSpec
CONSTANTS
    k1 = k1
    k2 = k2
    k3 = k3
    Keys = {k1, k2, k3}
    Values = {v1, v2}
    None = None
    Cells = {1, 2, 3}
    Null = Null
    HashOf <- MCHashOf
    InitLen = 1
INVARIANTS
    TypeOK
    NoBadPointer
    TailIsLast
    ListsExact
PROPERTY IsMap
