SPECIFICATION CarefulSpec
CONSTANTS
    Names = {m, n}
    Values = {u, v}
    None = None
    Cells = {c1, c2}
    FirstSlots = 3
    MaxSlots = 3
SYMMETRY Symmetry
VIEW State
INVARIANTS
    TypeOK
    PayloadsOwnedOnce
    EnvironIsExported
PROPERTIES
    IsScoped
CHECK_DEADLOCK FALSE
