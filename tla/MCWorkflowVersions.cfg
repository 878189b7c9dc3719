SPECIFICATION WSpec
CONSTANTS
    d1 = d1
    d2 = d2
    Definitions = {d1, d2}
    Warned = {d2}
    Registries <- MCRegistries
    Editors = {e1, e2}
    Planners = {p1, p2}
    MaxVersions = 3
SYMMETRY SessionSymmetry
INVARIANTS
    TypeOK
PROPERTIES
    ApprovedImmutable
    ApprovedChecked
    KeepsLifecycle
