SPECIFICATION Spec
CONSTANTS
    Creators = {c1, c2}
    Writers = {w1}
    Appenders = {a1, a2}
    Limit = 1
    MaxEvents = 3
SYMMETRY SessionSymmetry
INVARIANTS
    TypeOK
    AppendsNeverCollide
    TimesMatchStatus
PROPERTIES
    ImplementsStream
