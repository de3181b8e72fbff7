SPECIFICATION Spec
CONSTANTS
    p1 = p1
    p2 = p2
    Process = {p1, p2}
    q1 = q1
    q2 = q2
    q3 = q3
    Position = {q1, q2, q3}
INVARIANTS
    TypeOK
    NeverTorn
    SavedIsDurable
PROPERTIES
    ImplementsRegister
