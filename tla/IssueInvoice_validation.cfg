\* Two requests of two registered customers, each with credentials of two CUITs
\* that both may hold, and of one that is not registered; every defect, every
\* failure.
SPECIFICATION Spec
CONSTANTS
    Request = {r1, r2}
    Customer = {c1, c2, c3}
    Registered = {c1, c2}
    Cuit = {q1, q2}
    NoCuit = NoCuit
    Key = {k1}
    NoKey = NoKey
    Series = {s1}
    Input <- DefectiveInput
SYMMETRY CustomerSymmetry
INVARIANTS
    TypeOK
    NumbersDistinct
    OnlyValidInputReachesARCA
    CleanFailure
PROPERTY
    KeepsContract
\* Once every request is answered the server has nothing left to do.
CHECK_DEADLOCK FALSE
