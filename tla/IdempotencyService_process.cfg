\* Three concurrent calls, two keys, two bodies, every failure.
SPECIFICATION Spec
CONSTANTS
    Call = {p1, p2, p3}
    Key = {k1, k2}
    NoKey = NoKey
    Body = {b1, b2}
    NoBody = NoBody
    NoCall = NoCall
SYMMETRY CallSymmetry
INVARIANTS
    TypeOK
    RetryNeverExecutes
    ExecutedIsRecorded
    ResultIsGenuine
PROPERTY
    KeepsContract
\* Once every call has returned nothing is left to do.
CHECK_DEADLOCK FALSE
