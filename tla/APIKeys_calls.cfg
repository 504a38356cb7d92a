\* Three concurrent calls, two customers, two keys in the same slot or in two.
SPECIFICATION Spec
CONSTANTS
    Call = {a1, a2, a3}
    Key = {k1, k2}
    Slot = {s1, s2}
    Customer = {c1, c2}
    NoKey = NoKey
    ShortKey = ShortKey
    NoCustomer = NoCustomer
SYMMETRY KeySymmetry
INVARIANTS
    TypeOK
    RevocationHolds
    ExpiredIsRefused
    ActsForOwner
    ListShowsWhatWasAnswered
PROPERTY
    RowsOnlyAge
\* Once every call is answered nothing is left to do.
CHECK_DEADLOCK FALSE
