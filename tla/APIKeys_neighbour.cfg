\* One call, two keys in the same slot or in two.
SPECIFICATION Spec
CONSTANTS
    Call = {a1}
    Key = {k1, k2}
    Slot = {s1, s2}
    Customer = {c1, c2}
    NoKey = NoKey
    ShortKey = ShortKey
    NoCustomer = NoCustomer
SYMMETRY KeySymmetry
INVARIANT
    RefusedForItsOwnState
CHECK_DEADLOCK FALSE
