\* A CreateVoucher call whose answer is lost.
SPECIFICATION Spec
CONSTANTS
    Request = {r1, r2}
    Customer = {c1}
    Registered = {c1}
    Cuit = {q1}
    NoCuit = NoCuit
    Key = {k1}
    NoKey = NoKey
    Series = {s1}
    Input <- KeyedInput
INVARIANT
    RejectedMeansRefused
CHECK_DEADLOCK FALSE
