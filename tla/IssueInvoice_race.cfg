\* Two concurrent requests under one key.
SPECIFICATION Spec
CONSTANTS
    Request = {r1, r2}
    Customer = {c1}
    Registered = {c1}
    Cuit = {q1}
    NoCuit = NoCuit
    Key = {k1}
    NoKey = NoKey
    Series = {s1}
    Input <- KeyedInput
INVARIANT
    SameKeySameInvoice
CHECK_DEADLOCK FALSE
