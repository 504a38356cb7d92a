\* Two calls of Create, each with an invoice that has no key.
SPECIFICATION RepositorySpec
CONSTANTS
    Request = {r1, r2}
    Customer = {c1}
    Registered = {c1}
    Cuit = {q1}
    NoCuit = NoCuit
    Key = {k1}
    NoKey = NoKey
    Series = {s1}
    Input <- KeylessInput
    Content <- FittingContent
    PoolSize = {2}
INVARIANT
    KeylessNeverConflicts
CHECK_DEADLOCK FALSE
