\* One request with a key.
SPECIFICATION ServeSpec
CONSTANTS
    Request = {r1}
    Customer = {c1}
    Registered = {c1}
    Cuit = {q1}
    NoCuit = NoCuit
    Key = {k1}
    NoKey = NoKey
    Series = {s1}
    Input <- MixedInput
    Content <- FittingContent
    PoolSize = {2}
INVARIANT
    LookupReturns
CHECK_DEADLOCK FALSE
