\* Two requests, contents that fit and contents that do not, a pool of one or two.
SPECIFICATION Spec
CONSTANTS
    Request = {r1, r2}
    Customer = {c1}
    Registered = {c1}
    Cuit = {q1}
    NoCuit = NoCuit
    Key = {k1}
    NoKey = NoKey
    Series = {s1}
    Input <- MixedInput
    Content <- MixedContent
    PoolSize = {1, 2}
INVARIANTS
    TypeOK
    SavedWhole
    OneRowPerKey
    ConnectionsReturned
    NoCircularWait
PROPERTIES
    BoundedWork
    ImplementsService
\* Once every request is answered the server has nothing left to do.
CHECK_DEADLOCK FALSE
