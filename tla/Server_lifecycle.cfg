\* Two requests, with and without a key, one connection or two, restarts.
SPECIFICATION FairSpec
CONSTANTS
    Request = {r1, r2}
    Customer = {c1}
    Registered = {c1}
    Cuit = {q1}
    NoCuit = NoCuit
    Key = {k1}
    NoKey = NoKey
    Series = {s1}
    Input <- MixedInput
    Content <- FittingContent
    PoolSize = {1, 2}
INVARIANTS
    TypeOK
    NothingLeftBehind
PROPERTIES
    ImplementsPostgres
    EveryRequestAnswered
    ShutdownEnds
\* Once every request is answered a process that is down may stay down.
CHECK_DEADLOCK FALSE
