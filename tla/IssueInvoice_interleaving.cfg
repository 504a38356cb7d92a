\* Three concurrent requests of one customer, with and without a key.
SPECIFICATION Spec
CONSTANTS
    Request = {r1, r2, r3}
    Customer = {c1}
    Registered = {c1}
    Cuit = {q1}
    NoCuit = NoCuit
    Key = {k1}
    NoKey = NoKey
    Series = {s1}
    Input <- SameCustomerInput
SYMMETRY RequestSymmetry
INVARIANTS
    IssuedMeansAuthorised
    CreatedMeansStored
    RetryNeverReissues
\* Once every request is answered the server has nothing left to do.
CHECK_DEADLOCK FALSE
