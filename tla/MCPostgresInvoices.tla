--------------------------- MODULE MCPostgresInvoices ---------------------------
(***************************************************************************)
(* Instances of PostgresInvoices for TLC.                                  *)
(***************************************************************************)
EXTENDS PostgresInvoices, TLC

Good(c, k, s) == [customer |-> c, key |-> k, series |-> s, defects |-> {}]

KeylessInput == {Good(c, NoKey, s) : c \in Registered, s \in Series}
MixedInput == {Good(c, k, s) : c \in Registered, k \in Key \cup {NoKey}, s \in Series}

\* One item, two items, a row that does not fit, a second item that does not.
FittingContent == {[row |-> TRUE, items |-> <<TRUE, TRUE>>]}
MixedContent ==
    {[row |-> TRUE,  items |-> <<TRUE>>],
     [row |-> TRUE,  items |-> <<TRUE, TRUE>>],
     [row |-> TRUE,  items |-> <<TRUE, FALSE>>],
     [row |-> FALSE, items |-> <<TRUE>>]}

\* Requests are interchangeable: nothing orders them or singles one out.
RequestSymmetry == Permutations(Request)

=============================================================================
