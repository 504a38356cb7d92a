-------------------------------- MODULE MCServer --------------------------------
(***************************************************************************)
(* Instances of Server for TLC.                                            *)
(***************************************************************************)
EXTENDS Server

\* Well-formed requests with and without a key, whose invoice fits.
Good(c, k, s) == [customer |-> c, key |-> k, series |-> s, defects |-> {}]
MixedInput == {Good(c, k, s) : c \in Registered, k \in Key \cup {NoKey}, s \in Series}
FittingContent == {[row |-> TRUE, items |-> <<TRUE>>]}

=============================================================================
