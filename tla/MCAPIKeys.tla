-------------------------------- MODULE MCAPIKeys --------------------------------
(***************************************************************************)
(* Instances of APIKeys for TLC.                                           *)
(***************************************************************************)
EXTENDS APIKeys, TLC

\* Calls, keys, slots and customers are interchangeable.
KeySymmetry ==
    Permutations(Call) \cup Permutations(Key) \cup Permutations(Slot)
        \cup Permutations(Customer)

=============================================================================
