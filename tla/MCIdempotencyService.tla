-------------------------- MODULE MCIdempotencyService --------------------------
(***************************************************************************)
(* Instances of IdempotencyService for TLC.                                *)
(***************************************************************************)
EXTENDS IdempotencyService, TLC

\* Calls are interchangeable, and so are keys and bodies.
CallSymmetry == Permutations(Call) \cup Permutations(Key) \cup Permutations(Body)

=============================================================================
