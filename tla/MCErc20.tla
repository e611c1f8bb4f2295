----------------------------- MODULE MCErc20 --------------------------------
(* Two users that the model does not tell apart, a token with and one      *)
(* without a fee, for TLC.                                                 *)
EXTENDS Erc20

CONSTANTS u1, u2, m, e

Symmetry == Permutations(User)
=============================================================================
