-------------------------- MODULE MCTokenVerifier --------------------------
(* Tokens for the small instance of TokenVerifier. *)
EXTENDS TokenVerifier, TLC

CONSTANTS t1, t2, t3

OneExp == [t \in Token |-> IF t = t2 THEN 3 ELSE 0]
OneClaim == [t \in Token |-> IF t = t3 THEN "outside" ELSE "none"]

Symmetry == Permutations(Call)
=============================================================================
