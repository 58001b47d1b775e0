----------------------------- MODULE MCUserStore -----------------------------
(* A small instance of UserStore for TLC: two users, three workers, and    *)
(* requests in both directions or in one.                                  *)
EXTENDS UserStore, TLC

CONSTANTS u1, u2

OnePair == {<<u1, u2>>}

Symmetry == Permutations(Workers)
=============================================================================
