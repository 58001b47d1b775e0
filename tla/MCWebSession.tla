---------------------------- MODULE MCWebSession -----------------------------
(* A small instance of WebSession for TLC.                                 *)
EXTENDS WebSession, TLC

Symmetry == Permutations(Browsers) \union Permutations(Workers)
              \union Permutations(People)
=============================================================================
